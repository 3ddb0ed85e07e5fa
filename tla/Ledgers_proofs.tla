--------------------------- MODULE Ledgers_proofs ---------------------------
(***************************************************************************)
(* The four files of Ledgers, for every number of writers and every order of *)
(* their system calls, with a death after any of them.  Each discipline has *)
(* an invariant of its own: the promotion ledger's writers each hold what  *)
(* they have read with their entry behind it; the chain and the stream are *)
(* what the one writer in its call has read, while no calls overlap; in the *)
(* registry an entry is lost to a tear, and to each tear one at most.      *)
(***************************************************************************)
EXTENDS Ledgers, SequenceTheorems, FiniteSetTheorems, TLAPS

-----------------------------------------------------------------------------
(* Lines and logs *)

\* The writers of the lines of a text.
By(s) == {s[i].by : i \in 1..Len(s)} \ {NoWriter}

LEMMA Writing ==
    /\ IsFiniteSet(Writers) /\ Cardinality(Writers) \in Nat
    /\ NoWriter \notin Writers
    /\ Scrap \in Line /\ Scrap.by = NoWriter
    /\ \A w \in Writers : [by |-> w, after |-> NoWriter] # Scrap
    /\ Files \subseteq Nat \ {0}
  <1>1. IsFiniteSet(Writers) /\ NoWriter \notin Writers
    BY LedgersAssumption DEF LedgersAssumption
  <1>2. Cardinality(Writers) \in Nat
    BY <1>1, FS_CardinalityType
  <1> QED
    BY <1>1, <1>2 DEF Scrap, Line, Files

LEMMA LineAdded ==
    ASSUME NEW s \in Seq(Line), NEW e \in Line
    PROVE  /\ Append(s, e) \in Seq(Line) /\ Append(s, e) # <<>>
           /\ Append(s, e) # s
           /\ By(Append(s, e)) = By(s) \cup ({e.by} \ {NoWriter})
           /\ Parses(Append(s, e)) <=> Parses(s) /\ e # Scrap
           /\ Append(s, e)[Len(Append(s, e))] = e
  <1> DEFINE t == Append(s, e)
             n == Len(s) + 1
  <1>1. /\ t \in Seq(Line) /\ Len(s) \in Nat /\ Len(t) = n /\ t[n] = e
        /\ \A i \in 1..Len(s) : t[i] = s[i]
        /\ t # <<>>
    BY AppendProperties
  <1>2. /\ \A i \in 1..n : i = n \/ i \in 1..Len(s)
        /\ n \in 1..n /\ \A i \in 1..Len(s) : i \in 1..n
    BY <1>1
  <1> HIDE DEF t, n
  <1>3. By(t) = By(s) \cup ({e.by} \ {NoWriter})
    BY <1>1, <1>2 DEF By
  <1>4. Parses(t) <=> Parses(s) /\ e # Scrap
    BY <1>1, <1>2 DEF Parses
  <1>5. t # s
    BY <1>1 DEF n
  <1> QED
    BY <1>1, <1>3, <1>4, <1>5 DEF t

LEMMA LineDropped ==
    ASSUME NEW s \in Seq(Line)
    PROVE  /\ Front(s) \in Seq(Line)
           /\ s # <<>> => By(s) \subseteq By(Front(s)) \cup {s[Len(s)].by}
  <1>1. Len(s) \in Nat /\ \A i \in 1..Len(s) : s[i] \in Line
    OBVIOUS
  <1> DEFINE t == SubSeq(s, 1, Len(s) - 1)
  <1>2. \A i \in 1..(Len(s) - 1) : s[i] \in Line
    BY <1>1
  <1>3. /\ t \in Seq(Line)
        /\ Len(t) = IF 1 <= Len(s) - 1 THEN (Len(s) - 1) - 1 + 1 ELSE 0
        /\ \A i \in 1..((Len(s) - 1) - 1 + 1) : t[i] = s[1 + i - 1]
    BY <1>1, <1>2, SubSeqProperties
  <1>4. Front(s) = t
    BY DEF Front
  <1> HIDE DEF t
  <1>5. ASSUME s # <<>>
        PROVE  By(s) \subseteq By(t) \cup {s[Len(s)].by}
    <2>1. \A i \in 1..Len(s) : i = Len(s) \/ i \in 1..(Len(s) - 1)
      BY <1>1
    <2>2. Len(t) = Len(s) - 1 /\ \A i \in 1..(Len(s) - 1) : t[i] = s[i]
      <3>1. Len(s) \in Nat /\ Len(s) >= 1
        BY <1>5
      <3>2. PICK n \in Nat : n = Len(s) /\ n >= 1
        BY <3>1
      <3>3. Len(t) = IF 1 <= n - 1 THEN (n - 1) - 1 + 1 ELSE 0
        BY <1>3, <3>2
      <3>4. Len(t) = n - 1
        BY <3>2, <3>3
      <3>5. ASSUME NEW i \in 1..(n - 1) PROVE t[i] = s[i]
        <4>1. i \in 1..((n - 1) - 1 + 1) /\ 1 + i - 1 = i
          BY <3>2
        <4>2. t[i] = s[1 + i - 1]
          BY <1>3, <3>2, <4>1
        <4> QED
          BY <4>1, <4>2
      <3> QED
        BY <3>2, <3>4, <3>5
    <2> QED
      BY <2>1, <2>2 DEF By
  <1> QED
    BY <1>3, <1>4, <1>5

\* Whatever stays of an older text, lines are what is in the file.
LEMMA WrittenOver ==
    ASSUME NEW s \in Seq(Line), NEW old \in Seq(Line)
    PROVE  Over(s, old) \subseteq Seq(Line)
  <1>1. Append(s, Scrap) \in Seq(Line)
    BY Writing, AppendProperties
  <1> DEFINE r == SubSeq(old, Len(s) + 1, Len(old))
  <1>2. r \in Seq(Line)
    <2>1. /\ Len(s) + 1 \in Int /\ Len(old) \in Int
          /\ \A i \in (Len(s) + 1)..Len(old) : old[i] \in Line
      OBVIOUS
    <2> QED
      BY <2>1, SubSeqProperties
  <1> HIDE DEF r
  <1>3. s \o r \in Seq(Line)
    BY <1>2, ConcatProperties
  <1> QED
    BY <1>1, <1>3 DEF Over, r

-----------------------------------------------------------------------------
(* Writers and files *)

Opens(w) == at[w] \in {"opened", "composed", "written"}

\* A writer that is in its call beside another is known to be, has its file
\* open from its second step on, and has returned at its end.
Calls ==
    /\ \A w \in Writers : /\ at[w] \in {"idle", "read"} => desc[w] = 0
                          /\ Opens(w) => desc[w] # 0
                          /\ w \in acked => at[w] = "done"
    /\ \A v, w \in InCall : v # w => v \in mixed /\ w \in mixed
    /\ kind # "wal" => spare = 0

LogBase == LogTypeOK /\ Calls

\* There is always a file that nobody has a name or a descriptor for.
LEMMA FreeFile ==
    ASSUME LogBase, NEW w \in Writers, desc[w] = 0,
           path = 0 \/ spare = 0
    PROVE  /\ Free \in Files /\ Free # path /\ Free # spare
           /\ \A v \in InCall : desc[v] # Free
  <1>t. /\ path \in Files \cup {0} /\ spare \in Files \cup {0}
        /\ desc \in [Writers -> Files \cup {0}]
    BY DEF LogBase, LogTypeOK
  <1> DEFINE p == IF path = 0 THEN spare ELSE path
             h == [v \in Writers |-> IF v = w THEN p ELSE desc[v]]
             U == {h[v] : v \in Writers}
  <1>1. IsFiniteSet(U) /\ Cardinality(U) <= Cardinality(Writers)
    <2>1. h \in Surjection(Writers, U)
      BY DEF Surjection
    <2> HIDE DEF U, h
    <2> QED
      BY <2>1, Writing, FS_Surjection
  <1>2. Cardinality(Files) = Cardinality(Writers) + 1 /\ IsFiniteSet(Files)
    <2>1. /\ 1 \in Int /\ Cardinality(Writers) + 1 \in Int
          /\ ~(1 > Cardinality(Writers) + 1)
      BY Writing
    <2> QED
      BY <2>1, FS_Interval, Writing DEF Files
  <1>3. PICK f \in Files : f \notin U
    <2> SUFFICES ASSUME Files \subseteq U PROVE FALSE
      OBVIOUS
    <2> HIDE DEF U
    <2>1. Cardinality(Files) <= Cardinality(U)
      BY <1>1, FS_Subset
    <2>2. Cardinality(U) \in Nat
      BY <1>1, FS_CardinalityType
    <2> QED
      BY <1>1, <1>2, <2>1, <2>2, Writing
  <1>4. f # 0 /\ f # p
    BY <1>3, Writing
  <1>5. f \notin {path, spare} /\ \A v \in InCall : desc[v] # f
    BY <1>3, <1>4 DEF InCall
  <1>6. Free \in Files /\ Free \notin {path, spare}
        /\ \A v \in InCall : desc[v] # Free
    BY <1>3, <1>5 DEF Free
  <1> QED
    BY <1>6

LEMMA InitBase == LogInit => LogBase
  <1> SUFFICES ASSUME LogInit PROVE LogBase
    OBVIOUS
  <1>1. LogTypeOK
    <2>1. <<>> \in Seq(Line) /\ 0 \in Nat
      OBVIOUS
    <2>2. /\ text \in [Files -> Seq(Line)]
          /\ seen \in [Writers -> Seq(Line)]
          /\ draft \in [Writers -> Seq(Line)]
      BY <2>1 DEF LogInit
    <2>3. /\ at \in [Writers -> {"idle", "read", "opened", "composed",
                                 "written", "done"}]
          /\ desc \in [Writers -> Files \cup {0}]
      BY DEF LogInit
    <2> QED
      BY <2>2, <2>3 DEF LogInit, LogTypeOK
  <1>2. Calls
    BY DEF LogInit, Calls, Opens, InCall
  <1> QED
    BY <1>1, <1>2 DEF LogBase

\* One writer moves on; who is in the call with it is known.
LEMMA CallsKept ==
    ASSUME LogBase, NEW w \in Writers, NEW label,
           label \in {"read", "opened", "composed", "written", "done"},
           \/ Enter(w, label) /\ at[w] = "idle"
           \/ Move(w, label) /\ w \in InCall,
           \A v \in Writers \ {w} : desc'[v] = desc[v],
           label = "read" => desc'[w] = 0,
           label \in {"opened", "composed", "written"} => desc'[w] # 0,
           kind' = kind, kind # "wal" => spare' = 0,
           acked' = acked \/ (acked' = acked \cup {w} /\ label = "done")
    PROVE  /\ Calls' /\ at' = [at EXCEPT ![w] = label] /\ at'[w] = label
           /\ at' \in [Writers -> {"idle", "read", "opened", "composed",
                                   "written", "done"}]
           /\ mixed \subseteq mixed' /\ mixed' \subseteq Writers
           /\ InCall' \subseteq InCall \cup {w}
  <1>t. LogTypeOK /\ Calls
    BY DEF LogBase
  <1>1. /\ at' = [at EXCEPT ![w] = label] /\ at'[w] = label
        /\ \A v \in Writers \ {w} : at'[v] = at[v]
        /\ at' \in [Writers -> {"idle", "read", "opened", "composed",
                                   "written", "done"}]
    BY <1>t DEF Enter, Move, LogTypeOK
  <1>2. /\ mixed \subseteq mixed' /\ mixed' \subseteq Writers
        /\ w \notin InCall /\ InCall # {} =>
             mixed' = mixed \cup InCall \cup {w}
    BY <1>t DEF Enter, Move, LogTypeOK, InCall
  <1>3. InCall' \subseteq InCall \cup {w}
    BY <1>1 DEF InCall
  <1>4. \A u, v \in InCall' : u # v => u \in mixed' /\ v \in mixed'
    <2>1. CASE w \in InCall
      BY <1>t, <1>2, <1>3, <2>1 DEF Calls
    <2>2. CASE w \notin InCall
      BY <1>t, <1>2, <1>3, <2>2 DEF Calls
    <2> QED
      BY <2>1, <2>2
  <1>5. Calls'
    <2>1. ASSUME NEW v \in Writers
          PROVE  /\ at'[v] \in {"idle", "read"} => desc'[v] = 0
                 /\ Opens(v)' => desc'[v] # 0
                 /\ v \in acked' => at'[v] = "done"
      <3>1. CASE v = w
        <4>1. w \notin acked
          BY <1>t DEF Calls, InCall, Enter, Move
        <4> QED
          BY <1>1, <3>1, <4>1 DEF Opens
      <3>2. CASE v # w
        BY <1>t, <1>1, <3>2 DEF Calls, Opens
      <3> QED
        BY <3>1, <3>2
    <2> QED
      BY <1>4, <2>1 DEF Calls
  <1> QED
    BY <1>1, <1>2, <1>3, <1>5

LEMMA EntryType ==
    ASSUME LogBase, NEW w \in Writers
    PROVE  /\ Entry(w) \in Line /\ Entry(w).by = w /\ Entry(w) # Scrap
           /\ Log \in Seq(Line) /\ seen[w] \in Seq(Line)
           /\ draft[w] \in Seq(Line) /\ Taken \in Seq(Line)
  <1>1. /\ seen[w] \in Seq(Line) /\ draft[w] \in Seq(Line)
        /\ Log \in Seq(Line)
    BY DEF LogBase, LogTypeOK, Log
  <1>2. seen[w] # <<>> => Last(seen[w]).by \in Writers \cup {NoWriter}
    <2>1. seen[w] # <<>> => seen[w][Len(seen[w])] \in Line
      BY <1>1
    <2> QED
      BY <2>1 DEF Last, Line
  <1>3. Entry(w) \in Line /\ Entry(w).by = w
    BY <1>2 DEF Entry, Line
  <1>4. Taken \in Seq(Line)
    BY <1>1 DEF Taken
  <1> QED
    BY <1>1, <1>3, <1>4, Writing

\* Every step keeps the types and the shape of the calls.
LEMMA StepBase == LogBase /\ [LogNext]_logVars => LogBase'
  <1> SUFFICES ASSUME LogBase, [LogNext]_logVars PROVE LogBase'
    OBVIOUS
  <1>t. LogTypeOK /\ Calls
    BY DEF LogBase
  <1> USE DEF logFiles
  <1>0. CASE UNCHANGED logVars
    BY <1>t, <1>0 DEF logVars, LogBase, LogTypeOK, Calls, Opens, InCall
  <1>1. ASSUME NEW w \in Writers, ReadLog(w) PROVE LogBase'
    <2>1. PICK label \in {"read", "done"} : Enter(w, label)
      BY <1>1 DEF ReadLog
    <2>2. /\ at[w] = "idle" /\ seen' = [seen EXCEPT ![w] = Taken]
          /\ UNCHANGED <<kind, path, spare, text, unended, draft, desc, acked,
                         tears>>
      BY <1>1 DEF ReadLog
    <2>3. seen' \in [Writers -> Seq(Line)]
      BY <1>t, <2>2, EntryType DEF LogTypeOK
    <2>4. desc[w] = 0
      BY <1>t, <2>2 DEF Calls
    <2>5. /\ Calls' /\ mixed' \subseteq Writers
          /\ at' \in [Writers -> {"idle", "read", "opened", "composed",
                                  "written", "done"}]
      BY <1>t, <2>1, <2>2, <2>4, CallsKept DEF Calls
    <2> QED
      BY <1>t, <2>2, <2>3, <2>5 DEF LogBase, LogTypeOK
  <1>2. ASSUME NEW w \in Writers, Open(w) PROVE LogBase'
    <2>1. /\ \/ kind = "registry" /\ at[w] = "idle" /\ Enter(w, "opened")
             \/ at[w] = "read" /\ Move(w, "opened")
          /\ UNCHANGED <<kind, unended, seen, draft, acked, tears>>
      BY <1>2 DEF Open
    <2>2. desc[w] = 0
      BY <1>t, <2>1 DEF Calls
    <2>3. \E f \in Files :
            /\ desc' = [desc EXCEPT ![w] = f]
            /\ \/ text' = text
               \/ text' = [text EXCEPT ![f] = <<>>]
               \/ text' = [text EXCEPT ![f] = <<Scrap>>]
            /\ path' \in {path, f} /\ spare' \in {spare, f}
            /\ kind # "wal" => spare' = spare
      <3>1. CASE kind = "wal" /\ OpenSpare(w)
        <4>1. (IF spare = 0 THEN Free ELSE spare) \in Files
          BY <1>t, <2>2, FreeFile DEF LogTypeOK
        <4> QED
          BY <3>1, <4>1 DEF OpenSpare
      <3>2. CASE kind = "promotion" /\ OpenOwn(w)
        <4>1. Free \in Files
          BY <1>t, <2>2, <3>2, FreeFile DEF Calls
        <4> QED
          BY <3>2, <4>1 DEF OpenOwn
      <3>3. CASE kind \in {"registry", "fdr"} /\ OpenLog(w)
        <4>1. (IF path = 0 THEN Free ELSE path) \in Files
          BY <1>t, <2>2, FreeFile DEF LogTypeOK
        <4> QED
          BY <3>3, <4>1 DEF OpenLog
      <3> QED
        BY <1>2, <3>1, <3>2, <3>3 DEF Open
    <2>4. PICK f \in Files :
            /\ desc' = [desc EXCEPT ![w] = f]
            /\ \/ text' = text
               \/ text' = [text EXCEPT ![f] = <<>>]
               \/ text' = [text EXCEPT ![f] = <<Scrap>>]
            /\ path' \in {path, f} /\ spare' \in {spare, f}
            /\ kind # "wal" => spare' = spare
      BY <2>3
    <2>5. text' \in [Files -> Seq(Line)]
      <3>1. <<>> \in Seq(Line) /\ <<Scrap>> \in Seq(Line)
        BY Writing
      <3> QED
        BY <1>t, <2>4, <3>1 DEF LogTypeOK
    <2>6. /\ desc' \in [Writers -> Files \cup {0}]
          /\ \A v \in Writers \ {w} : desc'[v] = desc[v]
          /\ desc'[w] = f /\ f # 0
      BY <1>t, <2>4, Writing DEF LogTypeOK
    <2>7. at[w] = "read" => w \in InCall
      BY DEF InCall
    <2>8. /\ Calls' /\ mixed' \subseteq Writers
          /\ at' \in [Writers -> {"idle", "read", "opened", "composed",
                                  "written", "done"}]
      BY <1>t, <2>1, <2>4, <2>6, <2>7, CallsKept DEF Calls
    <2> QED
      BY <1>t, <2>1, <2>4, <2>5, <2>6, <2>8 DEF LogBase, LogTypeOK
  <1>3. ASSUME NEW w \in Writers, Compose(w) PROVE LogBase'
    <2>1. /\ at[w] = "opened" /\ Move(w, "composed")
          /\ draft' = [draft EXCEPT ![w] = Whole(w)]
          /\ UNCHANGED <<kind, path, spare, text, unended, seen, desc, acked,
                         tears>>
      BY <1>3 DEF Compose
    <2>2. Whole(w) \in Seq(Line)
      BY EntryType, LineAdded DEF Whole
    <2>3. draft' \in [Writers -> Seq(Line)]
      BY <1>t, <2>1, <2>2 DEF LogTypeOK
    <2>4. w \in InCall /\ desc[w] # 0
      BY <1>t, <2>1 DEF InCall, Calls, Opens
    <2> QED
      BY <1>t, <2>1, <2>3, <2>4, CallsKept DEF LogBase, LogTypeOK, Calls
  <1>a. ASSUME NEW w \in Writers
        PROVE  /\ Appended(text[desc[w]], w) \in Seq(Line)
                    \/ desc[w] = 0
               /\ Over(draft[w], text[desc[w]]) \subseteq Seq(Line)
                    \/ desc[w] = 0
    <2> SUFFICES ASSUME desc[w] # 0
                 PROVE  /\ Appended(text[desc[w]], w) \in Seq(Line)
                        /\ Over(draft[w], text[desc[w]]) \subseteq Seq(Line)
      OBVIOUS
    <2>1. text[desc[w]] \in Seq(Line) /\ draft[w] \in Seq(Line)
      BY <1>t DEF LogTypeOK
    <2>2. Front(text[desc[w]]) \in Seq(Line)
      BY <2>1, LineDropped
    <2>3. Appended(text[desc[w]], w) \in Seq(Line)
      BY <2>1, <2>2, EntryType, Writing, LineAdded DEF Appended
    <2> QED
      BY <2>1, <2>3, WrittenOver
  <1>4. ASSUME NEW w \in Writers, Write(w) PROVE LogBase'
    <2>1. /\ at[w] = "composed" /\ Move(w, "written") /\ unended' = FALSE
          /\ UNCHANGED <<kind, path, spare, seen, draft, desc, acked, tears>>
      BY <1>4 DEF Write
    <2>2. w \in InCall /\ desc[w] # 0
      BY <1>t, <2>1 DEF InCall, Calls, Opens
    <2>3. text' \in [Files -> Seq(Line)]
      BY <1>t, <1>4, <1>a, <2>2 DEF LogTypeOK, Write
    <2>4. /\ Calls' /\ mixed' \subseteq Writers
          /\ at' \in [Writers -> {"idle", "read", "opened", "composed",
                                  "written", "done"}]
      BY <1>t, <2>1, <2>2, CallsKept DEF Calls
    <2> QED
      BY <1>t, <2>1, <2>3, <2>4 DEF LogBase, LogTypeOK
  <1>5. ASSUME NEW w \in Writers, Publish(w) PROVE LogBase'
    <2>1. /\ at[w] = "written" /\ Move(w, "done")
          /\ UNCHANGED <<kind, text, unended, seen, draft, desc, tears>>
          /\ acked' \in {acked, acked \cup {w}}
          /\ path' \in {path, spare, desc[w]}
          /\ spare' = spare \/ (kind = "wal" /\ spare' = 0)
      BY <1>5 DEF Publish
    <2>2. w \in InCall
      BY <2>1 DEF InCall
    <2>3. desc[w] \in Files \cup {0}
      BY <1>t DEF LogTypeOK
    <2>4. /\ Calls' /\ mixed' \subseteq Writers
          /\ at' \in [Writers -> {"idle", "read", "opened", "composed",
                                  "written", "done"}]
      <3>1. kind # "wal" => spare' = 0
        BY <1>t, <2>1 DEF Calls
      <3> QED
        BY <2>1, <2>2, <3>1, CallsKept
    <2> QED
      BY <1>t, <2>1, <2>3, <2>4 DEF LogBase, LogTypeOK
  <1>6. ASSUME NEW w \in Writers, Die(w) PROVE LogBase'
    <2>1. /\ w \in InCall /\ Move(w, "done")
          /\ UNCHANGED <<kind, path, spare, seen, draft, desc, acked>>
      BY <1>6 DEF Die
    <2>2. /\ text' \in [Files -> Seq(Line)] /\ unended' \in BOOLEAN
          /\ tears' \in Nat
      <3>1. CASE desc[w] = 0
        BY <1>t, <1>6, <3>1 DEF Die, LogTypeOK
      <3>2. CASE desc[w] # 0
        <4>1. PICK s \in Remains(w) :
                /\ text' = [text EXCEPT ![desc[w]] = s]
                /\ unended' = (unended \/ (kind = "registry"
                                           /\ s # text[desc[w]]))
                /\ tears' = IF desc[w] = path
                               /\ (s # text[desc[w]] \/ (kind = "fdr" /\ ~Parses(s)))
                            THEN tears + 1 ELSE tears
          BY <1>6, <3>2 DEF Die
        <4>2. text[desc[w]] \in Seq(Line)
          BY <1>t, <3>2 DEF LogTypeOK
        <4>3. s \in Seq(Line)
          <5>1. /\ Append(text[desc[w]], Scrap) \in Seq(Line)
                /\ Append(text[desc[w]], Entry(w)) \in Seq(Line)
                /\ <<Scrap>> \in Seq(Line)
            BY <4>2, EntryType, Writing, LineAdded
          <5> QED
            BY <1>a, <3>2, <4>2, <5>1 DEF Remains
        <4>4. unended' \in BOOLEAN
          BY <4>1, Zenon
        <4>5. text' \in [Files -> Seq(Line)]
          BY <1>t, <4>1, <4>3 DEF LogTypeOK
        <4>6. tears' \in Nat
          <5>1. tears \in Nat /\ tears + 1 \in Nat
            BY <1>t DEF LogTypeOK
          <5> QED
            BY <4>1, <5>1, Zenon
        <4> QED
          BY <4>4, <4>5, <4>6
      <3> QED
        BY <3>1, <3>2
    <2>3. /\ Calls' /\ mixed' \subseteq Writers
          /\ at' \in [Writers -> {"idle", "read", "opened", "composed",
                                  "written", "done"}]
      BY <1>t, <2>1, CallsKept DEF Calls
    <2> QED
      BY <1>t, <2>1, <2>2, <2>3 DEF LogBase, LogTypeOK
  <1> QED
    BY <1>0, <1>1, <1>2, <1>3, <1>4, <1>5, <1>6 DEF LogNext, LogStep

-----------------------------------------------------------------------------
(* What each discipline keeps *)

\* The promotion ledger: each writer has a file of its own, which holds what
\* it has read with its entry behind it, and what was acknowledged without an
\* overlap is in the log and in all that any writer has read.
Kept == acked \ mixed

OwnFile(w) ==
    /\ Opens(w) => /\ desc[w] # path
                   /\ \A v \in Writers \ {w} : Opens(v) => desc[v] # desc[w]
    /\ at[w] \in {"opened", "composed"} => text[desc[w]] = <<>>
    /\ at[w] \in {"composed", "written"} =>
         draft[w] = Append(seen[w], Entry(w))
    /\ at[w] = "written" => text[desc[w]] = draft[w]
    /\ w \in InCall => Parses(seen[w]) /\ Kept \subseteq By(seen[w])

Promotion ==
    /\ \A w \in Writers : OwnFile(w)
    /\ Parses(Log) /\ Kept \subseteq By(Log)

\* The chain, while no calls have overlapped: the one writer in its call has
\* read the log as it is, and its temporary file is not the log.
OwnTurn(w) ==
    /\ seen[w] = Log
    /\ Opens(w) => desc[w] = spare
    /\ at[w] \in {"opened", "composed"} => text[spare] = <<>>
    /\ at[w] \in {"composed", "written"} =>
         draft[w] = Append(seen[w], Entry(w))
    /\ at[w] = "written" => text[spare] = draft[w]

Chain ==
    /\ spare # 0 => spare # path
    /\ Verifies(Log) /\ acked \subseteq By(Log)
    /\ \A w \in InCall : OwnTurn(w)

\* The registry: there is one file, and every entry that was written whole
\* and is not in it has a tear of its own, as has the line without an end.
Landed == {w \in Writers : at[w] = "written" \/ w \in acked}
Spoilt == Landed \ By(Log)

Registry ==
    /\ \A w \in Writers : Opens(w) => desc[w] = path
    /\ \A f \in Files : f # path => text[f] = <<>>
    /\ path = 0 => acked = {}
    /\ unended => Log # <<>> /\ Log[Len(Log)].by \notin Landed
    /\ Cardinality(Spoilt) + (IF unended THEN 1 ELSE 0) <= tears

\* The stream, while no calls have overlapped and no death has torn it: it is
\* as its last writer left it, or as the one in its call has read it.
OwnRewrite(w) ==
    /\ Parses(seen[w]) /\ acked \subseteq By(seen[w])
    /\ at[w] = "read" => seen[w] = Log
    /\ Opens(w) => desc[w] = path
    /\ at[w] \in {"opened", "composed"} => text[path] = <<Scrap>>
    /\ at[w] \in {"composed", "written"} =>
         draft[w] = Append(seen[w], Entry(w))
    /\ at[w] = "written" => text[path] = draft[w]

Stream ==
    /\ InCall = {} => Parses(Log) /\ acked \subseteq By(Log)
    /\ \A w \in InCall : OwnRewrite(w)

LogInv ==
    /\ LogBase
    /\ kind = "promotion" => Promotion
    /\ kind = "wal" /\ mixed = {} => Chain
    /\ kind = "registry" => Registry
    /\ kind = "fdr" /\ mixed = {} /\ tears = 0 => Stream

\* What a step of one writer leaves as it was: the others, who are known to
\* have overlapped it when they are in their calls.
LEMMA Framed ==
    ASSUME LogBase, LogBase', NEW w \in Writers, LogStep(w)
    PROVE  /\ kind' = kind /\ mixed \subseteq mixed'
           /\ w \notin acked /\ acked' \in {acked, acked \cup {w}}
           /\ at'[w] # "done" => acked' = acked
           /\ \A v \in Writers : v # w =>
                /\ at'[v] = at[v] /\ desc'[v] = desc[v]
                /\ seen'[v] = seen[v] /\ draft'[v] = draft[v]
           /\ \A v \in InCall : v # w => w \in mixed' /\ v \in mixed'
  <1>t. /\ at \in [Writers -> {"idle", "read", "opened", "composed",
                               "written", "done"}]
        /\ desc \in [Writers -> Files \cup {0}]
        /\ seen \in [Writers -> Seq(Line)] /\ draft \in [Writers -> Seq(Line)]
        /\ mixed \subseteq Writers /\ mixed' \subseteq Writers /\ Calls
    BY DEF LogBase, LogTypeOK
  <1>1. ASSUME NEW label, Enter(w, label) \/ (Move(w, label) /\ w \in InCall)
        PROVE  /\ at' = [at EXCEPT ![w] = label] /\ mixed \subseteq mixed'
               /\ \A v \in InCall : v # w => w \in mixed' /\ v \in mixed'
    <2>1. CASE Enter(w, label)
      BY <2>1 DEF Enter
    <2>2. CASE Move(w, label) /\ w \in InCall
      BY <1>t, <2>2 DEF Move, Calls
    <2> QED
      BY <1>1, <2>1, <2>2
  <1>2. \E label : Enter(w, label) \/ (Move(w, label) /\ w \in InCall)
    BY DEF LogStep, ReadLog, Open, Compose, Write, Publish, Die, InCall
  <1>3. PICK label : Enter(w, label) \/ (Move(w, label) /\ w \in InCall)
    BY <1>2
  <1>4. /\ at' = [at EXCEPT ![w] = label] /\ mixed \subseteq mixed'
        /\ \A v \in InCall : v # w => w \in mixed' /\ v \in mixed'
    BY <1>1, <1>3
  <1>5. /\ kind' = kind
        /\ \E d : desc' = [desc EXCEPT ![w] = d]
        /\ \E s : seen' = [seen EXCEPT ![w] = s]
        /\ \E s : draft' = [draft EXCEPT ![w] = s]
        /\ at[w] # "done"
        /\ \/ acked' = acked
           \/ acked' = acked \cup {w} /\ Move(w, "done")
    <2>0. /\ desc = [desc EXCEPT ![w] = desc[w]]
          /\ seen = [seen EXCEPT ![w] = seen[w]]
          /\ draft = [draft EXCEPT ![w] = draft[w]]
      BY <1>t
    <2>1. CASE ReadLog(w)
      BY <2>0, <2>1 DEF ReadLog, logFiles
    <2>2. CASE Open(w)
      BY <2>0, <2>2 DEF Open, OpenSpare, OpenOwn, OpenLog, logFiles
    <2>3. CASE Compose(w)
      BY <2>0, <2>3 DEF Compose, logFiles
    <2>4. CASE Write(w)
      BY <2>0, <2>4 DEF Write
    <2>5. CASE Publish(w)
      BY <2>0, <2>5 DEF Publish
    <2>6. CASE Die(w)
      BY <2>0, <2>6 DEF Die, InCall
    <2> QED
      BY <2>1, <2>2, <2>3, <2>4, <2>5, <2>6 DEF LogStep
  <1>6. w \notin acked
    BY <1>t, <1>5 DEF Calls
  <1>7. at'[w] # "done" => acked' = acked
    BY <1>t, <1>5 DEF Move
  <1> QED
    BY <1>t, <1>4, <1>5, <1>6, <1>7

\* A writer that has its file open, and a death, change that file alone.
LEMMA OnlyItsFile ==
    ASSUME LogBase, NEW w \in Writers,
           \/ Write(w)
           \/ Die(w)
    PROVE  /\ path' = path /\ spare' = spare
           /\ \A f \in Files : f # desc[w] => text'[f] = text[f]
           /\ w \in InCall
           /\ desc[w] # 0 => Opens(w)
  <1>t. /\ text \in [Files -> Seq(Line)] /\ Calls
        /\ at \in [Writers -> {"idle", "read", "opened", "composed",
                               "written", "done"}]
    BY DEF LogBase, LogTypeOK
  <1>1. CASE Write(w)
    BY <1>t, <1>1 DEF Write, InCall, Opens
  <1>2. CASE Die(w)
    <2>1. w \in InCall /\ path' = path /\ spare' = spare
      BY <1>2 DEF Die
    <2>2. desc[w] # 0 => Opens(w)
      BY <1>t, <2>1 DEF Calls, Opens, InCall
    <2>3. \A f \in Files : f # desc[w] => text'[f] = text[f]
      BY <1>t, <1>2 DEF Die
    <2> QED
      BY <2>1, <2>2, <2>3
  <1> QED
    BY <1>1, <1>2

-----------------------------------------------------------------------------
(* The promotion ledger *)

LEMMA StepPromotion ==
    ASSUME LogBase, LogBase', kind = "promotion", Promotion,
           NEW w \in Writers, LogStep(w)
    PROVE  Promotion'
  <1>t. /\ text \in [Files -> Seq(Line)] /\ Calls /\ Calls'
        /\ path \in Files \cup {0}
        /\ at \in [Writers -> {"idle", "read", "opened", "composed",
                               "written", "done"}]
        /\ desc \in [Writers -> Files \cup {0}]
        /\ seen \in [Writers -> Seq(Line)] /\ draft \in [Writers -> Seq(Line)]
        /\ acked \subseteq Writers /\ 0 \notin Files
    BY Writing DEF LogBase, LogTypeOK
  <1>f. /\ kind' = kind /\ mixed \subseteq mixed'
        /\ w \notin acked /\ acked' \in {acked, acked \cup {w}}
        /\ at'[w] # "done" => acked' = acked
        /\ \A v \in Writers : v # w =>
             /\ at'[v] = at[v] /\ desc'[v] = desc[v]
             /\ seen'[v] = seen[v] /\ draft'[v] = draft[v]
        /\ \A v \in InCall : v # w => w \in mixed' /\ v \in mixed'
    BY Framed
  <1>k. /\ Kept' \subseteq Kept \cup {w}
        /\ at'[w] # "done" => Kept' \subseteq Kept
        /\ \A v \in InCall : v # w => Kept' \subseteq Kept
    BY <1>f DEF Kept
  <1>o. /\ \A v \in Writers : OwnFile(v)
        /\ Parses(Log) /\ Kept \subseteq By(Log)
    BY DEF Promotion
  <1>e. \A v \in Writers : Entry(v) = [by |-> v, after |-> NoWriter]
                           /\ Entry(v)' = Entry(v)
    BY <1>f DEF Entry
  <1>v. ASSUME NEW v \in Writers, v # w,
               Opens(v) => /\ path' # desc[v]
                           /\ Opens(w)' => desc'[w] # desc[v]
                           /\ text'[desc[v]] = text[desc[v]]
        PROVE  OwnFile(v)'
    <2>1. /\ at'[v] = at[v] /\ desc'[v] = desc[v] /\ draft'[v] = draft[v]
          /\ seen'[v] = seen[v] /\ Entry(v)' = Entry(v) /\ OwnFile(v)
          /\ v \in InCall => Kept' \subseteq Kept
          /\ v \in InCall' => v \in InCall
          /\ Opens(v)' <=> Opens(v)
      BY <1>f, <1>k, <1>o, <1>e, <1>v DEF InCall, Opens
    <2>2. Opens(v)' => /\ desc'[v] # path'
                       /\ \A u \in Writers \ {v} :
                            Opens(u)' => desc'[u] # desc'[v]
      <3> SUFFICES ASSUME Opens(v)', NEW u \in Writers \ {v}
                   PROVE  /\ desc'[v] # path'
                          /\ Opens(u)' => desc'[u] # desc'[v]
        BY <1>v, <2>1
      <3>1. CASE u = w
        BY <1>v, <2>1, <3>1
      <3>2. CASE u # w
        <4>1. at'[u] = at[u] /\ desc'[u] = desc[u]
          BY <1>f, <3>2
        <4>2. Opens(u)' => Opens(u)
          BY <4>1 DEF Opens
        <4> QED
          BY <1>v, <2>1, <4>1, <4>2 DEF OwnFile
      <3> QED
        BY <3>1, <3>2
    <2>3. /\ at'[v] \in {"opened", "composed"} => text'[desc'[v]] = <<>>
          /\ at'[v] \in {"composed", "written"} =>
               draft'[v] = Append(seen'[v], Entry(v)')
          /\ at'[v] = "written" => text'[desc'[v]] = draft'[v]
      BY <1>v, <2>1 DEF OwnFile, Opens
    <2>4. v \in InCall' => Parses(seen'[v]) /\ Kept' \subseteq By(seen'[v])
      BY <2>1 DEF OwnFile
    <2> QED
      BY <2>2, <2>3, <2>4 DEF OwnFile, Parses, By
  <1>1. CASE ReadLog(w)
    <2>1. /\ at' = [at EXCEPT ![w] = "read"] /\ seen'[w] = Log
          /\ UNCHANGED <<path, text, desc>> /\ at[w] = "idle"
      BY <1>t, <1>1 DEF ReadLog, Enter, Taken, logFiles
    <2>2. at'[w] = "read" /\ Log' = Log
      BY <1>t, <2>1 DEF Log
    <2>3. \A v \in Writers : v # w => OwnFile(v)'
      BY <1>v, <2>1, <2>2, <1>o DEF OwnFile, Opens
    <2>4. OwnFile(w)'
      BY <1>o, <1>k, <2>1, <2>2 DEF OwnFile, Opens, Parses, By
    <2> QED
      BY <1>o, <1>k, <2>2, <2>3, <2>4 DEF Promotion, Parses, By
  <1>2. CASE Open(w)
    <2>1. /\ at' = [at EXCEPT ![w] = "opened"] /\ at[w] = "read"
          /\ OpenOwn(w) /\ UNCHANGED seen
      BY <1>2 DEF Open, Move
    <2>2. desc[w] = 0 /\ spare = 0
      BY <1>t, <2>1 DEF Calls
    <2>3. PICK f \in Files : /\ f = Free /\ f # path
                             /\ \A v \in InCall : desc[v] # f
      BY <2>2, FreeFile
    <2>4. /\ at'[w] = "opened" /\ desc'[w] = f /\ text'[f] = <<>>
          /\ path' = path /\ seen'[w] = seen[w]
          /\ \A g \in Files : g # f => text'[g] = text[g]
      BY <1>t, <2>1, <2>3 DEF OpenOwn
    <2>5. Log' = Log
      BY <1>t, <2>3, <2>4 DEF Log
    <2>6. \A v \in Writers : v # w => OwnFile(v)'
      <3> SUFFICES ASSUME NEW v \in Writers, v # w PROVE OwnFile(v)'
        OBVIOUS
      <3>1. Opens(v) => desc[v] # f /\ desc[v] \in Files
        BY <1>t, <2>3 DEF Opens, InCall, Calls
      <3> QED
        BY <1>v, <1>o, <2>3, <2>4, <3>1 DEF OwnFile
    <2>7. OwnFile(w)'
      <3>1. \A v \in Writers \ {w} : Opens(v)' => desc'[v] # f
        BY <1>f, <2>3 DEF Opens, InCall
      <3>2. Parses(seen[w]) /\ Kept \subseteq By(seen[w])
        BY <1>o, <2>1 DEF OwnFile, InCall
      <3> QED
        BY <1>k, <2>3, <2>4, <3>1, <3>2 DEF OwnFile, Parses, By
    <2> QED
      BY <1>o, <1>k, <2>4, <2>5, <2>6, <2>7 DEF Promotion, Parses, By
  <1>3. CASE Compose(w)
    <2>1. /\ at' = [at EXCEPT ![w] = "composed"] /\ at[w] = "opened"
          /\ draft' = [draft EXCEPT ![w] = Append(seen[w], Entry(w))]
          /\ UNCHANGED <<path, text, desc, seen>>
      BY <1>3 DEF Compose, Move, Whole, logFiles
    <2>2. /\ at'[w] = "composed" /\ Log' = Log
          /\ draft'[w] = Append(seen[w], Entry(w))
      BY <1>t, <2>1 DEF Log
    <2>3. Opens(w) /\ w \in InCall
      BY <2>1 DEF Opens, InCall
    <2>4. \A v \in Writers : v # w => OwnFile(v)'
      BY <1>v, <1>o, <2>1, <2>3 DEF OwnFile
    <2>5. OwnFile(w)'
      <3>1. \A v \in Writers \ {w} : Opens(v)' => Opens(v)
        BY <1>f DEF Opens
      <3>2. Entry(w)' = Entry(w) /\ OwnFile(w)
        BY <1>e, <1>o
      <3> QED
        BY <1>k, <2>1, <2>2, <2>3, <3>1, <3>2 DEF OwnFile, Parses, By
    <2> QED
      BY <1>o, <1>k, <2>2, <2>4, <2>5 DEF Promotion, Parses, By
  <1>4. CASE Write(w)
    <2>1. /\ at' = [at EXCEPT ![w] = "written"] /\ at[w] = "composed"
          /\ UNCHANGED <<path, desc, seen, draft>>
          /\ \E s \in Over(draft[w], text[desc[w]]) :
               text' = [text EXCEPT ![desc[w]] = s]
      BY <1>4 DEF Write, Move
    <2>2. /\ Opens(w) /\ w \in InCall /\ OwnFile(w) /\ desc[w] \in Files
          /\ text[desc[w]] = <<>>
      BY <1>o, <1>t, <2>1 DEF Opens, InCall, Calls, OwnFile
    <2>3. at'[w] = "written" /\ text'[desc[w]] = draft[w]
      BY <1>t, <2>1, <2>2 DEF Over
    <2>4. \A f \in Files : f # desc[w] => text'[f] = text[f]
      BY <1>4, OnlyItsFile
    <2>5. Log' = Log
      BY <1>t, <2>1, <2>2, <2>4 DEF Log, OwnFile
    <2>6. \A v \in Writers : v # w => OwnFile(v)'
      <3> SUFFICES ASSUME NEW v \in Writers, v # w PROVE OwnFile(v)'
        OBVIOUS
      <3>1. Opens(v) => /\ desc[v] # desc[w] /\ desc[v] \in Files
                        /\ desc[v] # path
        BY <1>t, <1>o, <2>2 DEF Calls, OwnFile
      <3> QED
        BY <1>v, <2>1, <2>4, <3>1
    <2>7. OwnFile(w)'
      <3>1. \A v \in Writers \ {w} : Opens(v)' => Opens(v)
        BY <1>f DEF Opens
      <3>2. Entry(w)' = Entry(w)
        BY <1>e
      <3> QED
        BY <1>k, <2>1, <2>2, <2>3, <3>1, <3>2 DEF OwnFile, Parses, By
    <2> QED
      BY <1>o, <1>k, <2>3, <2>5, <2>6, <2>7 DEF Promotion, Parses, By
  <1>5. CASE Publish(w)
    <2>1. /\ at' = [at EXCEPT ![w] = "done"] /\ at[w] = "written"
          /\ path' = desc[w] /\ UNCHANGED <<text, desc>>
      BY <1>5 DEF Publish, Move
    <2>2. /\ Opens(w) /\ w \in InCall /\ OwnFile(w) /\ desc[w] \in Files
          /\ at'[w] = "done"
      BY <1>o, <1>t, <2>1 DEF Opens, InCall, Calls
    <2>3. Log' = Append(seen[w], Entry(w))
      BY <1>t, <2>1, <2>2 DEF Log, OwnFile
    <2>4. /\ Parses(seen[w]) /\ Kept \subseteq By(seen[w])
          /\ seen[w] \in Seq(Line) /\ Entry(w) \in Line /\ Entry(w) # Scrap
          /\ Entry(w).by = w
      BY <2>2, EntryType DEF OwnFile
    <2>5. Parses(Log') /\ By(Log') = By(seen[w]) \cup {w}
      BY <2>3, <2>4, LineAdded, Writing
    <2>6. Parses(Log)' /\ Kept' \subseteq By(Log)'
      BY <1>k, <2>4, <2>5 DEF Parses, By
    <2>7. \A v \in Writers : v # w => OwnFile(v)'
      <3> SUFFICES ASSUME NEW v \in Writers, v # w PROVE OwnFile(v)'
        OBVIOUS
      <3>1. Opens(v) => desc[v] # desc[w]
        BY <2>2 DEF OwnFile
      <3> QED
        BY <1>v, <2>1, <2>2, <3>1 DEF Opens
    <2>8. OwnFile(w)'
      BY <2>2 DEF OwnFile, Opens, InCall
    <2> QED
      BY <2>6, <2>7, <2>8 DEF Promotion
  <1>6. CASE Die(w)
    <2>1. /\ path' = path /\ w \in InCall
          /\ desc[w] # 0 => Opens(w)
          /\ \A f \in Files : f # desc[w] => text'[f] = text[f]
      BY <1>6, OnlyItsFile
    <2>2. at'[w] = "done" /\ acked' = acked
      BY <1>t, <1>6 DEF Die, Move
    <2>3. Log' = Log
      BY <1>t, <1>o, <2>1 DEF Log, OwnFile
    <2>4. \A v \in Writers : v # w => OwnFile(v)'
      <3> SUFFICES ASSUME NEW v \in Writers, v # w PROVE OwnFile(v)'
        OBVIOUS
      <3>1. Opens(v) => /\ desc[v] # desc[w] /\ desc[v] \in Files
                        /\ desc[v] # path
        BY <1>t, <1>o, <2>1 DEF Calls, OwnFile
      <3> QED
        BY <1>v, <2>1, <2>2, <3>1 DEF Opens
    <2>5. OwnFile(w)'
      BY <2>2 DEF OwnFile, Opens, InCall
    <2>6. Kept' \subseteq Kept
      BY <1>f, <2>2 DEF Kept
    <2> QED
      BY <1>o, <2>3, <2>4, <2>5, <2>6 DEF Promotion, Parses, By
  <1> QED
    BY <1>1, <1>2, <1>3, <1>4, <1>5, <1>6 DEF LogStep

-----------------------------------------------------------------------------
(* The chain *)

\* An entry behind a chain that verifies links to its last line.
LEMMA Linked ==
    ASSUME LogBase, kind = "wal", NEW w \in Writers, Verifies(seen[w])
    PROVE  /\ Verifies(Append(seen[w], Entry(w))) /\ Parses(seen[w])
           /\ By(Append(seen[w], Entry(w))) = By(seen[w]) \cup {w}
  <1>1. /\ seen[w] \in Seq(Line) /\ Entry(w) \in Line /\ Entry(w) # Scrap
        /\ Entry(w).by = w
    BY EntryType
  <1>2. PICK s \in Seq(Line) : s = seen[w]
    BY <1>1
  <1>3. PICK e \in Line : e = Entry(w)
    BY <1>1
  <1>4. PICK n \in Nat : n = Len(s)
    OBVIOUS
  <1>5. /\ Len(Append(s, e)) = n + 1 /\ Append(s, e)[n + 1] = e
        /\ \A i \in 1..n : Append(s, e)[i] = s[i]
    BY <1>4, AppendProperties
  <1>6. PICK t : t = Append(s, e)
    OBVIOUS
  <1>7. e.after = IF n = 0 THEN NoWriter ELSE s[n].by
    <2>1. n = 0 <=> s = <<>>
      BY <1>4
    <2> QED
      BY <1>2, <1>3, <1>4, <2>1 DEF Entry, Last
  <1>8. ASSUME NEW i \in 1..(n + 1)
        PROVE  /\ t[i] # Scrap
               /\ t[i].after = IF i = 1 THEN NoWriter ELSE t[i-1].by
    <2>1. CASE i = n + 1
      <3>1. i # 1 => i - 1 \in 1..n /\ i - 1 = n
        BY <2>1
      <3> QED
        BY <1>1, <1>3, <1>5, <1>6, <1>7, <2>1, <3>1
    <2>2. CASE i # n + 1
      <3>1. i \in 1..n /\ (i # 1 => i - 1 \in 1..n)
        BY <2>2
      <3>2. /\ s[i] # Scrap
            /\ s[i].after = IF i = 1 THEN NoWriter ELSE s[i-1].by
        BY <1>2, <1>4, <3>1 DEF Verifies
      <3> QED
        BY <1>5, <1>6, <3>1, <3>2
    <2> QED
      BY <2>1, <2>2
  <1>9. Verifies(t)
    BY <1>5, <1>6, <1>8 DEF Verifies
  <1>10. By(Append(seen[w], Entry(w))) = By(seen[w]) \cup {w}
    BY <1>1, LineAdded, Writing
  <1> QED
    BY <1>2, <1>3, <1>6, <1>9, <1>10 DEF Verifies, Parses

LEMMA StepChain ==
    ASSUME LogBase, LogBase', kind = "wal", mixed' = {}, Chain,
           NEW w \in Writers, LogStep(w)
    PROVE  Chain'
  <1>t. /\ text \in [Files -> Seq(Line)] /\ Calls /\ Calls'
        /\ path \in Files \cup {0} /\ spare \in Files \cup {0}
        /\ at \in [Writers -> {"idle", "read", "opened", "composed",
                               "written", "done"}]
        /\ desc \in [Writers -> Files \cup {0}]
        /\ seen \in [Writers -> Seq(Line)] /\ draft \in [Writers -> Seq(Line)]
        /\ acked \subseteq Writers /\ 0 \notin Files
    BY Writing DEF LogBase, LogTypeOK
  <1>f. /\ kind' = kind /\ acked' \in {acked, acked \cup {w}}
        /\ at'[w] # "done" => acked' = acked
        /\ \A v \in Writers : v # w => at'[v] = at[v]
        /\ \A v \in InCall : v = w
    BY Framed
  <1>i. \A v \in InCall' : v = w
    BY <1>f DEF InCall
  <1>c. /\ spare # 0 => spare # path
        /\ Verifies(Log) /\ acked \subseteq By(Log)
        /\ w \in InCall => OwnTurn(w)
    BY DEF Chain
  <1>q. ASSUME spare' # 0 => spare' # path',
               Log' = Log, at'[w] # "done" \/ acked' = acked,
               at'[w] \notin {"idle", "done"} => OwnTurn(w)'
        PROVE  Chain'
    <2>1. Verifies(Log)' /\ (acked \subseteq By(Log))'
      BY <1>c, <1>f, <1>q DEF Verifies, By
    <2> QED
      BY <1>i, <1>q, <2>1 DEF Chain, InCall
  <1>1. CASE ReadLog(w)
    <2>1. Parses(Log)
      BY <1>c DEF Verifies, Parses
    <2>2. /\ at' = [at EXCEPT ![w] = "read"] /\ seen'[w] = Log
          /\ UNCHANGED <<path, spare, text, acked>>
      BY <1>t, <1>1, <2>1 DEF ReadLog, Enter, Taken, logFiles
    <2>3. at'[w] = "read" /\ Log' = Log
      BY <1>t, <2>2 DEF Log
    <2> QED
      BY <1>q, <1>c, <2>2, <2>3 DEF OwnTurn, Opens
  <1>2. CASE Open(w)
    <2>1. /\ at' = [at EXCEPT ![w] = "opened"] /\ at[w] = "read"
          /\ OpenSpare(w) /\ UNCHANGED <<seen, acked>>
      BY <1>2 DEF Open, Move
    <2>2. desc[w] = 0 /\ w \in InCall
      BY <1>t, <2>1 DEF Calls, InCall
    <2>3. PICK f \in Files : /\ f = (IF spare = 0 THEN Free ELSE spare)
                             /\ f # path
      BY <1>t, <1>c, <2>2, FreeFile
    <2>4. /\ at'[w] = "opened" /\ desc'[w] = f /\ text'[f] = <<>>
          /\ path' = path /\ spare' = f /\ seen'[w] = seen[w]
          /\ \A g \in Files : g # f => text'[g] = text[g]
      BY <1>t, <2>1, <2>3 DEF OpenSpare
    <2>5. Log' = Log
      BY <1>t, <2>3, <2>4 DEF Log
    <2>6. seen[w] = Log
      BY <1>c, <2>2 DEF OwnTurn
    <2> QED
      BY <1>q, <2>1, <2>3, <2>4, <2>5, <2>6 DEF OwnTurn, Opens
  <1>3. CASE Compose(w)
    <2>1. /\ at' = [at EXCEPT ![w] = "composed"] /\ at[w] = "opened"
          /\ draft' = [draft EXCEPT ![w] = Append(Log, Entry(w))]
          /\ UNCHANGED <<path, spare, text, desc, seen, acked>>
      BY <1>3 DEF Compose, Move, Whole, logFiles
    <2>2. /\ at'[w] = "composed" /\ Log' = Log
          /\ draft'[w] = Append(Log, Entry(w)) /\ Entry(w)' = Entry(w)
      BY <1>t, <1>f, <2>1 DEF Log, Entry
    <2>3. Opens(w) /\ OwnTurn(w)
      BY <1>c, <2>1 DEF Opens, InCall
    <2> QED
      BY <1>q, <1>c, <2>1, <2>2, <2>3 DEF OwnTurn
  <1>4. CASE Write(w)
    <2>1. /\ at' = [at EXCEPT ![w] = "written"] /\ at[w] = "composed"
          /\ UNCHANGED <<path, spare, desc, seen, draft, acked>>
          /\ \E s \in Over(draft[w], text[desc[w]]) :
               text' = [text EXCEPT ![desc[w]] = s]
      BY <1>4 DEF Write, Move
    <2>2. /\ Opens(w) /\ OwnTurn(w) /\ desc[w] \in Files
      BY <1>c, <1>t, <2>1 DEF Opens, InCall, Calls
    <2>3. desc[w] = spare /\ text[desc[w]] = <<>> /\ spare # path
      BY <1>c, <1>t, <2>1, <2>2 DEF OwnTurn
    <2>4. at'[w] = "written" /\ text'[spare] = draft[w]
      BY <1>t, <2>1, <2>2, <2>3 DEF Over
    <2>5. \A f \in Files : f # desc[w] => text'[f] = text[f]
      BY <1>4, OnlyItsFile
    <2>6. Log' = Log
      BY <1>t, <2>1, <2>3, <2>5 DEF Log
    <2>7. Entry(w)' = Entry(w)
      BY <1>f, <2>1 DEF Entry
    <2> QED
      BY <1>q, <2>1, <2>2, <2>3, <2>4, <2>6, <2>7 DEF OwnTurn
  <1>5. CASE Publish(w)
    <2>1. at' = [at EXCEPT ![w] = "done"] /\ at[w] = "written"
      BY <1>5 DEF Publish, Move
    <2>2. Opens(w) /\ OwnTurn(w) /\ desc[w] \in Files /\ at'[w] = "done"
      BY <1>c, <1>t, <2>1 DEF Opens, InCall, Calls
    <2>3. desc[w] = spare /\ spare \in Files
      BY <2>2 DEF OwnTurn
    <2>4. path' = spare /\ spare' = 0 /\ text' = text
      BY <1>t, <1>5, <2>3 DEF Publish
    <2>5. Log' = Append(seen[w], Entry(w)) /\ seen[w] = Log
      BY <1>t, <2>1, <2>2, <2>3, <2>4 DEF Log, OwnTurn
    <2>6. Verifies(Log') /\ By(Log') = By(Log) \cup {w}
      BY <1>c, <2>5, Linked
    <2>7. Verifies(Log)' /\ acked' \subseteq By(Log)'
      BY <1>c, <1>f, <2>6 DEF Verifies, By
    <2> QED
      BY <1>i, <2>2, <2>4, <2>7 DEF Chain, InCall
  <1>6. CASE Die(w)
    <2>1. /\ path' = path /\ spare' = spare /\ w \in InCall
          /\ desc[w] # 0 => Opens(w)
          /\ \A f \in Files : f # desc[w] => text'[f] = text[f]
      BY <1>6, OnlyItsFile
    <2>2. at'[w] = "done" /\ acked' = acked
      BY <1>t, <1>6 DEF Die, Move
    <2>3. desc[w] # 0 => desc[w] # path
      BY <1>c, <2>1 DEF OwnTurn
    <2>4. Log' = Log
      BY <1>t, <2>1, <2>3 DEF Log
    <2> QED
      BY <1>q, <1>c, <2>1, <2>2, <2>4
  <1> QED
    BY <1>1, <1>2, <1>3, <1>4, <1>5, <1>6 DEF LogStep

-----------------------------------------------------------------------------
(* The stream *)

LEMMA StepStream ==
    ASSUME LogBase, LogBase', kind = "fdr", mixed' = {}, tears = 0,
           tears' = 0, Stream, NEW w \in Writers, LogStep(w)
    PROVE  Stream'
  <1>t. /\ text \in [Files -> Seq(Line)] /\ Calls /\ Calls'
        /\ path \in Files \cup {0} /\ spare = 0
        /\ at \in [Writers -> {"idle", "read", "opened", "composed",
                               "written", "done"}]
        /\ desc \in [Writers -> Files \cup {0}]
        /\ seen \in [Writers -> Seq(Line)] /\ draft \in [Writers -> Seq(Line)]
        /\ acked \subseteq Writers /\ 0 \notin Files
    BY Writing DEF LogBase, LogTypeOK, Calls
  <1>f. /\ kind' = kind /\ acked' \in {acked, acked \cup {w}}
        /\ at'[w] # "done" => acked' = acked
        /\ \A v \in Writers : v # w => at'[v] = at[v]
        /\ \A v \in InCall : v = w
    BY Framed
  <1>i. \A v \in InCall' : v = w
    BY <1>f DEF InCall
  <1>c. /\ InCall = {} => Parses(Log) /\ acked \subseteq By(Log)
        /\ w \in InCall => OwnRewrite(w)
    BY DEF Stream
  <1>q. ASSUME at'[w] \notin {"idle", "done"}, OwnRewrite(w)'
        PROVE  Stream'
    BY <1>i, <1>q DEF Stream, InCall
  <1>r. ASSUME at'[w] = "done", Parses(Log'), acked' \subseteq By(Log')
        PROVE  Stream'
    <2>1. InCall' = {}
      BY <1>i, <1>r DEF InCall
    <2> QED
      BY <1>r, <2>1 DEF Stream, Parses, By
  <1>e. Entry(w) = [by |-> w, after |-> NoWriter] /\ Entry(w)' = Entry(w)
    BY <1>f DEF Entry
  <1>w. ASSUME Opens(w), text[path] = draft[w], at[w] = "written"
        PROVE  /\ Log = Append(seen[w], Entry(w)) /\ Parses(Log)
               /\ acked \cup {w} \subseteq By(Log)
    <2>1. OwnRewrite(w) /\ path # 0
      BY <1>c, <1>t, <1>w DEF Opens, InCall, Calls, OwnRewrite
    <2>2. Log = Append(seen[w], Entry(w))
      BY <1>w, <2>1 DEF Log, OwnRewrite
    <2>3. /\ seen[w] \in Seq(Line) /\ Entry(w) \in Line /\ Entry(w) # Scrap
          /\ Entry(w).by = w
      BY EntryType
    <2> QED
      BY <2>1, <2>2, <2>3, LineAdded, Writing DEF OwnRewrite
  <1>1. CASE ReadLog(w)
    <2>1. InCall = {}
      BY <1>f, <1>1 DEF ReadLog, InCall
    <2>2. /\ at' = [at EXCEPT ![w] = "read"] /\ seen'[w] = Log
          /\ UNCHANGED <<path, text, acked>>
      BY <1>t, <1>c, <1>1, <2>1 DEF ReadLog, Enter, Taken, logFiles
    <2>3. at'[w] = "read" /\ Log' = Log
      BY <1>t, <2>2 DEF Log
    <2> QED
      BY <1>q, <1>c, <2>1, <2>2, <2>3 DEF OwnRewrite, Opens, Parses, By
  <1>2. CASE Open(w)
    <2>1. /\ at' = [at EXCEPT ![w] = "opened"] /\ at[w] = "read"
          /\ OpenLog(w) /\ UNCHANGED <<seen, acked>>
      BY <1>2 DEF Open, Move
    <2>2. desc[w] = 0 /\ w \in InCall
      BY <1>t, <2>1 DEF Calls, InCall
    <2>3. PICK f \in Files : f = (IF path = 0 THEN Free ELSE path)
      BY <1>t, <2>2, FreeFile
    <2>4. /\ at'[w] = "opened" /\ desc'[w] = f /\ text'[f] = <<Scrap>>
          /\ path' = f /\ seen'[w] = seen[w]
      BY <1>t, <2>1, <2>3 DEF OpenLog
    <2>5. Parses(seen[w]) /\ acked \subseteq By(seen[w])
      BY <1>c, <2>2 DEF OwnRewrite
    <2> QED
      BY <1>q, <2>1, <2>4, <2>5 DEF OwnRewrite, Parses, By
  <1>3. CASE Compose(w)
    <2>1. /\ at' = [at EXCEPT ![w] = "composed"] /\ at[w] = "opened"
          /\ draft' = [draft EXCEPT ![w] = Append(seen[w], Entry(w))]
          /\ UNCHANGED <<path, text, desc, seen, acked>>
      BY <1>3 DEF Compose, Move, Whole, logFiles
    <2>2. /\ at'[w] = "composed" /\ draft'[w] = Append(seen[w], Entry(w))
      BY <1>t, <2>1
    <2>3. Opens(w) /\ OwnRewrite(w)
      BY <1>c, <2>1 DEF Opens, InCall
    <2> QED
      BY <1>q, <1>e, <2>1, <2>2, <2>3 DEF OwnRewrite, Parses, By
  <1>4. CASE Write(w)
    <2>1. /\ at' = [at EXCEPT ![w] = "written"] /\ at[w] = "composed"
          /\ UNCHANGED <<path, desc, seen, draft, acked>>
          /\ \E s \in Over(draft[w], text[desc[w]]) :
               text' = [text EXCEPT ![desc[w]] = s]
      BY <1>4 DEF Write, Move
    <2>2. Opens(w) /\ OwnRewrite(w) /\ desc[w] \in Files
      BY <1>c, <1>t, <2>1 DEF Opens, InCall, Calls
    <2>3. desc[w] = path /\ text[desc[w]] = <<Scrap>>
      BY <2>1, <2>2 DEF OwnRewrite
    <2>4. at'[w] = "written" /\ text'[path] = draft[w]
      BY <1>t, <2>1, <2>2, <2>3 DEF Over
    <2> QED
      BY <1>q, <1>e, <2>1, <2>2, <2>3, <2>4 DEF OwnRewrite, Parses, By
  <1>5. CASE Publish(w)
    <2>1. /\ at' = [at EXCEPT ![w] = "done"] /\ at[w] = "written"
          /\ UNCHANGED <<path, text>>
      BY <1>5 DEF Publish, Move
    <2>2. Opens(w) /\ OwnRewrite(w) /\ at'[w] = "done" /\ Log' = Log
      BY <1>c, <1>t, <2>1 DEF Opens, InCall, Log
    <2> QED
      BY <1>r, <1>w, <1>f, <2>1, <2>2 DEF OwnRewrite
  <1>6. CASE Die(w)
    <2>1. /\ path' = path /\ w \in InCall
          /\ desc[w] # 0 => Opens(w)
      BY <1>6, OnlyItsFile
    <2>2. at'[w] = "done" /\ acked' = acked /\ OwnRewrite(w)
      BY <1>t, <1>c, <1>6, <2>1 DEF Die, Move
    <2>3. CASE desc[w] = 0
      <3>1. at[w] = "read" /\ text' = text
        BY <1>t, <1>6, <2>1, <2>3 DEF Die, Calls, Opens, InCall
      <3>2. Log' = Log /\ seen[w] = Log
        BY <2>1, <2>2, <3>1 DEF Log, OwnRewrite
      <3> QED
        BY <1>r, <2>2, <3>2 DEF OwnRewrite
    <2>4. CASE desc[w] # 0
      <3>1. desc[w] = path /\ Opens(w)
        BY <2>1, <2>2, <2>4 DEF OwnRewrite
      <3>2. PICK s \in Remains(w) :
              /\ text' = [text EXCEPT ![desc[w]] = s]
              /\ tears' = IF desc[w] = path
                             /\ (s # text[desc[w]] \/ (kind = "fdr" /\ ~Parses(s)))
                          THEN tears + 1 ELSE tears
        BY <1>6, <2>4 DEF Die
      <3>3. s = text[desc[w]] /\ Parses(s)
        BY <1>f, <3>1, <3>2
      <3>4. ~Parses(<<Scrap>>)
        BY DEF Parses
      <3>5. at[w] = "written"
        BY <2>2, <3>1, <3>3, <3>4 DEF OwnRewrite, Opens
      <3>6. text' = text
        BY <1>t, <3>2, <3>3
      <3>7. Log' = Log
        BY <2>1, <3>6 DEF Log
      <3> QED
        BY <1>r, <1>w, <2>2, <3>1, <3>5, <3>7 DEF OwnRewrite
    <2> QED
      BY <2>3, <2>4
  <1> QED
    BY <1>1, <1>2, <1>3, <1>4, <1>5, <1>6 DEF LogStep

-----------------------------------------------------------------------------
(* The registry *)

LEMMA Counted ==
    ASSUME NEW X, NEW Y, X \subseteq Writers, Y \subseteq Writers, NEW w
    PROVE  /\ Cardinality(X) \in Nat /\ Cardinality(Y) \in Nat
           /\ X \subseteq Y => Cardinality(X) <= Cardinality(Y)
           /\ X \subseteq Y \cup {w} => Cardinality(X) <= Cardinality(Y) + 1
  <1>1. IsFiniteSet(X) /\ IsFiniteSet(Y)
    BY Writing, FS_Subset
  <1>2. Cardinality(X) \in Nat /\ Cardinality(Y) \in Nat
    BY <1>1, FS_CardinalityType
  <1>3. X \subseteq Y => Cardinality(X) <= Cardinality(Y)
    BY <1>1, FS_Subset
  <1>4. ASSUME X \subseteq Y \cup {w}
        PROVE  Cardinality(X) <= Cardinality(Y) + 1
    <2>1. /\ IsFiniteSet(Y \cup {w})
          /\ Cardinality(Y \cup {w}) =
               IF w \in Y THEN Cardinality(Y) ELSE Cardinality(Y) + 1
      BY <1>1, FS_AddElement
    <2>2. Cardinality(X) <= Cardinality(Y \cup {w})
      BY <1>4, <2>1, FS_Subset
    <2> QED
      BY <1>2, <2>1, <2>2
  <1> QED
    BY <1>2, <1>3, <1>4

LEMMA StepRegistry ==
    ASSUME LogBase, LogBase', kind = "registry", Registry,
           NEW w \in Writers, LogStep(w)
    PROVE  Registry'
  <1>t. /\ text \in [Files -> Seq(Line)] /\ Calls /\ Calls'
        /\ path \in Files \cup {0} /\ spare = 0
        /\ at \in [Writers -> {"idle", "read", "opened", "composed",
                               "written", "done"}]
        /\ desc \in [Writers -> Files \cup {0}] /\ unended \in BOOLEAN
        /\ acked \subseteq Writers /\ 0 \notin Files
        /\ tears \in Nat /\ tears' \in Nat /\ acked' \subseteq Writers
    BY Writing DEF LogBase, LogTypeOK, Calls
  <1>f. /\ kind' = kind /\ acked' \in {acked, acked \cup {w}}
        /\ w \notin acked
        /\ at'[w] # "done" => acked' = acked
        /\ \A v \in Writers : v # w => at'[v] = at[v] /\ desc'[v] = desc[v]
    BY Framed
  <1>c. /\ \A v \in Writers : Opens(v) => desc[v] = path
        /\ \A f \in Files : f # path => text[f] = <<>>
        /\ path = 0 => acked = {}
        /\ unended => Log # <<>> /\ Log[Len(Log)].by \notin Landed
        /\ Cardinality(Spoilt) + (IF unended THEN 1 ELSE 0) <= tears
    BY DEF Registry
  <1>s. /\ Spoilt \subseteq Writers /\ Spoilt' \subseteq Writers
        /\ Log \in Seq(Line)
    BY EntryType DEF Spoilt, Landed
  <1>n. /\ Cardinality(Spoilt) \in Nat /\ Cardinality(Spoilt') \in Nat
        /\ Spoilt' \subseteq Spoilt =>
             Cardinality(Spoilt') <= Cardinality(Spoilt)
        /\ Spoilt' \subseteq Spoilt \cup {w} =>
             Cardinality(Spoilt') <= Cardinality(Spoilt) + 1
    BY <1>s, Counted
  <1>h. ASSUME path' = path, Opens(w)' => desc'[w] = path
        PROVE  \A v \in Writers : Opens(v)' => desc'[v] = path'
    <2> SUFFICES ASSUME NEW v \in Writers, Opens(v)', v # w
                 PROVE  desc'[v] = path'
      BY <1>h
    <2>1. Opens(v)
      BY <1>f DEF Opens
    <2> QED
      BY <1>c, <1>f, <1>h, <2>1
  <1>k. ASSUME Log' = Log, Landed' \subseteq Landed, unended' = unended,
               tears <= tears'
        PROVE  /\ unended' => /\ Log' # <<>>
                              /\ Log'[Len(Log')].by \notin Landed'
               /\ Cardinality(Spoilt') + (IF unended' THEN 1 ELSE 0) <= tears'
    <2>1. Spoilt' \subseteq Spoilt
      BY <1>k DEF Spoilt, By
    <2>2. Cardinality(Spoilt') <= Cardinality(Spoilt)
      BY <1>n, <2>1
    <2>3. PICK m \in Nat, n \in Nat, c \in {0, 1} :
            /\ m = Cardinality(Spoilt) /\ n = Cardinality(Spoilt')
            /\ c = (IF unended THEN 1 ELSE 0)
            /\ c = (IF unended' THEN 1 ELSE 0)
      BY <1>n, <1>k
    <2>4. n + c <= tears'
      BY <1>t, <1>c, <1>k, <2>2, <2>3
    <2> QED
      BY <1>c, <1>k, <2>3, <2>4
  <1>1. CASE ReadLog(w)
    BY <1>1 DEF ReadLog
  <1>2. CASE Open(w)
    <2>1. /\ at' = [at EXCEPT ![w] = "opened"] /\ at[w] \in {"idle", "read"}
          /\ OpenLog(w) /\ UNCHANGED <<acked, unended, tears>>
      BY <1>t, <1>2 DEF Open, Enter, Calls, Move
    <2>2. desc[w] = 0
      BY <1>t, <2>1 DEF Calls
    <2>3. PICK f \in Files : /\ f = (IF path = 0 THEN Free ELSE path)
      BY <1>t, <2>2, FreeFile
    <2>4. /\ at'[w] = "opened" /\ desc'[w] = f /\ text' = text /\ path' = f
      BY <1>t, <2>1, <2>3 DEF OpenLog
    <2>5. Log' = Log
      BY <1>t, <1>c, <2>3, <2>4 DEF Log
    <2>6. Landed' \subseteq Landed
      BY <1>f, <2>1, <2>4 DEF Landed
    <2>7. \A v \in Writers : Opens(v)' => desc'[v] = path'
      <3> SUFFICES ASSUME NEW v \in Writers, Opens(v)', v # w
                   PROVE  desc'[v] = path'
        BY <2>4
      <3>1. Opens(v)
        BY <1>f DEF Opens
      <3>2. desc[v] = path /\ desc[v] # 0
        BY <1>c, <1>t, <3>1 DEF Calls
      <3> QED
        BY <1>f, <2>3, <2>4, <3>2
    <2>8. /\ \A g \in Files : g # path' => text'[g] = <<>>
          /\ path' # 0 /\ tears <= tears'
      BY <1>c, <1>t, <2>1, <2>3, <2>4
    <2> QED
      BY <1>k, <2>1, <2>5, <2>6, <2>7, <2>8 DEF Registry
  <1>3. CASE Compose(w)
    <2>1. /\ at' = [at EXCEPT ![w] = "composed"] /\ at[w] = "opened"
          /\ UNCHANGED <<path, text, desc, acked, unended, tears>>
      BY <1>3 DEF Compose, Move, logFiles
    <2>2. /\ Log' = Log /\ at'[w] = "composed" /\ Opens(w)
      BY <1>t, <2>1 DEF Log, Opens
    <2>3. Landed' \subseteq Landed
      BY <1>f, <2>1, <2>2 DEF Landed
    <2>4. tears <= tears'
      BY <1>t, <2>1
    <2> QED
      BY <1>k, <1>h, <1>c, <2>1, <2>2, <2>3, <2>4 DEF Registry
  <1>p. ASSUME Opens(w)
        PROVE  /\ desc[w] = path /\ path \in Files /\ path # 0
               /\ Log = text[path]
    BY <1>c, <1>t, <1>p DEF Calls, Log
  <1>4. CASE Write(w)
    <2>1. /\ at' = [at EXCEPT ![w] = "written"] /\ at[w] = "composed"
          /\ unended' = FALSE
          /\ UNCHANGED <<path, desc, acked, tears>>
          /\ text' = [text EXCEPT ![desc[w]] = Appended(text[desc[w]], w)]
      BY <1>4 DEF Write, Move
    <2>2. /\ Opens(w) /\ desc[w] = path /\ path \in Files /\ path # 0
          /\ Log = text[path]
      BY <1>p, <2>1 DEF Opens
    <2>3. Log' = Appended(Log, w) /\ at'[w] = "written"
      BY <1>t, <2>1, <2>2 DEF Log
    <2>4. Landed' = Landed \cup {w}
      BY <1>f, <2>1, <2>3 DEF Landed
    <2>5. Cardinality(Spoilt') <= tears
      <3>1. CASE unended
        <4>1. Log' = Append(Front(Log), Scrap)
          BY <2>3, <3>1 DEF Appended
        <4>2. /\ Front(Log) \in Seq(Line)
              /\ By(Log) \subseteq By(Front(Log)) \cup {Log[Len(Log)].by}
          BY <1>c, <1>s, <3>1, LineDropped
        <4>3. By(Log') = By(Front(Log))
          <5>1. /\ Scrap \in Line /\ {Scrap.by} \ {NoWriter} = {}
            BY Writing
          <5>2. By(Append(Front(Log), Scrap))
                  = By(Front(Log)) \cup ({Scrap.by} \ {NoWriter})
            BY <4>2, <5>1, LineAdded
          <5> QED
            BY <4>1, <5>1, <5>2
        <4>4. Spoilt' = Landed' \ By(Log')
          BY DEF Spoilt, By
        <4>5. Spoilt' \subseteq Spoilt \cup {w}
          BY <1>c, <2>4, <3>1, <4>2, <4>3, <4>4 DEF Spoilt
        <4> QED
          BY <1>c, <1>n, <1>t, <3>1, <4>5
      <3>2. CASE ~unended
        <4>1. Log' = Append(Log, Entry(w))
          BY <2>3, <3>2 DEF Appended
        <4>2. By(Log') = By(Log) \cup {w}
          BY <1>s, <4>1, EntryType, LineAdded, Writing
        <4>3. Spoilt' = Landed' \ By(Log')
          BY DEF Spoilt, By
        <4>4. Spoilt' \subseteq Spoilt
          BY <2>4, <4>2, <4>3 DEF Spoilt
        <4> QED
          BY <1>c, <1>n, <1>t, <3>2, <4>4
      <3> QED
        BY <3>1, <3>2
    <2>6. \A g \in Files : g # path' => text'[g] = <<>>
      BY <1>t, <1>c, <2>1, <2>2
    <2>7. Cardinality(Spoilt') + 0 <= tears'
      BY <1>n, <1>t, <2>1, <2>5
    <2> QED
      BY <1>h, <1>c, <2>1, <2>2, <2>6, <2>7 DEF Registry
  <1>5. CASE Publish(w)
    <2>1. /\ at' = [at EXCEPT ![w] = "done"] /\ at[w] = "written"
          /\ UNCHANGED <<path, text, desc, unended, tears>>
      BY <1>5 DEF Publish, Move
    <2>2. /\ Log' = Log /\ at'[w] = "done" /\ Opens(w)
      BY <1>t, <2>1 DEF Log, Opens
    <2>3. Landed' \subseteq Landed
      BY <1>f, <2>1, <2>2 DEF Landed
    <2>4. tears <= tears' /\ path # 0
      BY <1>t, <1>p, <2>1, <2>2
    <2>5. ~Opens(w)'
      BY <2>2 DEF Opens
    <2> QED
      BY <1>k, <1>h, <1>c, <2>1, <2>2, <2>3, <2>4, <2>5 DEF Registry
  <1>6. CASE Die(w)
    <2>1. /\ path' = path /\ w \in InCall
          /\ desc[w] # 0 => Opens(w)
      BY <1>6, OnlyItsFile
    <2>2. at'[w] = "done" /\ acked' = acked /\ ~Opens(w)'
      BY <1>t, <1>6, <2>1 DEF Die, Move, Opens
    <2>3. Landed' \subseteq Landed /\ w \notin Landed'
      BY <1>f, <2>2 DEF Landed
    <2>4. \A v \in Writers : Opens(v)' => desc'[v] = path'
      BY <1>h, <2>1, <2>2
    <2>5. CASE desc[w] = 0
      <3>1. UNCHANGED <<text, unended, tears>>
        BY <1>6, <2>5 DEF Die
      <3>2. Log' = Log /\ tears <= tears'
        BY <1>t, <2>1, <3>1 DEF Log
      <3> QED
        BY <1>k, <1>c, <2>1, <2>2, <2>3, <2>4, <3>1, <3>2 DEF Registry
    <2>6. CASE desc[w] # 0
      <3>1. /\ desc[w] = path /\ path \in Files /\ path # 0
            /\ Log = text[path]
        BY <1>p, <2>1, <2>6
      <3>2. PICK s \in Remains(w) :
              /\ text' = [text EXCEPT ![desc[w]] = s]
              /\ unended' = (unended \/ (kind = "registry"
                                         /\ s # text[desc[w]]))
              /\ tears' = IF desc[w] = path
                             /\ (s # text[desc[w]] \/ (kind = "fdr" /\ ~Parses(s)))
                          THEN tears + 1 ELSE tears
        BY <1>6, <2>6 DEF Die
      <3>3. Log' = s /\ \A g \in Files : g # path' => text'[g] = <<>>
        BY <1>t, <1>c, <2>1, <3>1, <3>2 DEF Log
      <3>4. CASE s = Log
        <4>1. unended' = unended
          BY <1>t, <3>1, <3>2, <3>4
        <4>2. tears <= tears'
          BY <1>t, <3>2
        <4> QED
          BY <1>k, <1>c, <2>1, <2>2, <2>3, <2>4, <3>1, <3>3, <3>4, <4>1,
             <4>2 DEF Registry
      <3>5. CASE s # Log
        <4>1. unended' /\ tears' = tears + 1
          <5>1. s # text[desc[w]]
            BY <1>c, <2>1, <3>1, <3>5 DEF Log
          <5> QED
            BY <1>k, <3>1, <3>2, <5>1
        <4>2. \/ s = Append(Front(Log), Scrap) /\ unended
              \/ s = Append(Log, Scrap)
              \/ s = Append(Log, Entry(w))
          BY <3>1, <3>2, <3>5 DEF Remains, Appended
        <4>3. /\ s # <<>> /\ s[Len(s)].by \in {NoWriter, w}
              /\ Landed \cap By(Log) \subseteq By(s)
          <5>1. CASE s = Append(Front(Log), Scrap) /\ unended
            <6>1. /\ Front(Log) \in Seq(Line)
                  /\ By(Log) \subseteq By(Front(Log)) \cup {Log[Len(Log)].by}
              BY <1>c, <1>s, <5>1, LineDropped
            <6>2. /\ s # <<>> /\ s[Len(s)] = Scrap
                  /\ By(s) = By(Front(Log)) \cup ({Scrap.by} \ {NoWriter})
              BY <5>1, <6>1, LineAdded, Writing
            <6> QED
              BY <1>c, <5>1, <6>1, <6>2, Writing
          <5>2. CASE s = Append(Log, Scrap)
            BY <1>s, <5>2, LineAdded, Writing
          <5>3. CASE s = Append(Log, Entry(w))
            BY <1>s, <5>3, LineAdded, EntryType
          <5> QED
            BY <4>2, <5>1, <5>2, <5>3
        <4>4. Log' # <<>> /\ Log'[Len(Log')].by \notin Landed'
          BY <2>3, <3>3, <4>3, Writing DEF Landed
        <4>5. Spoilt' = Landed' \ By(Log')
          BY DEF Spoilt, By
        <4>6. Spoilt' \subseteq Spoilt
          BY <2>3, <3>3, <4>3, <4>5 DEF Spoilt
        <4>7. PICK m \in Nat, n \in Nat :
                /\ m = Cardinality(Spoilt) /\ n = Cardinality(Spoilt')
                /\ n <= m
          BY <1>n, <4>6
        <4>8. m <= tears
          <5>1. m + 0 <= tears \/ m + 1 <= tears
            BY <1>c, <4>7
          <5> QED
            BY <1>t, <5>1
        <4>9. n + 1 <= tears'
          BY <1>t, <4>1, <4>7, <4>8
        <4> QED
          BY <1>c, <2>1, <2>2, <2>4, <3>1, <3>3, <4>1, <4>4, <4>7,
             <4>9 DEF Registry
      <3> QED
        BY <3>4, <3>5
    <2> QED
      BY <2>5, <2>6
  <1> QED
    BY <1>1, <1>2, <1>3, <1>4, <1>5, <1>6 DEF LogStep

-----------------------------------------------------------------------------
(* All four *)

LEMMA InitLog == LogInit => LogInv
  <1> SUFFICES ASSUME LogInit PROVE LogInv
    OBVIOUS
  <1>1. LogBase
    BY InitBase
  <1>2. Log = <<>> /\ InCall = {} /\ acked = {} /\ path = 0 /\ ~unended
    BY DEF LogInit, Log, InCall
  <1>3. Parses(Log) /\ Verifies(Log)
    BY <1>2 DEF Parses, Verifies
  <1>4. Promotion
    BY <1>2, <1>3 DEF LogInit, Promotion, OwnFile, Opens, Kept, InCall
  <1>5. Chain /\ Stream
    BY <1>2, <1>3 DEF LogInit, Chain, Stream
  <1>6. Registry
    <2>1. Spoilt = {}
      BY <1>2 DEF LogInit, Spoilt, Landed
    <2>2. Cardinality(Spoilt) = 0
      BY <2>1, FS_EmptySet
    <2>3. Cardinality(Spoilt) + 0 <= tears
      BY <2>2 DEF LogInit
    <2> QED
      BY <1>2, <2>3 DEF LogInit, Registry, Opens
  <1> QED
    BY <1>1, <1>4, <1>5, <1>6 DEF LogInv

LEMMA StepLog == LogInv /\ [LogNext]_logVars => LogInv'
  <1> SUFFICES ASSUME LogInv, [LogNext]_logVars PROVE LogInv'
    OBVIOUS
  <1>1. LogBase /\ LogBase'
    BY StepBase DEF LogInv
  <1>2. CASE UNCHANGED logVars
    BY <1>1, <1>2 DEF logVars, logFiles, LogInv, Promotion, OwnFile, Chain,
         OwnTurn, Registry, Stream, OwnRewrite, Opens, Kept, Landed, Spoilt,
         InCall, Log, Entry, Parses, Verifies, By
  <1>3. ASSUME NEW w \in Writers, LogStep(w) PROVE LogInv'
    <2>1. /\ kind' = kind /\ mixed \subseteq mixed'
      BY <1>1, <1>3, Framed
    <2>2. tears' = 0 => tears = 0
      <3>1. tears \in Nat /\ tears' \in {tears, tears + 1}
        BY <1>1, <1>3 DEF LogBase, LogTypeOK, LogStep, ReadLog, Open,
             Compose, Write, Publish, Die
      <3> QED
        BY <3>1
    <2>3. kind' = "promotion" => Promotion'
      BY <1>1, <1>3, <2>1, StepPromotion DEF LogInv
    <2>4. kind' = "wal" /\ mixed' = {} => Chain'
      BY <1>1, <1>3, <2>1, StepChain DEF LogInv
    <2>5. kind' = "registry" => Registry'
      BY <1>1, <1>3, <2>1, StepRegistry DEF LogInv
    <2>6. kind' = "fdr" /\ mixed' = {} /\ tears' = 0 => Stream'
      BY <1>1, <1>3, <2>1, <2>2, StepStream DEF LogInv
    <2> QED
      BY <1>1, <2>3, <2>4, <2>5, <2>6 DEF LogInv
  <1> QED
    BY <1>2, <1>3 DEF LogNext

LEMMA LogKept == LogSpec => []LogInv
  BY InitLog, StepLog, PTL DEF LogSpec

LEMMA KeptImplies == LogInv => LogTypeOK /\ AcknowledgedStay
  <1> SUFFICES ASSUME LogInv PROVE LogTypeOK /\ AcknowledgedStay
    OBVIOUS
  <1>1. LogTypeOK
    BY DEF LogInv, LogBase
  <1> DEFINE lost == acked \ Readable
  <1>2. Readable = IF kind \in {"wal", "fdr"} /\ ~Parses(Log) THEN {}
                   ELSE By(Log)
    BY DEF Readable, By
  <1>3. kind = "promotion" => lost \subseteq mixed /\ Parses(Log)
    BY <1>2 DEF LogInv, Promotion, Kept
  <1>4. kind = "wal" => mixed # {} \/ (lost = {} /\ Verifies(Log))
    BY <1>2 DEF LogInv, Chain, Verifies, Parses
  <1>5. ASSUME kind = "registry" PROVE Cardinality(lost) <= tears
    <2>1. Spoilt \subseteq Writers /\ lost \subseteq Spoilt
      BY <1>2, <1>5 DEF Spoilt, Landed, LogInv, LogBase, LogTypeOK
    <2>2. /\ Cardinality(lost) \in Nat /\ Cardinality(Spoilt) \in Nat
          /\ Cardinality(lost) <= Cardinality(Spoilt)
      <3> HIDE DEF lost
      <3> QED
        BY <2>1, Counted
    <2>3. tears \in Nat
      BY <1>1 DEF LogTypeOK
    <2>4. \/ Cardinality(Spoilt) + 0 <= tears
          \/ Cardinality(Spoilt) + 1 <= tears
      BY <1>5 DEF LogInv, Registry
    <2> HIDE DEF lost
    <2> QED
      BY <2>2, <2>3, <2>4
  <1>6. kind = "fdr" => lost = {} \/ mixed \cup InCall # {} \/ tears > 0
    <2>1. tears = 0 \/ tears > 0
      BY <1>1 DEF LogTypeOK
    <2> QED
      BY <1>2, <2>1 DEF LogInv, Stream
  <1> QED
    BY <1>1, <1>3, <1>4, <1>5, <1>6 DEF AcknowledgedStay

\* An entry whose call has returned stays readable, in each of the four files
\* as far as its discipline goes: WAL.append, PromotionLedger.record,
\* ExperimentRegistry.record and FDRController.submit, for any number of
\* writers, in every order of their system calls and with a death after any.
THEOREM AcknowledgedAreKept == LogSpec => []AcknowledgedStay
  BY LogKept, KeptImplies, PTL
=============================================================================
