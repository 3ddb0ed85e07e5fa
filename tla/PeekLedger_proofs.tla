------------------------- MODULE PeekLedger_proofs -------------------------
(***************************************************************************)
(* PeekLedger, used by one run at a time, for every number of runs and of  *)
(* locked tests: every certificate pays for the looks recorded before it,  *)
(* none of those is forgotten, and the file is an atomic counter.  A run   *)
(* that dies may leave a temporary file, which the next one truncates.     *)
(***************************************************************************)
EXTENDS PeekLedger, FiniteSetTheorems, TLAPS

Types ==
    /\ ledger \in Inodes \union {0} /\ tmp \in Inodes \union {0}
    /\ content \in [Inodes -> Tables]
    /\ whole \subseteq Inodes
    /\ pc \in [Runs -> Labels]
    /\ digest \in [Runs -> Digests]
    /\ table \in [Runs -> Tables]
    /\ handle \in [Runs -> Inodes \union {0}]
    /\ checks \in [Runs -> Nat]
    /\ recorded \in Seq(Runs)

\* One run is in the ledger at a time.
OneActive == \A r \in Active : \A s \in Active : r = s

\* The ledger parses and is no temporary file.
LedgerReads == ledger # 0 => ledger \in whole /\ ledger # tmp

\* What a run holds on its way: nothing open before it opens the temporary
\* file, its own whole text after it has written it, and its own count in
\* the ledger after the rename.
Holds(r) ==
    /\ pc[r] \in {"idle", "predicted", "counted"} => handle[r] = 0
    /\ pc[r] \in {"counted", "opened", "written"} =>
         table[r] = Incremented(Read, digest[r])
    /\ pc[r] = "opened" =>
         tmp # 0 /\ handle[r] = tmp /\ content[tmp] = Empty
    /\ pc[r] = "written" =>
         tmp # 0 /\ tmp \in whole /\ content[tmp] = table[r]
    /\ pc[r] = "recorded" => table[r][digest[r]] = Read[digest[r]]
    /\ pc[r] # "done" => checks[r] = 0
    /\ pc[r] = "recorded" => table[r][digest[r]] > 0

\* LooksAt of any record and assignment of tests.
LooksIn(rec, dig, d, n) == {i \in 1..n : dig[rec[i]] = d}

\* The ledger counts what was recorded, each run was recorded once, and the
\* last one may still be about to pay.
AllCounted ==
    \A d \in Digests :
        Read[d] = Cardinality(LooksIn(recorded, digest, d, Len(recorded)))

RecordedOnce ==
    /\ \A i \in 1..Len(recorded) : pc[recorded[i]] \in {"recorded", "done"}
    /\ \A i, j \in 1..Len(recorded) : i # j => recorded[i] # recorded[j]
    /\ \A r \in Runs : pc[r] = "recorded" =>
          Len(recorded) > 0 /\ recorded[Len(recorded)] = r

Prices ==
    \A j \in 1..Len(recorded) :
        checks[recorded[j]] \in
            {0, Cardinality(LooksIn(recorded, digest, digest[recorded[j]], j))}

Paid == AllCounted /\ RecordedOnce /\ Prices

SerialInv ==
    /\ Types /\ OneActive /\ LedgerReads
    /\ \A r \in Runs : Holds(r)
    /\ Paid

-----------------------------------------------------------------------------
(* Tables and inodes *)

LEMMA EmptyTable == Empty \in Tables
  BY DEF Empty, Tables

LEMMA IncrementedTable ==
    ASSUME NEW t \in Tables, NEW d \in Digests
    PROVE  /\ Incremented(t, d) \in Tables
           /\ Incremented(t, d)[d] = t[d] + 1
           /\ \A e \in Digests : t[e] <= Incremented(t, d)[e]
  BY DEF Incremented, Tables

LEMMA ReadTable == ASSUME Types PROVE Read \in Tables
  BY EmptyTable DEF Types, Read

LEMMA ListedType == ASSUME NEW t \in Tables PROVE Listed(t) \in Nat
  <1>1. {d \in Digests : t[d] > 0} \subseteq Digests
    OBVIOUS
  <1>2. IsFiniteSet({d \in Digests : t[d] > 0})
    BY <1>1, PeekLedgerAssumption, FS_Subset DEF PeekLedgerAssumption
  <1> QED
    BY <1>2, FS_CardinalityType DEF Listed

LEMMA ListedEmpty == Listed(Empty) = 0
  <1>1. {d \in Digests : Empty[d] > 0} = {}
    BY DEF Empty
  <1> QED
    BY <1>1, FS_EmptySet DEF Listed

\* Two inodes are there for whoever opens the first temporary file.
LEMMA TwoInodes == ASSUME NEW r \in Runs PROVE {1, 2} \subseteq Inodes
  <1>1. IsFiniteSet(Runs) /\ Cardinality(Runs) \in Nat
    BY PeekLedgerAssumption, FS_CardinalityType DEF PeekLedgerAssumption
  <1>2. Cardinality(Runs) # 0
    BY <1>1, FS_EmptySet
  <1> QED
    BY <1>1, <1>2 DEF Inodes

LEMMA UnusedInode ==
    ASSUME SerialInv, NEW r \in Runs, pc[r] = "counted", tmp = 0
    PROVE  Unused \in Inodes /\ Unused # ledger /\ Unused # 0
  <1> DEFINE P(i) == /\ i \notin {ledger, tmp}
                     /\ \A s \in Active : handle[s] # i
  <1>1. r \in Active /\ handle[r] = 0
    BY DEF Active, SerialInv, Holds
  <1>2. \A s \in Active : handle[s] = 0
    BY <1>1 DEF SerialInv, OneActive
  <1>3. \E i \in Inodes : P(i)
    <2>1. 1 \in Inodes /\ 2 \in Inodes
      BY TwoInodes
    <2>2. CASE ledger = 1
      BY <1>2, <2>1, <2>2
    <2>3. CASE ledger # 1
      BY <1>2, <2>1, <2>3
    <2> QED
      BY <2>2, <2>3
  <1>4. Unused = CHOOSE i \in Inodes : P(i)
    BY DEF Unused
  <1> HIDE DEF P
  <1>5. Unused \in Inodes /\ P(Unused)
    BY <1>3, <1>4, Zenon
  <1> QED
    BY <1>5 DEF P, Inodes

-----------------------------------------------------------------------------
(* Steps *)

LEMMA InitSerial == Init => SerialInv
  <1> SUFFICES ASSUME Init PROVE SerialInv
    OBVIOUS
  <1>1. Types
    BY EmptyTable DEF Init, Types, Labels
  <1>2. OneActive /\ LedgerReads
    BY DEF Init, OneActive, Active, LedgerReads
  <1>3. \A r \in Runs : Holds(r)
    BY DEF Init, Holds
  <1>4. Paid
    <2>1. recorded = <<>> /\ Len(recorded) = 0 /\ Read = Empty /\ 1..0 = {}
      BY DEF Init, Read
    <2>2. \A d \in Digests : LooksIn(recorded, digest, d, 0) = {}
      BY <2>1 DEF LooksIn
    <2>3. AllCounted
      BY <2>1, <2>2, FS_EmptySet DEF AllCounted, Empty
    <2>4. RecordedOnce /\ Prices
      BY <2>1 DEF Init, RecordedOnce, Prices
    <2> QED
      BY <2>3, <2>4 DEF Paid
  <1> QED
    BY <1>1, <1>2, <1>3, <1>4 DEF SerialInv

\* A step of one run that leaves the ledger's table and every price alone.
LEMMA SerialStep ==
    ASSUME SerialInv, NEW r \in Runs, r \in Active, Types', LedgerReads',
           NEW label \in Labels \ {"idle"}, pc' = [pc EXCEPT ![r] = label],
           Holds(r)', Read' = Read,
           UNCHANGED <<digest, checks, recorded>>,
           \A s \in Runs \ {r} : table'[s] = table[s] /\ handle'[s] = handle[s],
           label # "recorded", pc[r] = "recorded" => label = "done"
    PROVE  SerialInv'
  <1>1. \A s \in Runs : pc'[s] = IF s = r THEN label ELSE pc[s]
    BY DEF SerialInv, Types
  <1>2. OneActive'
    BY <1>1 DEF SerialInv, OneActive, Active
  <1>3. ASSUME NEW s \in Runs, s # r PROVE Holds(s)'
    <2>1. pc[s] \in {"idle", "done"}
      BY <1>3 DEF SerialInv, OneActive, Active
    <2>2. pc'[s] = pc[s] /\ handle'[s] = handle[s] /\ checks'[s] = checks[s]
      BY <1>1, <1>3
    <2> QED
      BY <2>1, <2>2 DEF SerialInv, Holds
  <1>4. /\ UNCHANGED <<digest, checks, recorded>>
        /\ \A i \in 1..Len(recorded) : recorded[i] \in Runs
        /\ \A i \in 1..Len(recorded) : pc[recorded[i]] \in {"recorded", "done"}
    BY DEF SerialInv, Types, Paid, RecordedOnce
  <1>5. RecordedOnce'
    BY <1>1, <1>4 DEF SerialInv, Paid, RecordedOnce, Active
  <1>6. AllCounted' /\ Prices'
    BY <1>4 DEF SerialInv, Paid, AllCounted, Prices
  <1> QED
    BY <1>2, <1>3, <1>5, <1>6 DEF SerialInv, Paid

\* Recording a look adds one to the looks at its test and leaves those of the
\* others, and of every run before it, as they are.
LEMMA RecordedGrows ==
    ASSUME Types, Read \in Tables, AllCounted, NEW r \in Runs,
           recorded' = Append(recorded, r), digest' = digest,
           Read' = Incremented(Read, digest[r])
    PROVE  /\ AllCounted'
           /\ \A j \in 1..Len(recorded), d \in Digests :
                LooksIn(recorded', digest, d, j) = LooksIn(recorded, digest, d, j)
  <1> DEFINE n == Len(recorded)
  <1>1. /\ n \in Nat /\ Len(recorded') = n + 1 /\ recorded'[n + 1] = r
        /\ \A i \in 1..n : recorded'[i] = recorded[i]
        /\ digest[r] \in Digests
    BY DEF Types
  <1> HIDE DEF n
  <1>2. ASSUME NEW j \in 1..n, NEW d \in Digests
        PROVE  LooksIn(recorded', digest, d, j) = LooksIn(recorded, digest, d, j)
    <2>1. \A i \in 1..j : recorded'[i] = recorded[i]
      BY <1>1
    <2> QED
      BY <2>1 DEF LooksIn
  <1>3. ASSUME NEW d \in Digests
        PROVE  Read'[d] = Cardinality(LooksIn(recorded', digest, d, n + 1))
    <2> DEFINE S == LooksIn(recorded, digest, d, n)
    <2>1. IsFiniteSet(S) /\ n + 1 \notin S
      <3>1. IsFiniteSet(1..n)
        BY <1>1, FS_Interval
      <3>2. S \subseteq 1..n
        BY DEF LooksIn
      <3>3. n + 1 \notin 1..n
        BY <1>1
      <3> HIDE DEF S
      <3> QED
        BY <3>1, <3>2, <3>3, FS_Subset
    <2>2. Read[d] = Cardinality(S) /\ Read[d] \in Nat
      BY DEF AllCounted, Tables, n
    <2>3. /\ 1..(n + 1) = (1..n) \union {n + 1}
          /\ \A i \in 1..n : recorded'[i] = recorded[i]
          /\ recorded'[n + 1] = r
      BY <1>1
    <2>4. CASE d = digest[r]
      <3>1. LooksIn(recorded', digest, d, n + 1) = S \union {n + 1}
        BY <2>3, <2>4 DEF LooksIn
      <3>2. Cardinality(S \union {n + 1}) = Cardinality(S) + 1
        BY <2>1, FS_AddElement
      <3>3. Read'[d] = Read[d] + 1
        BY <2>4, IncrementedTable
      <3> QED
        BY <2>2, <3>1, <3>2, <3>3
    <2>5. CASE d # digest[r]
      <3>1. LooksIn(recorded', digest, d, n + 1) = S
        BY <2>3, <2>5 DEF LooksIn
      <3>2. Read'[d] = Read[d]
        BY <2>5 DEF Incremented, Tables
      <3> QED
        BY <2>2, <3>1, <3>2
    <2> QED
      BY <2>4, <2>5
  <1>4. AllCounted'
    BY <1>1, <1>3 DEF AllCounted
  <1> QED
    BY <1>2, <1>4 DEF n

LEMMA StepSerial ==
    ASSUME ~Overlap, SerialInv, [Next]_vars
    PROVE  SerialInv' /\ \A d \in Digests : Read[d] <= Read'[d]
  <1> DEFINE Goal == SerialInv' /\ \A d \in Digests : Read[d] <= Read'[d]
  <1> USE DEF Goto, disk
  <1>t. Types /\ OneActive /\ LedgerReads /\ Paid
        /\ Read \in Tables
    BY ReadTable DEF SerialInv
  <1>n. \A d \in Digests : Read[d] \in Nat
    BY <1>t DEF Tables
  <1>s. ASSUME SerialInv', Read' = Read PROVE Goal
    BY <1>s, <1>n
  <1>1. ASSUME NEW r \in Runs, Predict(r) PROVE Goal
    <2>1. /\ Active = {} /\ pc[r] = "idle"
          /\ pc' = [pc EXCEPT ![r] = "predicted"]
          /\ UNCHANGED <<ledger, tmp, content, whole, digest, table, handle,
                         checks, recorded>>
      BY <1>1 DEF Predict
    <2>2. \A s \in Runs : pc'[s] = IF s = r THEN "predicted" ELSE pc[s]
      BY <1>t, <2>1 DEF Types
    <2>3. Types' /\ LedgerReads' /\ Read' = Read
      BY <1>t, <2>1 DEF Types, Labels, LedgerReads, Read
    <2>4. OneActive'
      BY <2>1, <2>2 DEF OneActive, Active
    <2>5. ASSUME NEW s \in Runs PROVE Holds(s)'
      BY <2>1, <2>2, <2>3 DEF SerialInv, Holds, Incremented
    <2>6. Paid'
      <3>1. \A i \in 1..Len(recorded) : recorded[i] \in Runs /\ recorded[i] # r
        BY <1>t, <2>1 DEF Types, Paid, RecordedOnce
      <3>2. RecordedOnce'
        BY <1>t, <2>1, <2>2, <3>1 DEF Paid, RecordedOnce
      <3>3. AllCounted' /\ Prices'
        BY <1>t, <2>1, <2>3 DEF Paid, AllCounted, Prices
      <3> QED
        BY <3>2, <3>3 DEF Paid
    <2> QED
      BY <2>3, <2>4, <2>5, <2>6, <1>s DEF SerialInv
  <1>2. ASSUME NEW r \in Runs, ReadLedger(r) PROVE Goal
    <2>1. /\ r \in Active /\ pc[r] = "predicted"
          /\ pc' = [pc EXCEPT ![r] = "counted"]
          /\ table' = [table EXCEPT ![r] = Incremented(Read, digest[r])]
          /\ UNCHANGED <<ledger, tmp, content, whole, digest, handle, checks,
                         recorded>>
      BY <1>2 DEF ReadLedger, Active
    <2>2. digest[r] \in Digests /\ Incremented(Read, digest[r]) \in Tables
      BY <1>t, IncrementedTable DEF Types
    <2>3. Types' /\ LedgerReads' /\ Read' = Read
      BY <1>t, <2>1, <2>2 DEF Types, Labels, LedgerReads, Read
    <2>4. /\ pc'[r] = "counted" /\ table'[r] = Incremented(Read, digest[r])
          /\ \A s \in Runs \ {r} : table'[s] = table[s]
      BY <1>t, <2>1 DEF Types
    <2>5. Holds(r)'
      BY <2>1, <2>3, <2>4 DEF SerialInv, Holds, Incremented
    <2>6. SerialInv'
      BY <2>1, <2>3, <2>4, <2>5, SerialStep DEF Labels
    <2> QED
      BY <2>3, <2>6, <1>s
  <1>3. ASSUME NEW r \in Runs, OpenTmp(r) PROVE Goal
    <2> DEFINE i == IF tmp = 0 THEN Unused ELSE tmp
    <2>1. /\ r \in Active /\ pc[r] = "counted"
          /\ pc' = [pc EXCEPT ![r] = "opened"]
          /\ tmp' = i /\ handle' = [handle EXCEPT ![r] = i]
          /\ content' = [content EXCEPT ![i] = Empty]
          /\ whole' = whole \ {i}
          /\ UNCHANGED <<ledger, digest, table, checks, recorded>>
      BY <1>3 DEF OpenTmp, Active
    <2>2. i \in Inodes /\ i # ledger /\ i # 0
      <3>1. CASE tmp = 0
        BY <2>1, <3>1, UnusedInode
      <3>2. CASE tmp # 0
        BY <1>t, <3>2 DEF Types, LedgerReads, Inodes
      <3> QED
        BY <3>1, <3>2
    <2> HIDE DEF i
    <2>3. Types' /\ LedgerReads'
      BY <1>t, <2>1, <2>2, EmptyTable DEF Types, Labels, LedgerReads
    <2>4. Read' = Read
      BY <1>t, <2>1, <2>2 DEF Types, Read, LedgerReads
    <2>5. /\ pc'[r] = "opened" /\ handle'[r] = i /\ content'[i] = Empty
          /\ \A s \in Runs \ {r} : handle'[s] = handle[s]
      BY <1>t, <2>1, <2>2 DEF Types
    <2>6. Holds(r)'
      BY <2>1, <2>2, <2>4, <2>5 DEF SerialInv, Holds, Incremented
    <2>7. SerialInv'
      BY <2>1, <2>3, <2>4, <2>5, <2>6, SerialStep DEF Labels
    <2> QED
      BY <2>4, <2>7, <1>s
  <1>4. ASSUME NEW r \in Runs, WriteTmp(r) PROVE Goal
    <2>1. /\ r \in Active /\ pc[r] = "opened"
          /\ pc' = [pc EXCEPT ![r] = "written"]
          /\ UNCHANGED <<ledger, tmp, digest, table, handle, checks, recorded>>
      BY <1>4 DEF WriteTmp, Active
    <2>2. /\ tmp # 0 /\ tmp \in Inodes /\ handle[r] = tmp
          /\ content[tmp] = Empty
          /\ table[r] = Incremented(Read, digest[r]) /\ table[r] \in Tables
      BY <1>t, <2>1 DEF SerialInv, Holds, Types
    <2>3. ~(Listed(content[tmp]) > Listed(table[r]))
      BY <2>2, ListedEmpty, ListedType
    <2>4. /\ whole' = whole \union {tmp}
          /\ content' = [content EXCEPT ![tmp] = table[r]]
      BY <1>4, <2>2, <2>3 DEF WriteTmp
    <2>5. Types' /\ LedgerReads'
      BY <1>t, <2>1, <2>2, <2>4 DEF Types, Labels, LedgerReads
    <2>6. Read' = Read
      BY <1>t, <2>1, <2>2, <2>4 DEF Types, Read, LedgerReads
    <2>7. pc'[r] = "written" /\ content'[tmp] = table[r]
      BY <1>t, <2>1, <2>2, <2>4 DEF Types
    <2>8. Holds(r)'
      BY <2>1, <2>2, <2>4, <2>6, <2>7 DEF SerialInv, Holds, Incremented
    <2>9. SerialInv'
      BY <2>1, <2>5, <2>6, <2>8, SerialStep DEF Labels
    <2> QED
      BY <2>6, <2>9, <1>s
  <1>5. ASSUME NEW r \in Runs, Replace(r) PROVE Goal
    <2>1. /\ r \in Active /\ pc[r] = "written" /\ r \in Runs
          /\ tmp # 0 /\ tmp \in whole /\ content[tmp] = table[r]
          /\ table[r] = Incremented(Read, digest[r])
          /\ digest[r] \in Digests
      BY <1>5, <1>t DEF Replace, Active, SerialInv, Holds, Types
    <2>2. /\ ledger' = tmp /\ tmp' = 0 /\ pc' = [pc EXCEPT ![r] = "recorded"]
          /\ recorded' = Append(recorded, r)
          /\ UNCHANGED <<content, whole, digest, table, handle, checks>>
      BY <1>5, <2>1 DEF Replace
    <2>3. Types' /\ LedgerReads'
      BY <1>t, <2>1, <2>2 DEF Types, Labels, LedgerReads
    <2>4. Read' = Incremented(Read, digest[r])
      BY <2>1, <2>2 DEF Read
    <2>5. /\ Read'[digest[r]] = Read[digest[r]] + 1
          /\ \A d \in Digests : Read[d] <= Read'[d] /\ Read'[d] \in Nat
      BY <1>t, <2>1, <2>4, IncrementedTable DEF Tables
    <2>6. \A s \in Runs : pc'[s] = IF s = r THEN "recorded" ELSE pc[s]
      BY <1>t, <2>2 DEF Types
    <2>7. OneActive'
      BY <1>t, <2>1, <2>6 DEF OneActive, Active
    <2>8. ASSUME NEW s \in Runs PROVE Holds(s)'
      <3>1. CASE s = r
        BY <1>n, <2>1, <2>2, <2>4, <2>5, <2>6, <3>1 DEF SerialInv, Holds
      <3>2. CASE s # r
        <4>1. pc[s] \in {"idle", "done"}
          BY <1>t, <2>1, <3>2 DEF OneActive, Active
        <4> QED
          BY <2>2, <2>6, <3>2, <4>1 DEF SerialInv, Holds
      <3> QED
        BY <3>1, <3>2
    <2>9. /\ Len(recorded) \in Nat /\ Len(recorded') = Len(recorded) + 1
          /\ recorded'[Len(recorded) + 1] = r
          /\ \A i \in 1..Len(recorded) :
               /\ recorded'[i] = recorded[i] /\ recorded[i] \in Runs
               /\ recorded[i] # r /\ pc[recorded[i]] = "done"
      <3>1. \A i \in 1..Len(recorded) :
               recorded[i] \in Runs /\ pc[recorded[i]] \in {"recorded", "done"}
        BY <1>t DEF Types, Paid, RecordedOnce
      <3>2. \A s \in Runs : pc[s] = "recorded" => s = r
        BY <1>t, <2>1 DEF OneActive, Active
      <3>3. \A i \in 1..Len(recorded) :
               recorded[i] # r /\ pc[recorded[i]] = "done"
        BY <2>1, <3>1, <3>2
      <3> QED
        BY <1>t, <2>1, <2>2, <3>1, <3>3 DEF Types
    <2>10. RecordedOnce'
      <3>1. \A i \in 1..Len(recorded') : pc'[recorded'[i]] \in {"recorded", "done"}
        BY <2>6, <2>9
      <3>2. ASSUME NEW i \in 1..Len(recorded'), NEW j \in 1..Len(recorded'),
                   i # j
            PROVE  recorded'[i] # recorded'[j]
        BY <1>t, <2>9, <3>2 DEF Paid, RecordedOnce
      <3>3. \A q \in Runs : pc'[q] = "recorded" => q = r
        BY <1>t, <2>1, <2>6 DEF OneActive, Active
      <3> QED
        BY <2>9, <3>1, <3>2, <3>3 DEF RecordedOnce
    <2>11. /\ AllCounted'
           /\ \A j \in 1..Len(recorded), d \in Digests :
                LooksIn(recorded', digest, d, j) = LooksIn(recorded, digest, d, j)
      <3>1. AllCounted
        BY <1>t DEF Paid
      <3> QED
        BY <1>t, <2>2, <2>4, <3>1, RecordedGrows
    <2>12. Prices'
      <3> SUFFICES ASSUME NEW j \in 1..Len(recorded')
                   PROVE  checks[recorded'[j]] \in
                            {0, Cardinality(LooksIn(recorded', digest,
                                                    digest[recorded'[j]], j))}
        BY <2>2 DEF Prices
      <3>1. CASE j = Len(recorded) + 1
        BY <2>1, <2>9, <3>1 DEF SerialInv, Holds
      <3>2. CASE j \in 1..Len(recorded)
        <4>1. digest[recorded[j]] \in Digests /\ recorded'[j] = recorded[j]
          BY <1>t, <2>9, <3>2 DEF Types
        <4> QED
          BY <1>t, <2>11, <3>2, <4>1 DEF Paid, Prices
      <3> QED
        BY <2>9, <3>1, <3>2
    <2> QED
      BY <2>3, <2>5, <2>7, <2>8, <2>10, <2>11, <2>12 DEF SerialInv, Paid
  <1>6. ASSUME NEW r \in Runs, Certify(r) PROVE Goal
    <2>1. /\ r \in Active /\ pc[r] = "recorded"
          /\ pc' = [pc EXCEPT ![r] = "done"]
          /\ checks' = [checks EXCEPT ![r] = table[r][digest[r]]]
          /\ UNCHANGED <<ledger, tmp, content, whole, digest, table, handle,
                         recorded>>
      BY <1>6 DEF Certify, Active
    <2>2. /\ table[r][digest[r]] = Read[digest[r]] /\ digest[r] \in Digests
          /\ Read[digest[r]] \in Nat /\ checks[r] \in Nat
      BY <1>t, <1>n, <2>1 DEF SerialInv, Holds, Types
    <2>3. /\ Len(recorded) \in Nat /\ Len(recorded) > 0
          /\ recorded[Len(recorded)] = r
          /\ \A i \in 1..Len(recorded) : recorded[i] \in Runs
          /\ \A i \in 1..Len(recorded) : i # Len(recorded) => recorded[i] # r
      BY <1>t, <2>1 DEF Types, Paid, RecordedOnce
    <2>4. Types' /\ LedgerReads' /\ Read' = Read
      BY <1>t, <2>1, <2>2 DEF Types, Labels, LedgerReads, Read
    <2>5. \A s \in Runs : /\ pc'[s] = IF s = r THEN "done" ELSE pc[s]
                          /\ checks'[s] = IF s = r THEN Read[digest[r]]
                                          ELSE checks[s]
      BY <1>t, <2>1, <2>2 DEF Types
    <2>6. OneActive'
      BY <1>t, <2>1, <2>5 DEF OneActive, Active
    <2>7. ASSUME NEW s \in Runs PROVE Holds(s)'
      <3>1. CASE s = r
        BY <2>1, <2>5, <3>1 DEF SerialInv, Holds
      <3>2. CASE s # r
        <4>1. /\ pc[s] \in {"idle", "done"} /\ pc'[s] = pc[s]
              /\ handle'[s] = handle[s] /\ checks'[s] = checks[s]
          BY <1>t, <2>1, <2>5, <3>2 DEF OneActive, Active
        <4> QED
          BY <4>1 DEF SerialInv, Holds
      <3> QED
        BY <3>1, <3>2
    <2>8. RecordedOnce'
      BY <1>t, <2>1, <2>3, <2>5 DEF Paid, RecordedOnce
    <2>9. AllCounted'
      BY <1>t, <2>1, <2>4 DEF Paid, AllCounted
    <2>10. Prices'
      <3> SUFFICES ASSUME NEW j \in 1..Len(recorded)
                   PROVE  checks'[recorded[j]] \in
                            {0, Cardinality(LooksIn(recorded, digest,
                                                    digest[recorded[j]], j))}
        BY <2>1 DEF Prices
      <3>1. CASE j = Len(recorded)
        <4>1. checks'[r] = Read[digest[r]]
          BY <2>5
        <4>2. Read[digest[r]] = Cardinality(LooksIn(recorded, digest, digest[r], Len(recorded)))
          BY <1>t, <2>2 DEF Paid, AllCounted
        <4> QED
          BY <2>3, <3>1, <4>1, <4>2
      <3>2. CASE j # Len(recorded)
        <4>1. checks'[recorded[j]] = checks[recorded[j]]
          BY <2>3, <2>5, <3>2
        <4> QED
          BY <1>t, <4>1 DEF Paid, Prices
      <3> QED
        BY <3>1, <3>2
    <2>11. SerialInv'
      BY <2>4, <2>6, <2>7, <2>8, <2>9, <2>10 DEF SerialInv, Paid
    <2> QED
      BY <2>4, <2>11, <1>s
  <1>7. ASSUME NEW r \in Runs, Abort(r) PROVE Goal
    <2>1. /\ r \in Active /\ pc' = [pc EXCEPT ![r] = "done"]
          /\ UNCHANGED <<ledger, tmp, content, whole, digest, table, handle,
                         checks, recorded>>
      BY <1>7 DEF Abort
    <2>2. Types' /\ LedgerReads' /\ Read' = Read
      BY <1>t, <2>1 DEF Types, Labels, LedgerReads, Read
    <2>3. pc'[r] = "done"
      BY <1>t, <2>1 DEF Types
    <2>4. Holds(r)'
      BY <2>3 DEF Holds
    <2>5. SerialInv'
      BY <2>1, <2>2, <2>4, SerialStep DEF Labels
    <2> QED
      BY <2>2, <2>5, <1>s
  <1>8. CASE UNCHANGED vars
    <2>1. UNCHANGED <<ledger, tmp, content, whole, pc, digest, table, handle,
                      checks, recorded>>
      BY <1>8 DEF vars
    <2>2. Read' = Read
      BY <2>1 DEF Read
    <2>3. Types' /\ OneActive' /\ LedgerReads' /\ Paid'
      BY <1>t, <2>1, <2>2
      DEF Types, OneActive, Active, LedgerReads, Paid, AllCounted, RecordedOnce,
          Prices
    <2>4. \A r \in Runs : Holds(r)'
      BY <2>1, <2>2 DEF SerialInv, Holds, Incremented
    <2> QED
      BY <2>2, <2>3, <2>4, <1>s DEF SerialInv
  <1> QED
    BY <1>1, <1>2, <1>3, <1>4, <1>5, <1>6, <1>7, <1>8 DEF Next, Step

\* When no two runs are in the ledger at a time every certificate pays for
\* exactly the looks recorded before it on its locked test and its own, those
\* of runs that died after recording theirs included.  A run that dies before
\* the rename has recorded no look, and nobody pays for it.
THEOREM SerialLooksPaid == ~Overlap /\ Spec => []EveryLookPaid
  <1> SUFFICES ASSUME ~Overlap PROVE Spec => []EveryLookPaid
    OBVIOUS
  <1>1. SerialInv /\ [Next]_vars => SerialInv'
    BY StepSerial
  <1>2. SerialInv => EveryLookPaid
    BY DEF SerialInv, Paid, Prices, EveryLookPaid, LooksIn, LooksAt
  <1> QED
    BY <1>1, <1>2, InitSerial, PTL DEF Spec

\* When no two runs are in the ledger at a time no look is forgotten.
THEOREM SerialNeverForgets == ~Overlap /\ Spec => NeverForgets
  <1> SUFFICES ASSUME ~Overlap PROVE Spec => NeverForgets
    OBVIOUS
  <1>1. SerialInv /\ [Next]_vars => SerialInv'
    BY StepSerial
  <1>2. SerialInv /\ [Next]_vars => [\A d \in Digests : Read[d] <= Read'[d]]_vars
    BY StepSerial
  <1> QED
    BY <1>1, <1>2, InitSerial, PTL DEF Spec, NeverForgets

-----------------------------------------------------------------------------
(* The file as a counter *)

Due == [r \in Runs |-> IF pc[r] = "recorded" THEN table[r][digest[r]] ELSE 0]

LEMMA InitCounts == Init => Counter!Init
  <1> SUFFICES ASSUME Init PROVE Counter!Init
    OBVIOUS
  <1>1. Read = [t \in Digests |-> 0]
    BY DEF Init, Read, Empty
  <1>2. Due = [k \in Runs |-> 0]
    BY DEF Init, Due
  <1>3. checks = [k \in Runs |-> 0]
    BY DEF Init
  <1> QED
    BY <1>1, <1>2, <1>3 DEF Counter!Init, Due

\* A step that neither renames nor prices is none of the counter's.
LEMMA QuietCounts ==
    ASSUME Read' = Read, Due' = Due, checks' = checks
    PROVE  UNCHANGED Counter!counterVars
  BY DEF Counter!counterVars, Due

LEMMA StepCounts ==
    ASSUME ~Overlap, SerialInv, [Next]_vars
    PROVE  [Counter!Next]_(Counter!counterVars)
  <1> DEFINE Goal == [Counter!Next]_(Counter!counterVars)
  <1> USE DEF Goto, disk
  <1>t. Types /\ LedgerReads /\ \A r \in Runs : Holds(r)
    BY DEF SerialInv
  <1>1. ASSUME NEW r \in Runs, NEW label \in Labels \ {"recorded"},
               pc[r] # "recorded", pc' = [pc EXCEPT ![r] = label],
               Read' = Read, digest' = digest, checks' = checks,
               \A s \in Runs \ {r} : table'[s] = table[s]
        PROVE  Goal
    <2>1. \A s \in Runs : pc'[s] = IF s = r THEN label ELSE pc[s]
      BY <1>1, <1>t DEF Types
    <2>2. Due' = Due
      BY <1>1, <2>1 DEF Due
    <2> QED
      BY <1>1, <2>2, QuietCounts
  <1>2. ASSUME NEW r \in Runs,
               \/ Predict(r) \/ ReadLedger(r) \/ OpenTmp(r) \/ WriteTmp(r)
        PROVE  Goal
    <2>1. CASE Predict(r)
      BY <1>1, <2>1 DEF Predict, Labels, Read
    <2>2. CASE ReadLedger(r)
      <3>1. \A s \in Runs \ {r} : table'[s] = table[s]
        BY <1>t, <2>2 DEF ReadLedger, Types
      <3> QED
        BY <1>1, <2>2, <3>1 DEF ReadLedger, Labels, Read
    <2>3. CASE OpenTmp(r)
      <3> DEFINE i == IF tmp = 0 THEN Unused ELSE tmp
      <3>1. i # ledger
        <4>1. CASE tmp = 0
          BY <2>3, <4>1, UnusedInode DEF OpenTmp
        <4>2. CASE tmp # 0
          BY <1>t, <4>2 DEF LedgerReads, Types, Inodes
        <4> QED
          BY <4>1, <4>2
      <3>2. content' = [content EXCEPT ![i] = Empty] /\ whole' = whole \ {i}
            /\ ledger' = ledger
        BY <2>3 DEF OpenTmp
      <3> HIDE DEF i
      <3>3. Read' = Read
        BY <1>t, <3>1, <3>2 DEF Types, Read, LedgerReads
      <3> QED
        BY <1>1, <2>3, <3>3 DEF OpenTmp, Labels
    <2>4. CASE WriteTmp(r)
      <3>1. handle[r] = tmp /\ tmp # 0 /\ ledger' = ledger
        BY <1>t, <2>4 DEF WriteTmp, Holds
      <3>2. ledger # 0 => ledger # tmp /\ ledger \in whole
        BY <1>t DEF LedgerReads
      <3>3. Read' = Read
        <4>1. \/ whole' = whole \ {tmp} /\ content' = content
              \/ /\ whole' = whole \union {tmp}
                 /\ content' = [content EXCEPT ![tmp] = table[r]]
          BY <2>4, <3>1 DEF WriteTmp
        <4> QED
          BY <1>t, <3>1, <3>2, <4>1 DEF Types, Read, Inodes
      <3> QED
        BY <1>1, <2>4, <3>3 DEF WriteTmp, Labels
    <2> QED
      BY <1>2, <2>1, <2>2, <2>3, <2>4
  <1>3. ASSUME NEW r \in Runs, Replace(r) PROVE Goal
    <2>1. /\ pc[r] = "written" /\ tmp # 0 /\ tmp \in whole
          /\ content[tmp] = table[r] /\ table[r] = Incremented(Read, digest[r])
          /\ digest[r] \in Digests /\ checks[r] = 0
      BY <1>t, <1>3 DEF Replace, Holds, Types
    <2>2. /\ ledger' = tmp /\ pc' = [pc EXCEPT ![r] = "recorded"]
          /\ UNCHANGED <<content, whole, digest, table, checks>>
      BY <1>3, <2>1 DEF Replace
    <2>3. Read' = Incremented(Read, digest[r])
      BY <2>1, <2>2 DEF Read
    <2>4. table[r][digest[r]] = Read[digest[r]] + 1
      BY <2>1, IncrementedTable, ReadTable DEF SerialInv
    <2>5. Due' = [Due EXCEPT ![r] = Read[digest[r]] + 1]
      BY <1>t, <2>2, <2>4 DEF Due, Types
    <2>6. Due[r] = 0
      BY <2>1 DEF Due
    <2>7. PICK t \in Digests : t = digest[r]
      BY <2>1
    <2>8. Counter!Look(r, t)
      BY <2>1, <2>2, <2>3, <2>5, <2>6, <2>7
      DEF Counter!Look, Due, Incremented
    <2> QED
      BY <2>8 DEF Counter!Next
  <1>4. ASSUME NEW r \in Runs, pc[r] = "recorded",
               pc' = [pc EXCEPT ![r] = "done"], Read' = Read,
               checks' \in {checks, [checks EXCEPT ![r] = table[r][digest[r]]]},
               UNCHANGED <<digest, table>>
        PROVE  Goal
    <2>1. Due[r] = table[r][digest[r]] /\ Due[r] # 0
      BY <1>4, <1>t DEF Due, Holds
    <2>2. Due' = [Due EXCEPT ![r] = 0]
      BY <1>4, <1>t DEF Due, Types
    <2>3. Counter!Settle(r)
      BY <1>4, <2>1, <2>2 DEF Counter!Settle, Due
    <2> QED
      BY <2>3 DEF Counter!Next
  <1>5. ASSUME NEW r \in Runs, Certify(r) PROVE Goal
    BY <1>4, <1>5 DEF Certify, Read
  <1>6. ASSUME NEW r \in Runs, Abort(r) PROVE Goal
    <2>1. /\ pc' = [pc EXCEPT ![r] = "done"] /\ Read' = Read
          /\ UNCHANGED <<digest, table, checks>>
      BY <1>6 DEF Abort, Read
    <2>2. CASE pc[r] = "recorded"
      BY <1>4, <2>1, <2>2
    <2>3. CASE pc[r] # "recorded"
      BY <1>1, <2>1, <2>3 DEF Labels
    <2> QED
      BY <2>2, <2>3
  <1>7. CASE UNCHANGED vars
    BY <1>7, QuietCounts DEF vars, Read, Due
  <1> QED
    BY <1>2, <1>3, <1>5, <1>6, <1>7 DEF Next, Step

\* A ledger that one run at a time writes, in five steps any of which may be
\* its last, is a counter that every look increments at once.
THEOREM SerialIsCounter == ~Overlap /\ Spec => ImplementsCounter
  <1> SUFFICES ASSUME ~Overlap PROVE Spec => ImplementsCounter
    OBVIOUS
  <1>1. SerialInv /\ [Next]_vars => SerialInv'
    BY StepSerial
  <1>2. SerialInv /\ [Next]_vars => [Counter!Next]_(Counter!counterVars)
    BY StepCounts
  <1> QED
    BY <1>1, <1>2, InitSerial, InitCounts, PTL
    DEF Spec, ImplementsCounter, Counter!Spec

-----------------------------------------------------------------------------
(* Types, whether runs overlap or not *)

\* A run opens the temporary file once, and has it open from then on.
OpensOnce ==
    \A r \in Runs :
        /\ pc[r] \in {"idle", "predicted", "counted"} => handle[r] = 0
        /\ pc[r] \in {"opened", "written"} => handle[r] # 0

LedgerTypes == TypeOK /\ OpensOnce

\* However many runs have a temporary file open, an inode is unused when one
\* more run opens one: a run has one open at most and that run none.
LEMMA UnusedIsThere ==
    ASSUME LedgerTypes, NEW r \in Runs, handle[r] = 0, tmp = 0
    PROVE  Unused \in Inodes /\ Unused # 0
  <1>t. /\ ledger \in Inodes \cup {0}
        /\ handle \in [Runs -> Inodes \cup {0}]
    BY DEF LedgerTypes, TypeOK
  <1>r. IsFiniteSet(Runs) /\ Cardinality(Runs) \in Nat
    BY PeekLedgerAssumption, FS_CardinalityType DEF PeekLedgerAssumption
  <1> DEFINE h == [s \in Runs |-> IF s = r THEN ledger ELSE handle[s]]
             U == {h[s] : s \in Runs}
  <1>1. IsFiniteSet(U) /\ Cardinality(U) <= Cardinality(Runs)
    <2>1. h \in Surjection(Runs, U)
      BY DEF Surjection
    <2> HIDE DEF U, h
    <2> QED
      BY <2>1, <1>r, FS_Surjection
  <1>2. Cardinality(Inodes) = Cardinality(Runs) + 1 /\ IsFiniteSet(Inodes)
    <2>1. /\ 1 \in Int /\ Cardinality(Runs) + 1 \in Int
          /\ ~(1 > Cardinality(Runs) + 1)
      BY <1>r
    <2> QED
      BY <2>1, FS_Interval, <1>r DEF Inodes
  <1>3. PICK i \in Inodes : i \notin U
    <2> SUFFICES ASSUME Inodes \subseteq U PROVE FALSE
      OBVIOUS
    <2> HIDE DEF U
    <2>1. Cardinality(Inodes) <= Cardinality(U)
      BY <1>1, FS_Subset
    <2>2. Cardinality(U) \in Nat
      BY <1>1, FS_CardinalityType
    <2> QED
      BY <1>1, <1>2, <2>1, <2>2, <1>r
  <1>z. 0 \notin Inodes
    BY <1>r DEF Inodes
  <1>4. i # 0 /\ i # ledger
    BY <1>3, <1>z
  <1>5. i \notin {ledger, tmp} /\ \A s \in Active : handle[s] # i
    BY <1>3, <1>4 DEF Active
  <1>6. Unused \in Inodes
    BY <1>3, <1>5 DEF Unused
  <1> QED
    BY <1>6, <1>z

LEMMA InitTypes == Init => LedgerTypes
  <1> SUFFICES ASSUME Init PROVE LedgerTypes
    OBVIOUS
  <1>1. TypeOK
    BY EmptyTable DEF Init, TypeOK, Labels, Active
  <1>2. OpensOnce
    BY DEF Init, OpensOnce
  <1> QED
    BY <1>1, <1>2 DEF LedgerTypes

LEMMA StepTypes == LedgerTypes /\ [Next]_vars => LedgerTypes'
  <1> SUFFICES ASSUME LedgerTypes, [Next]_vars PROVE LedgerTypes'
    OBVIOUS
  <1> USE DEF Goto, disk
  <1>t. TypeOK /\ OpensOnce
    BY DEF LedgerTypes
  <1>z. 0 \notin Inodes
    <2>1. Cardinality(Runs) \in Nat
      BY PeekLedgerAssumption, FS_CardinalityType DEF PeekLedgerAssumption
    <2> QED
      BY <2>1 DEF Inodes
  <1>0. CASE UNCHANGED vars
    BY <1>t, <1>0 DEF vars, LedgerTypes, TypeOK, OpensOnce, Active
  <1>g. ASSUME NEW r \in Runs, NEW label \in Labels,
               pc' = [pc EXCEPT ![r] = label]
        PROVE  /\ pc' \in [Runs -> Labels] /\ pc'[r] = label
               /\ \A s \in Runs : s # r => pc'[s] = pc[s]
    BY <1>t, <1>g DEF TypeOK
  <1>1. ASSUME NEW r \in Runs, Predict(r) PROVE LedgerTypes'
    <2>1. /\ pc' = [pc EXCEPT ![r] = "predicted"] /\ pc[r] = "idle"
          /\ UNCHANGED <<disk, digest, table, handle, checks, recorded>>
      BY <1>1 DEF Predict
    <2>2. "predicted" \in Labels
      BY DEF Labels
    <2> QED
      BY <1>t, <1>g, <2>1, <2>2 DEF LedgerTypes, TypeOK, OpensOnce, Active
  <1>2. ASSUME NEW r \in Runs, ReadLedger(r) PROVE LedgerTypes'
    <2>1. /\ pc' = [pc EXCEPT ![r] = "counted"] /\ pc[r] = "predicted"
          /\ table' = [table EXCEPT ![r] = Incremented(Read, digest[r])]
          /\ UNCHANGED <<disk, digest, handle, checks, recorded>>
      BY <1>2 DEF ReadLedger
    <2>2. "counted" \in Labels
      BY DEF Labels
    <2>3. Read \in Tables /\ digest[r] \in Digests
      BY <1>t, EmptyTable DEF TypeOK, Read
    <2>4. /\ Incremented(Read, digest[r]) \in Tables
          /\ Incremented(Read, digest[r])[digest[r]] = Read[digest[r]] + 1
          /\ Read[digest[r]] \in Nat
      BY <2>3, IncrementedTable DEF Tables
    <2>5. /\ table' \in [Runs -> Tables] /\ table'[r][digest[r]] > 0
          /\ \A s \in Runs : s # r => table'[s] = table[s]
      BY <1>t, <2>1, <2>4 DEF TypeOK
    <2>6. \A s \in Active' : pc'[s] # "predicted" => table'[s][digest'[s]] > 0
      <3> SUFFICES ASSUME NEW s \in Runs, s \in Active', s # r,
                          pc'[s] # "predicted"
                   PROVE  table'[s][digest'[s]] > 0
        BY <2>1, <2>5 DEF Active
      <3>1. pc'[s] = pc[s] /\ s \in Active
        BY <1>g, <2>1, <2>2 DEF Active
      <3> QED
        BY <1>t, <2>1, <2>5, <3>1 DEF TypeOK
    <2> QED
      BY <1>t, <1>g, <2>1, <2>2, <2>5, <2>6 DEF LedgerTypes, TypeOK, OpensOnce
  <1>a. ASSUME NEW r \in Runs, NEW label \in Labels \ {"predicted"},
               pc' = [pc EXCEPT ![r] = label], r \in Active,
               pc[r] # "predicted" \/ label = "done", UNCHANGED <<table, digest>>
        PROVE  \A s \in Active' :
                 pc'[s] # "predicted" => table'[s][digest'[s]] > 0
    <2> SUFFICES ASSUME NEW s \in Active', pc'[s] # "predicted"
                 PROVE  table'[s][digest'[s]] > 0
      OBVIOUS
    <2>1. s \in Runs /\ (s # r => pc'[s] = pc[s]) /\ pc'[r] = label
      BY <1>a, <1>g DEF Active
    <2>2. s \in Active /\ pc[s] # "predicted"
      BY <1>a, <2>1 DEF Active
    <2> QED
      BY <1>t, <1>a, <2>2 DEF TypeOK
  <1>3. ASSUME NEW r \in Runs, OpenTmp(r) PROVE LedgerTypes'
    <2>1. /\ pc' = [pc EXCEPT ![r] = "opened"] /\ pc[r] = "counted"
          /\ UNCHANGED <<ledger, digest, table, checks, recorded>>
      BY <1>3 DEF OpenTmp
    <2>2. "opened" \in Labels \ {"predicted"} /\ r \in Active
      BY <2>1 DEF Labels, Active
    <2>3. PICK i \in Inodes : i = (IF tmp = 0 THEN Unused ELSE tmp)
      BY <1>t, <2>1, UnusedIsThere DEF TypeOK, OpensOnce
    <2>4. /\ tmp' = i /\ handle' = [handle EXCEPT ![r] = i]
          /\ content' = [content EXCEPT ![i] = Empty]
          /\ whole' = whole \ {i}
      BY <1>3, <2>3 DEF OpenTmp
    <2>5. /\ content' \in [Inodes -> Tables] /\ whole' \subseteq Inodes
          /\ handle' \in [Runs -> Inodes \cup {0}] /\ handle'[r] = i
          /\ \A s \in Runs : s # r => handle'[s] = handle[s]
      BY <1>t, <2>4, EmptyTable DEF TypeOK
    <2>6. OpensOnce'
      <3>1. /\ pc'[r] = "opened" /\ handle'[r] # 0
            /\ \A s \in Runs : s # r => pc'[s] = pc[s]
        BY <1>z, <1>g, <2>1, <2>2, <2>3, <2>5
      <3> QED
        BY <1>t, <2>5, <3>1 DEF OpensOnce
    <2>7. \A s \in Active' : pc'[s] # "predicted" => table'[s][digest'[s]] > 0
      BY <1>a, <2>1, <2>2
    <2> QED
      BY <1>t, <1>g, <2>1, <2>2, <2>4, <2>5, <2>6, <2>7 DEF LedgerTypes, TypeOK
  <1>4. ASSUME NEW r \in Runs, WriteTmp(r) PROVE LedgerTypes'
    <2>1. /\ pc' = [pc EXCEPT ![r] = "written"] /\ pc[r] = "opened"
          /\ UNCHANGED <<ledger, tmp, digest, table, handle, checks, recorded>>
      BY <1>4 DEF WriteTmp
    <2>2. "written" \in Labels \ {"predicted"} /\ r \in Active
      BY <2>1 DEF Labels, Active
    <2>3. handle[r] \in Inodes /\ table[r] \in Tables
      BY <1>t, <2>1 DEF TypeOK, OpensOnce
    <2>4. /\ content' \in [Inodes -> Tables] /\ whole' \subseteq Inodes
      BY <1>t, <1>4, <2>3 DEF TypeOK, WriteTmp
    <2>6. OpensOnce'
      BY <1>t, <1>g, <2>1, <2>2 DEF OpensOnce
    <2>7. \A s \in Active' : pc'[s] # "predicted" => table'[s][digest'[s]] > 0
      BY <1>a, <2>1, <2>2
    <2> QED
      BY <1>t, <1>g, <2>1, <2>2, <2>4, <2>6, <2>7 DEF LedgerTypes, TypeOK
  <1>5. ASSUME NEW r \in Runs, Replace(r) PROVE LedgerTypes'
    <2>1. PICK label \in {"done", "recorded"} :
            pc' = [pc EXCEPT ![r] = label]
      BY <1>5 DEF Replace
    <2>2. /\ pc[r] = "written" /\ ledger' \in {ledger, tmp}
          /\ tmp' \in {tmp, 0}
          /\ recorded' \in {recorded, Append(recorded, r)}
          /\ UNCHANGED <<content, whole, digest, table, handle, checks>>
      BY <1>5 DEF Replace
    <2>3. label \in Labels \ {"predicted"} /\ r \in Active
      BY <2>2 DEF Labels, Active
    <2>6. OpensOnce'
      BY <1>t, <1>g, <2>1, <2>2, <2>3 DEF OpensOnce
    <2>7. \A s \in Active' : pc'[s] # "predicted" => table'[s][digest'[s]] > 0
      BY <1>a, <2>1, <2>2, <2>3
    <2>8. recorded' \in Seq(Runs)
      <3>1. recorded \in Seq(Runs)
        BY <1>t DEF TypeOK
      <3> QED
        BY <2>2, <3>1
    <2>9. /\ {ledger, tmp}' \subseteq Inodes \union {0}
          /\ pc' \in [Runs -> Labels]
      BY <1>t, <2>1, <2>2, <2>3 DEF TypeOK
    <2> QED
      BY <1>t, <1>g, <2>2, <2>6, <2>7, <2>8, <2>9 DEF LedgerTypes, TypeOK
  <1>6. ASSUME NEW r \in Runs, Certify(r) PROVE LedgerTypes'
    <2>1. /\ pc' = [pc EXCEPT ![r] = "done"] /\ pc[r] = "recorded"
          /\ checks' = [checks EXCEPT ![r] = table[r][digest[r]]]
          /\ UNCHANGED <<disk, digest, table, handle, recorded>>
      BY <1>6 DEF Certify
    <2>2. "done" \in Labels \ {"predicted"} /\ r \in Active
      BY <2>1 DEF Labels, Active
    <2>3. table[r][digest[r]] \in Nat
      BY <1>t DEF TypeOK, Tables
    <2>4. checks' \in [Runs -> Nat]
      BY <1>t, <2>1, <2>3 DEF TypeOK
    <2>6. OpensOnce'
      BY <1>t, <1>g, <2>1, <2>2 DEF OpensOnce
    <2>7. \A s \in Active' : pc'[s] # "predicted" => table'[s][digest'[s]] > 0
      BY <1>a, <2>1, <2>2
    <2> QED
      BY <1>t, <1>g, <2>1, <2>2, <2>4, <2>6, <2>7 DEF LedgerTypes, TypeOK
  <1>7. ASSUME NEW r \in Runs, Abort(r) PROVE LedgerTypes'
    <2>1. /\ pc' = [pc EXCEPT ![r] = "done"] /\ r \in Active
          /\ UNCHANGED <<disk, digest, table, handle, checks, recorded>>
      BY <1>7 DEF Abort
    <2>2. "done" \in Labels \ {"predicted"}
      BY DEF Labels
    <2>6. OpensOnce'
      BY <1>t, <1>g, <2>1, <2>2 DEF OpensOnce
    <2>7. \A s \in Active' : pc'[s] # "predicted" => table'[s][digest'[s]] > 0
      BY <1>a, <2>1, <2>2
    <2> QED
      BY <1>t, <1>g, <2>1, <2>2, <2>6, <2>7 DEF LedgerTypes, TypeOK
  <1> QED
    BY <1>0, <1>1, <1>2, <1>3, <1>4, <1>5, <1>6, <1>7 DEF Next, Step

\* Every variable of the ledger and of its runs keeps its type, and a count
\* that a run carries is positive, also when runs overlap.
THEOREM LedgerTypeCorrect == Spec => []TypeOK
  <1>1. LedgerTypes => TypeOK
    BY DEF LedgerTypes
  <1> QED
    BY <1>1, InitTypes, StepTypes, PTL DEF Spec
=============================================================================
