----------------------------- MODULE PeekLedger -----------------------------
(***************************************************************************)
(* The durable count of looks at a locked test (PeekLedger and             *)
(* certify_on_sealed in vfplatform/sealed.py), shared as one JSON file by  *)
(* the goal runs that certify on it.  record() is read, truncate a         *)
(* temporary file of a fixed name, write it, rename it over the ledger.    *)
(* Runs are processes of their own and may die between any two steps.      *)
(***************************************************************************)
EXTENDS Integers, Sequences, FiniteSets

CONSTANTS Runs,       \* goal runs that reach their certificate
          Digests,    \* the locked tests they certify on
          Overlap     \* whether two runs may be in the ledger at a time

Inodes == 1..(Cardinality(Runs) + 1)

ASSUME PeekLedgerAssumption ==
    /\ IsFiniteSet(Runs)
    /\ IsFiniteSet(Digests)
    /\ Overlap \in BOOLEAN

\* A parsed ledger; a digest it does not list counts 0.
Tables == [Digests -> Nat]
Empty == [d \in Digests |-> 0]

VARIABLES
    ledger,     \* the inode the ledger's name points to, or 0
    tmp,        \* the inode of ledger + ".tmp", or 0
    content,    \* the longest table written to each inode since its truncation
    whole,      \* the inodes whose text parses
    pc,         \* where each run is
    digest,     \* the locked test of each run
    table,      \* d, the table a run read and incremented
    handle,     \* the inode a run has open for writing
    checks,     \* multiplicity its certificate paid, 0 before
    recorded    \* the runs whose look was renamed into the ledger, in order

disk == <<ledger, tmp, content, whole>>
vars == <<disk, pc, digest, table, handle, checks, recorded>>

Init ==
    /\ ledger = 0
    /\ tmp = 0
    /\ content = [i \in Inodes |-> Empty]
    /\ whole = {}
    /\ pc = [r \in Runs |-> "idle"]
    /\ digest \in [Runs -> Digests]
    /\ table = [r \in Runs |-> Empty]
    /\ handle = [r \in Runs |-> 0]
    /\ checks = [r \in Runs |-> 0]
    /\ recorded = <<>>

Goto(r, label) == pc' = [pc EXCEPT ![r] = label]
Active == {r \in Runs : pc[r] \notin {"idle", "done"}}

-----------------------------------------------------------------------------
(* certify_on_sealed *)

\* The one evaluation of the sealed rows; a count of another length than the
\* rows is refused only after the look has been recorded.
Predict(r) ==
    /\ pc[r] = "idle"
    /\ Overlap \/ Active = {}
    /\ Goto(r, "predicted")
    /\ UNCHANGED <<disk, digest, table, handle, checks, recorded>>

\* _read: no ledger, or one that does not parse, counts nothing.
Read == IF ledger \in whole THEN content[ledger] ELSE Empty

\* Slip: the look is not added.
SlipUncounted(t, d) == t

Incremented(t, d) == [t EXCEPT ![d] = @ + 1]

ReadLedger(r) ==
    /\ pc[r] = "predicted"
    /\ table' = [table EXCEPT ![r] = Incremented(Read, digest[r])]
    /\ Goto(r, "counted")
    /\ UNCHANGED <<disk, digest, handle, checks, recorded>>

Unused == CHOOSE i \in Inodes : /\ i \notin {ledger, tmp}
                                /\ \A r \in Active : handle[r] # i

\* open(tmp, "w"): a file left there, by whomever, is truncated and shared.
OpenTmp(r) ==
    /\ pc[r] = "counted"
    /\ LET i == IF tmp = 0 THEN Unused ELSE tmp
       IN  /\ tmp' = i
           /\ handle' = [handle EXCEPT ![r] = i]
           /\ content' = [content EXCEPT ![i] = Empty]
           /\ whole' = whole \ {i}
    /\ Goto(r, "opened")
    /\ UNCHANGED <<ledger, digest, table, checks, recorded>>

\* How many digests a table lists, which decides the length of its text.
Listed(t) == Cardinality({d \in Digests : t[d] > 0})

\* The text goes to the start of the file; what a longer text left stays.
WriteTmp(r) ==
    /\ pc[r] = "opened"
    /\ LET i == handle[r]
       IN  IF Listed(content[i]) > Listed(table[r])
           THEN whole' = whole \ {i} /\ UNCHANGED content
           ELSE /\ whole' = whole \union {i}
                /\ content' = [content EXCEPT ![i] = table[r]]
    /\ Goto(r, "written")
    /\ UNCHANGED <<ledger, tmp, digest, table, handle, checks, recorded>>

\* Slip: the written file is never renamed over the ledger.
SlipReplace(r) ==
    /\ pc[r] = "written"
    /\ Goto(r, "recorded")
    /\ UNCHANGED <<disk, digest, table, handle, checks, recorded>>

\* os.replace, or FileNotFoundError when another run renamed the file first.
Replace(r) ==
    /\ pc[r] = "written"
    /\ IF tmp = 0
       THEN Goto(r, "done") /\ UNCHANGED <<ledger, tmp, recorded>>
       ELSE /\ ledger' = tmp
            /\ tmp' = 0
            /\ recorded' = Append(recorded, r)
            /\ Goto(r, "recorded")
    /\ UNCHANGED <<content, whole, digest, table, handle, checks>>

\* Slip: the certificate pays for the look of this run only.
SlipCertify(r) ==
    /\ pc[r] = "recorded"
    /\ checks' = [checks EXCEPT ![r] = 1]
    /\ Goto(r, "done")
    /\ UNCHANGED <<disk, digest, table, handle, recorded>>

\* The certificate is computed with checks = the recorded count.
Certify(r) ==
    /\ pc[r] = "recorded"
    /\ checks' = [checks EXCEPT ![r] = table[r][digest[r]]]
    /\ Goto(r, "done")
    /\ UNCHANGED <<disk, digest, table, handle, recorded>>

\* The run dies or raises: nothing it has not renamed counts.
Abort(r) ==
    /\ r \in Active
    /\ Goto(r, "done")
    /\ UNCHANGED <<disk, digest, table, handle, checks, recorded>>

Step(r) ==
    \/ Predict(r)
    \/ ReadLedger(r)
    \/ OpenTmp(r)
    \/ WriteTmp(r)
    \/ Replace(r)
    \/ Certify(r)
    \/ Abort(r)

Next == \E r \in Runs : Step(r)

Spec == Init /\ [][Next]_vars

-----------------------------------------------------------------------------
(* Properties *)

Labels == {"idle", "predicted", "counted", "opened", "written", "recorded",
           "done"}

TypeOK ==
    /\ {ledger, tmp} \subseteq Inodes \union {0}
    /\ content \in [Inodes -> Tables]
    /\ whole \subseteq Inodes
    /\ pc \in [Runs -> Labels]
    /\ digest \in [Runs -> Digests]
    /\ table \in [Runs -> Tables]
    /\ \A r \in Active : pc[r] # "predicted" => table[r][digest[r]] > 0
    /\ handle \in [Runs -> Inodes \union {0}]
    /\ checks \in [Runs -> Nat]
    /\ recorded \in Seq(Runs)

\* The looks at test d among the first n that were recorded.
LooksAt(d, n) == {i \in 1..n : digest[recorded[i]] = d}

\* A certificate pays for exactly the looks at its locked test that were
\* recorded up to its own, those of runs that died after recording included
\* (sealed.py: re-running a goal must not launder the correction).  A run that
\* dies between its evaluation and the rename has recorded nothing: its look is
\* paid by nobody, although sealed.py:55 speaks of every historical look.
EveryLookPaid ==
    \A j \in 1..Len(recorded) :
        checks[recorded[j]] \in
            {0, Cardinality(LooksAt(digest[recorded[j]], j))}

\* The ledger never forgets a look that it has counted, of any test.
NeverForgets ==
    [][\A d \in Digests : Read[d] <= Read'[d]]_vars

\* A ledger used by one run at a time is an atomic counter.
Counter == INSTANCE PeekCounter WITH
    Looks <- Runs,
    Tests <- Digests,
    counter <- Read,
    due <- [r \in Runs |-> IF pc[r] = "recorded" THEN table[r][digest[r]]
                           ELSE 0],
    price <- checks

ImplementsCounter == Counter!Spec
=============================================================================
