---------------------------- MODULE ModelServing ----------------------------
(***************************************************************************)
(* vfplatform/serving.py, ModelRegistry: the versions of one experiment as *)
(* directories and the CURRENT pointer to the one that is served.  Goal    *)
(* runs register their certified winners, an operator rolls back; each may *)
(* die between any two file operations.                                    *)
(***************************************************************************)

CONSTANTS Versions,  \* the versions goal runs register, one each
          NoVersion  \* an empty CURRENT, or none

ASSUME ModelServingAssumption == NoVersion \notin Versions

VARIABLES
    reg,       \* where each registration is
    dirs,      \* versions that have a directory
    models,    \* versions whose model.pkl is complete
    current,   \* the content of CURRENT
    opener,    \* the version a rollback is writing to CURRENT, or NoVersion
    returned,  \* versions whose register has returned
    cutOff,    \* a death left CURRENT empty
    astray     \* a rollback has gone to a version without a complete model

serveVars == <<reg, dirs, models, current, opener, returned, cutOff, astray>>

ServeInit ==
    /\ reg = [v \in Versions |-> "idle"]
    /\ dirs = {}
    /\ models = {}
    /\ current = NoVersion
    /\ opener = NoVersion
    /\ returned = {}
    /\ cutOff = FALSE
    /\ astray = FALSE

Registering == {v \in Versions : reg[v] \notin {"idle", "done"}}
At(v, label) == reg' = [reg EXCEPT ![v] = label]

-----------------------------------------------------------------------------
(* register *)

\* A winner that is certified and has a local estimator gets a directory; any
\* other is refused before anything is written.
MakeVersion(v) ==
    /\ reg[v] = "idle"
    /\ dirs' = dirs \cup {v}
    /\ At(v, "model")
    /\ UNCHANGED <<models, current, opener, returned, cutOff, astray>>

\* Slip: the pointer is advanced as soon as there is a directory.
SlipPickled(v) == UNCHANGED models

Pickled(v) == models' = models \cup {v}

\* model.pkl, then meta.json and the line of _versions.jsonl, which nothing
\* reads to serve.
WriteModel(v) ==
    /\ reg[v] = "model"
    /\ Pickled(v)
    /\ At(v, "point")
    /\ UNCHANGED <<dirs, current, opener, returned, cutOff, astray>>

\* _set_current: CURRENT is emptied, then written.
EmptyCurrent(v) ==
    /\ reg[v] = "point"
    /\ current' = NoVersion
    /\ At(v, "emptied")
    /\ UNCHANGED <<dirs, models, opener, returned, cutOff, astray>>

WriteCurrent(v) ==
    /\ reg[v] = "emptied"
    /\ current' = v
    /\ returned' = returned \cup {v}
    /\ cutOff' = FALSE
    /\ astray' = FALSE
    /\ At(v, "done")
    /\ UNCHANGED <<dirs, models, opener>>

RegistrationDies(v) ==
    /\ v \in Registering
    /\ cutOff' = (cutOff \/ reg[v] = "emptied")
    /\ At(v, "done")
    /\ UNCHANGED <<dirs, models, current, opener, returned, astray>>

-----------------------------------------------------------------------------
(* rollback *)

\* A version is one that has a directory.
Rollback ==
    /\ opener = NoVersion
    /\ opener' \in dirs
    /\ current' = NoVersion
    /\ UNCHANGED <<reg, dirs, models, returned, cutOff, astray>>

FinishRollback ==
    /\ opener # NoVersion
    /\ current' = opener
    /\ astray' = (opener \notin models)
    /\ cutOff' = FALSE
    /\ opener' = NoVersion
    /\ UNCHANGED <<reg, dirs, models, returned>>

RollbackDies ==
    /\ opener # NoVersion
    /\ cutOff' = TRUE
    /\ opener' = NoVersion
    /\ UNCHANGED <<reg, dirs, models, current, returned, astray>>

ServeNext ==
    \/ \E v \in Versions :
          \/ MakeVersion(v) \/ WriteModel(v) \/ EmptyCurrent(v)
          \/ WriteCurrent(v) \/ RegistrationDies(v)
    \/ Rollback \/ FinishRollback \/ RollbackDies

ServeSpec == ServeInit /\ [][ServeNext]_serveVars

-----------------------------------------------------------------------------
(* Properties *)

ServeTypeOK ==
    /\ reg \in [Versions -> {"idle", "model", "point", "emptied", "done"}]
    /\ {dirs, models, returned} \subseteq SUBSET Versions
    /\ {current, opener} \subseteq Versions \cup {NoVersion}
    /\ {cutOff, astray} \subseteq BOOLEAN

\* predict without a pinned version: CURRENT names a version whose model
\* loads.
Serves == current \in models

\* CURRENT is being rewritten.
Rewriting == opener # NoVersion \/ \E v \in Versions : reg[v] = "emptied"

\* Once a registration has returned the experiment is served, through further
\* registrations that die anywhere and rollbacks beside them, except while
\* CURRENT is rewritten, after a death that left it empty, and after a
\* rollback to a version that was never finished.
StaysServed == returned # {} => Serves \/ Rewriting \/ cutOff \/ astray
=============================================================================
