-------------------------- MODULE GenerativeEngine --------------------------
(***************************************************************************)
(* attestra/cycle/generative.py: the generative engine grows a tree of     *)
(* solutions an LLM writes.  A round takes the best two solutions there    *)
(* are when it begins, and may write a solution from the literature,       *)
(* improve the first, branch from the second and merge the two; each of    *)
(* these asks the LLM, and gets a solution, a broken one or none.          *)
(*                                                                         *)
(* The health monitor is told the best score of each round and never an    *)
(* error, so that (BestNeverDrops) only the time can make it abort.        *)
(***************************************************************************)
EXTENDS Integers, Sequences

CONSTANTS MaxTurns,     \* max_rounds
          TreeScores,   \* validation scores
          TreeGoal      \* the score above which the search stops early

ASSUME TreeAssumption ==
    /\ MaxTurns \in Nat
    /\ TreeScores \subseteq Int
    /\ TreeGoal \in Int

\* A Solution; its id is its place in the tree, which keeps the order of
\* insertion.  Parents and generations are written down and never read.
Solutions == [ok : {TRUE}, score : TreeScores] \cup [ok : {FALSE}, score : {0}]

VARIABLES
    gstep,      \* where the engine is in its round
    turn,       \* round_num
    tree,       \* the nodes of the tree
    top,        \* the best two solutions when the round began
    outOfTime,  \* the time budget is used up
    sealed      \* ids whose predictions the sealed rows have scored

treeVars == <<gstep, turn, tree, top, outOfTime, sealed>>

TreeInit ==
    /\ gstep = "seed"
    /\ turn = 0
    /\ tree = <<>>
    /\ top = <<>>
    /\ outOfTime = FALSE
    /\ sealed = <<>>

Nodes == 1..Len(tree)
Sound == {i \in Nodes : tree[i].ok}

\* The stable sort by score: the earlier of two equals comes first.
Before(i, j) ==
    \/ tree[i].score > tree[j].score
    \/ tree[i].score = tree[j].score /\ i < j

First(S) == CHOOSE i \in S : \A j \in S \ {i} : Before(i, j)

\* tree.best(top_k), of which a round uses two.
BestTwo ==
    IF Sound = {} THEN <<>>
    ELSE IF Sound = {First(Sound)} THEN <<First(Sound)>>
    ELSE <<First(Sound), First(Sound \ {First(Sound)})>>

\* Slip: the oldest solution is pruned from a tree of four.
SlipGrown(s) == Append(IF Len(tree) < 4 THEN tree ELSE Tail(tree), s)

Grown(s) == Append(tree, s)

\* The LLM is asked for a solution; it answers with one that runs and gets
\* its score, with one that is kept as failed, or with nothing of use.
Ask == tree' \in {tree} \cup {Grown(s) : s \in Solutions}

-----------------------------------------------------------------------------
(* Seeds and rounds *)

\* A deterministic baseline and the LLM's own first try, if it has one.
Seed(next) ==
    /\ \E s, t \in Solutions :
         tree' \in {Append(tree, s), Append(Append(tree, s), t)}
    /\ gstep' = next

FirstSeeds ==
    /\ gstep = "seed"
    /\ Seed("head")
    /\ UNCHANGED <<turn, top, outOfTime, sealed>>

MoreSeeds ==
    /\ gstep = "head"
    /\ turn < MaxTurns
    /\ ~outOfTime
    /\ Sound = {}
    /\ Seed("head")
    /\ turn' = turn + 1
    /\ UNCHANGED <<top, outOfTime, sealed>>

BeginTurn ==
    /\ gstep = "head"
    /\ turn < MaxTurns
    /\ ~outOfTime
    /\ Sound # {}
    /\ tree[First(Sound)].score <= TreeGoal
    /\ top' = BestTwo
    /\ gstep' = IF turn % 4 = 0 THEN "literature" ELSE "improve"
    /\ UNCHANGED <<turn, tree, outOfTime, sealed>>

LeaveTurns ==
    /\ gstep = "head"
    /\ \/ turn = MaxTurns
       \/ outOfTime
       \/ Sound # {} /\ tree[First(Sound)].score > TreeGoal
    /\ gstep' = "certify"
    /\ UNCHANGED <<turn, tree, top, outOfTime, sealed>>

FromLiterature ==
    /\ gstep = "literature"
    /\ Ask
    /\ gstep' = "improve"
    /\ UNCHANGED <<turn, top, outOfTime, sealed>>

\* The best when the round began is improved, whatever the literature gave.
Improve ==
    /\ gstep = "improve"
    /\ Ask
    /\ gstep' = "branch"
    /\ UNCHANGED <<turn, top, outOfTime, sealed>>

Branch ==
    /\ gstep = "branch"
    /\ IF Len(top) = 2 /\ turn % 3 = 0 THEN Ask ELSE UNCHANGED tree
    /\ gstep' = "merge"
    /\ UNCHANGED <<turn, top, outOfTime, sealed>>

Merge ==
    /\ gstep = "merge"
    /\ IF Len(top) = 2 /\ turn % 5 = 2 THEN Ask ELSE UNCHANGED tree
    /\ turn' = turn + 1
    /\ gstep' = "head"
    /\ top' = <<>>
    /\ UNCHANGED <<outOfTime, sealed>>

TimeRunsOut ==
    /\ gstep \notin {"certify", "certified"}
    /\ ~outOfTime
    /\ outOfTime' = TRUE
    /\ UNCHANGED <<gstep, turn, tree, top, sealed>>

\* The sandbox runs the winner on the sealed rows; a winner it refuses or
\* that fails leaves no certificate.
CertifyBest ==
    /\ gstep = "certify"
    /\ sealed' \in {sealed} \cup
         (IF Sound = {} THEN {} ELSE {Append(sealed, First(Sound))})
    /\ gstep' = "certified"
    /\ UNCHANGED <<turn, tree, top, outOfTime>>

TreeNext ==
    \/ FirstSeeds \/ MoreSeeds \/ BeginTurn \/ LeaveTurns \/ FromLiterature
    \/ Improve \/ Branch \/ Merge \/ TimeRunsOut \/ CertifyBest

TreeSpec == TreeInit /\ [][TreeNext]_treeVars

-----------------------------------------------------------------------------
(* Properties *)

Peak == IF Sound = {} THEN 0 ELSE tree[First(Sound)].score

\* The best solution of the tree, the only score the monitor is told, never
\* gets worse, whatever the LLM writes: the monitor sees no divergence, and
\* what the sealed rows are asked about is the best there ever was.
BestNeverDrops ==
    [][/\ Sound # {} => Sound' # {} /\ Peak' >= Peak
       /\ sealed' # sealed => tree'[sealed'[1]].score = Peak]_treeVars
=============================================================================
