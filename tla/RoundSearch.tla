---------------------------- MODULE RoundSearch ----------------------------
(***************************************************************************)
(* A search by rounds that nothing interrupts.  Rounds end one after the   *)
(* other, each with a champion that is as good as the one before, and a    *)
(* look at the sealed test is a look at the champion of the rounds that    *)
(* have ended.                                                             *)
(***************************************************************************)
EXTENDS Integers

CONSTANTS Rounds,      \* the rounds a search may have
          Champions,   \* programs with their scores
          NoChampion   \* no candidate has run yet; scored below them all

VARIABLES finished,    \* the rounds that have ended
          champion,    \* the best candidate of those rounds
          looked       \* champions that were looked at on the sealed test

searchVars == <<finished, champion, looked>>

Init ==
    /\ finished = {}
    /\ champion = NoChampion
    /\ looked = {}

\* The next round ends.
EndRound ==
    /\ \E r \in Rounds :
          /\ finished = {q \in Rounds : q < r}
          /\ finished' = finished \union {r}
    /\ \/ champion' = champion
       \/ /\ champion' \in Champions
          /\ champion'.score > champion.score
    /\ UNCHANGED looked

Look ==
    /\ champion # NoChampion
    /\ looked' = looked \union {champion}
    /\ UNCHANGED <<finished, champion>>

Next == EndRound \/ Look

Spec == Init /\ [][Next]_searchVars
=============================================================================
