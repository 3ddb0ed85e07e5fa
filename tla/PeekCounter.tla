---------------------------- MODULE PeekCounter ----------------------------
(***************************************************************************)
(* What a peek ledger promises: a counter for each locked test that every  *)
(* look at the test increments in one step, and a price for each look that *)
(* is the value the counter had after it.                                  *)
(***************************************************************************)
EXTENDS Naturals

CONSTANTS Looks, Tests

VARIABLES counter,   \* looks at each test so far
          due,       \* multiplicity of a look that is counted and not priced
          price      \* multiplicity each look paid, 0 while it is open

counterVars == <<counter, due, price>>

Init ==
    /\ counter = [t \in Tests |-> 0]
    /\ due = [k \in Looks |-> 0]
    /\ price = [k \in Looks |-> 0]

\* A look at test t is counted.
Look(k, t) ==
    /\ due[k] = 0
    /\ price[k] = 0
    /\ counter' = [counter EXCEPT ![t] = @ + 1]
    /\ due' = [due EXCEPT ![k] = counter[t] + 1]
    /\ UNCHANGED price

\* The look pays its multiplicity, or breaks off and stays counted.
Settle(k) ==
    /\ due[k] # 0
    /\ due' = [due EXCEPT ![k] = 0]
    /\ price' \in {price, [price EXCEPT ![k] = due[k]]}
    /\ UNCHANGED counter

Next == \E k \in Looks : Settle(k) \/ \E t \in Tests : Look(k, t)

Spec == Init /\ [][Next]_counterVars
=============================================================================
