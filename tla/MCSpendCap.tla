----------------------------- MODULE MCSpendCap -----------------------------
(* SpendCap with ceilings that two requests can reach. *)
EXTENDS SpendCap

CONSTANTS r1, r2, r3

\* Dollars run out before the counts do when both lanes are charged.
MCMaxCount == [k \in Kinds |-> IF k = "llm" THEN 2 ELSE 1]
MCUnit == [k \in Kinds |-> IF k = "llm" THEN 1 ELSE 2]
=============================================================================
