---------------------------- MODULE MCPeekLedger ----------------------------
(* PeekLedger with a few runs on two locked tests. *)
EXTENDS PeekLedger, TLC

CONSTANTS g1, g2, g3, g4, testA, testB

Symmetry == Permutations(Runs) \union Permutations(Digests)
=============================================================================
