--------------------------- MODULE MCResumableRun ---------------------------
(* ResumableRun with two programs, so that champions may tie or be replaced. *)
EXTENDS ResumableRun, TLC

CONSTANTS p1, p2

Symmetry == Permutations(Programs)
=============================================================================
