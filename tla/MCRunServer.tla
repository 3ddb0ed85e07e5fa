---------------------------- MODULE MCRunServer ----------------------------
(* RunServer in two shapes: two runs that nobody streams and that emit no  *)
(* events of their own, where one is posted, pruned and cancelled beside   *)
(* the other; and one run read by two streams.  The runs of the first      *)
(* shape are alike, so that of two engines the first one polls.            *)
EXTENDS RunServer

CONSTANTS u1, u2, c1, c2

VARIABLE shape

ShapeInit ==
    /\ Init
    /\ shape \in {"runs", "streams"}
    /\ shape = "runs" /\ obeys[u2] => obeys[u1]
    /\ shape = "streams" => ~obeys[u2]

ShapeNext ==
    /\ Next
    /\ UNCHANGED shape
    /\ shape = "runs" =>
         /\ conn' = conn
         /\ \A r \in Runs : pc'[r] = pc[r] => put'[r] = put[r]
    /\ shape = "streams" => pc'[u2] = "absent"

ShapeSpec == ShapeInit /\ [][ShapeNext]_<<vars, shape>> /\ Fairness
=============================================================================
