------------------------------ MODULE MCWebApp ------------------------------
(* The web app: a behaviour is one of the runs and their streams, in one   *)
(* of the two shapes of MCRunServer, or one of the daily ceilings and the  *)
(* requests that charge them; the other part stays as it began.            *)
EXTENDS MCRunServer, MCSpendCap

WebInit ==
    /\ Init
    /\ CapInit
    /\ shape \in {"runs", "streams", "charges"}
    /\ shape = "runs" /\ obeys[u2] => obeys[u1]
    /\ shape = "streams" => ~obeys[u2]
    /\ shape = "charges" => \A u \in Runs : ~obeys[u]
    /\ shape # "charges" =>
        \A r \in Requests : ~useLlm[r] /\ ~useGpu[r]

WebNext ==
    \/ shape # "charges" /\ ShapeNext /\ UNCHANGED capVars
    \/ shape = "charges" /\ CapNext /\ UNCHANGED <<vars, shape>>

\* Each part is fair as its module says.
Charging(r) == shape = "charges" /\ CapThread(r)
Running(u) == shape # "charges" /\ Thread(u)
Streaming(c) == shape # "charges" /\ Handler(c)

WebSpec ==
    /\ WebInit
    /\ [][WebNext]_<<vars, shape, capVars>>
    /\ \A r \in Requests : WF_capVars(Charging(r))
    /\ \A u \in Runs : WF_vars(Running(u))
    /\ \A c \in Readers : WF_vars(Streaming(c))

\* The variables of both parts keep their types.
WebTypeOK == TypeOK /\ CapTypeOK
=============================================================================
