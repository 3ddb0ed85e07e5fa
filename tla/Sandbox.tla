------------------------------- MODULE Sandbox -------------------------------
(***************************************************************************)
(* A candidate's code runs in a child process that has limits; the caller  *)
(* gets its predictions or an error.  The answer comes back in one of      *)
(* three ways:                                                             *)
(*   pipe    one message on a pipe (attestra/execution/sandbox.py,         *)
(*           vfplatform/authoring.py)                                      *)
(*   file    result.json, moved into place (vfplatform/authored_sandbox.py)*)
(*   stdout  preds.npy, then a status line (frontier/sandbox.py,           *)
(*           frontier/core/execution.py)                                   *)
(***************************************************************************)

VARIABLES
    way,      \* the way of the answer
    child,    \* "works", "answers", "leaves", "stuck" on its output, "gone"
    found,    \* what the candidate came to; "odd" is what np.load or list() of
              \* the caller refuse, as a predict that returns None leaves it
    garbled,  \* the child has printed bytes that are no text
    channel,  \* what has arrived: "empty", "part" of an answer, "ok", "odd",
              \* "error", two answers "mixed", or a status line that has "noise" after it
    caller,   \* "waits", "reads" or "back"
    killed,   \* the caller has killed the child
    cut,      \* the child was stopped by a limit or died
    given     \* what the caller returns or raises

sandboxVars ==
    <<way, child, found, garbled, channel, caller, killed, cut, given>>

SandboxInit ==
    /\ way \in {"pipe", "file", "stdout"}
    /\ child = "works"
    /\ found = "none"
    /\ garbled = FALSE
    /\ channel = "empty"
    /\ caller = "waits"
    /\ killed = FALSE
    /\ cut = FALSE
    /\ given = "none"

-----------------------------------------------------------------------------
(* The child *)

Compute ==
    /\ child = "works"
    /\ found' \in {"ok", "error"} \cup (IF way = "stdout" THEN {"odd"} ELSE {})
    /\ child' = "answers"
    /\ UNCHANGED <<way, garbled, channel, caller, killed, cut, given>>

\* A message larger than the pipe goes in parts, predictions are saved before
\* their status line; result.json is moved into place in one step.
AnswerInPart ==
    /\ child = "answers" /\ channel = "empty"
    /\ way # "file"
    /\ way = "stdout" => found # "error"
    /\ channel' = "part"
    /\ UNCHANGED <<way, child, found, garbled, caller, killed, cut, given>>

Answer ==
    /\ child = "answers"
    /\ channel = "part" \/ way # "stdout" \/ found = "error"
    /\ channel' = found
    /\ child' = "leaves"
    /\ UNCHANGED <<way, found, garbled, caller, killed, cut, given>>

\* The candidate, or a library it calls, prints past the text layer.
PrintBytes ==
    /\ way = "stdout" /\ child = "works"
    /\ garbled' = TRUE
    /\ UNCHANGED <<way, child, found, channel, caller, killed, cut, given>>

\* What the candidate prints at its exit comes after the status line.
Leave ==
    /\ child = "leaves"
    /\ child' = "gone"
    /\ \/ UNCHANGED channel
       \/ way = "stdout" /\ channel' = "noise"
    /\ UNCHANGED <<way, found, garbled, caller, killed, cut, given>>

\* The file's caller reads the child's output only after its end.
FillOutput ==
    /\ way = "file" /\ child = "works"
    /\ child' = "stuck"
    /\ UNCHANGED <<way, found, garbled, channel, caller, killed, cut, given>>

\* The handler of the CPU limit sends an answer of its own; on the pipe it may
\* come into the middle of the candidate's, and is not read after a whole one.
CpuLimit ==
    /\ child \in {"works", "answers", "leaves"}
    /\ channel' = CASE way = "file" -> "error"
                    [] way = "pipe" /\ channel = "empty" -> "error"
                    [] way = "pipe" /\ channel = "part" -> "mixed"
                    [] OTHER -> channel
    /\ child' = "gone"
    /\ cut' = TRUE
    /\ UNCHANGED <<way, found, garbled, caller, killed, given>>

\* Out of memory, the hard limit, a crash.
ChildDies ==
    /\ child # "gone"
    /\ child' = "gone"
    /\ cut' = TRUE
    /\ UNCHANGED <<way, found, garbled, channel, caller, killed, given>>

-----------------------------------------------------------------------------
(* The caller *)

\* poll ends at the first bytes; the other callers wait for the end.
Wake ==
    /\ caller = "waits"
    /\ child = "gone" \/ (way = "pipe" /\ channel # "empty")
    /\ caller' = "reads"
    /\ UNCHANGED <<way, child, found, garbled, channel, killed, cut, given>>

\* communicate() decodes all that was printed.
Undecodable == way = "stdout" /\ garbled

\* The wall clock, or the watch on its memory: an answer that has come to a
\* file or to the output meanwhile is not looked at, but the output is decoded.
KillChild ==
    /\ caller = "waits"
    /\ way # "pipe" \/ (channel = "empty" /\ child # "gone")
    /\ child' = "gone"
    /\ killed' = TRUE
    /\ given' = IF Undecodable THEN "raised" ELSE "error"
    /\ caller' = "back"
    /\ UNCHANGED <<way, found, garbled, channel, cut>>

\* Slip: predictions that are there are taken without their status.
SlipWholeAnswer == channel = "ok" \/ (way = "stdout" /\ channel = "part")

WholeAnswer == channel = "ok" /\ ~Undecodable

\* recv has no limit and catches EOFError, which only an end before the first
\* byte raises; the file's caller turns whatever it finds into an error; the
\* output is decoded and the predictions are unpacked outside any try, unless
\* the caller is RemotePodExecutor, whose try is around it all.
Answers ==
    CASE WholeAnswer -> {"ok"}
      [] way = "pipe" /\ channel \in {"part", "mixed"} -> {"raised"}
      [] Undecodable \/ channel = "odd" -> {"raised", "error"}
      [] OTHER -> {"error"}

ReadAnswer ==
    /\ caller = "reads"
    /\ child = "gone" \/ channel \in {"ok", "error"}
    /\ given' \in Answers
    /\ child' = "gone"
    /\ caller' = "back"
    /\ UNCHANGED <<way, found, garbled, channel, killed, cut>>

SandboxNext ==
    \/ Compute \/ AnswerInPart \/ Answer \/ PrintBytes \/ Leave
    \/ FillOutput \/ CpuLimit \/ ChildDies
    \/ Wake \/ KillChild \/ ReadAnswer

SandboxSpec == SandboxInit /\ [][SandboxNext]_sandboxVars

-----------------------------------------------------------------------------
(* Properties *)

\* The variables keep their types.
SandboxTypeOK ==
    /\ way \in {"pipe", "file", "stdout"}
    /\ child \in {"works", "answers", "leaves", "stuck", "gone"}
    /\ found \in {"none", "ok", "odd", "error"}
    /\ garbled \in BOOLEAN
    /\ channel \in {"empty", "part", "ok", "odd", "error", "mixed", "noise"}
    /\ caller \in {"waits", "reads", "back"}
    /\ killed \in BOOLEAN /\ cut \in BOOLEAN
    /\ given \in {"none", "ok", "error", "raised"}

\* However the child is stopped between two of its steps, what the caller takes
\* for predictions is the whole of what the candidate came to; predictions that
\* the candidate came to are lost only when the child was stopped or has
\* written over its status; and the call raises only over a pipe whose child
\* was cut off, or over an output or predictions that cannot be read.
AnswersAreWhole ==
    /\ given = "ok" => found = "ok" /\ channel = "ok" /\ ~killed
    /\ given = "error" /\ found = "ok" =>
         killed \/ cut \/ garbled \/ channel = "noise"
    /\ given = "raised" => \/ way = "pipe" /\ cut
                           \/ way = "stdout" /\ (garbled \/ found = "odd")

\* attestra/execution/sandbox.py on run_sandboxed, which reads from a pipe:
\* "Never raises."
NeverRaises == way = "pipe" => given # "raised"
=============================================================================
