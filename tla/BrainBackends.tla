---------------------------- MODULE BrainBackends -----------------------------
(***************************************************************************)
(* BrainBackend::infer of teto-brain for one request, with whichever of    *)
(* the two backends TETO_BRAIN_BACKEND selects.  TetoBrain uses of it that *)
(* the call may answer, fail, or not come back.                            *)
(***************************************************************************)
EXTENDS RegexIdentity, BrainCommand

vars == <<regexVars, commandVars>>

\* What a request says is nothing to the command's pipes.
AnyRequest == CHOOSE asked \in Request : TRUE

Init ==
    /\ request \in Request
    /\ \/ backend = "idle"
       \/ backend = "start" /\ request = AnyRequest
    /\ RegexInit
    /\ CommandInit

Regex   == backend = "idle" /\ RegexStep /\ UNCHANGED commandVars
Command == (BackendStep \/ ChildStep) /\ UNCHANGED regexVars

Next == Regex \/ Command

Spec == Init /\ [][Next]_vars

\* The brain's task runs; so does the command, which writes at most MaxOutput
\* and does not wait for anything but its pipes.
Fairness ==
    /\ WF_vars(Regex)
    /\ WF_vars(BackendStep /\ UNCHANGED regexVars)
    /\ WF_vars(ChildStep /\ UNCHANGED regexVars)

FairSpec == Spec /\ Fairness

-----------------------------------------------------------------------------
TypeOK == RegexTypeOK /\ CommandTypeOK

\* A command's answer is one to the whole request and is decoded from all it
\* wrote: output of a command that ended before it was sent the request is
\* not taken for an answer (wait_with_output after write_all).
AnswersAreWhole == backend = "answered" => collected = produced /\ unsent = 0

\* infer comes back, unless brain and command wait for each other: that is
\* the only way it hangs, and it takes a request larger than a pipe and a
\* command that writes more than a pipe holds before it has read it.
InferEnds ==
    <>(Inferred \/ backend \in {"answered", "failed"} \/ []CrossedPipes)

=============================================================================
