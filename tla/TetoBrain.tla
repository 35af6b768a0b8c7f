------------------------------ MODULE TetoBrain ------------------------------
(***************************************************************************)
(* teto-brain's loop (main.rs): takes a request, has the backend infer who *)
(* speaks, pushes the answer.  The request is in the process alone while   *)
(* the backend works.                                                      *)
(***************************************************************************)
EXTENDS ControllerState

TakeRequest ==
    /\ brainJob = NoJob
    /\ brainQueue # <<>>
    /\ brainJob' = Popped(brainQueue)
    /\ brainQueue' = AfterPop(brainQueue)
    /\ UNCHANGED <<stream, cursor, pel, resolutions, memory, listenerVars,
                   pending, resolverVars, liveVars, buffered, upserted,
                   faults>>

\* What the backend may answer.  The regex engine keeps the session; it may
\* name any speaker a line of the transcript tags, requested or not.  A
\* command's output is taken as is.
MayAnswer(request) ==
    {response \in [session : Session, names : Answers] :
        CommandBackend \/ response.session = request.session}

\* Mutant: an answer that names nobody is not pushed.
AnswerIfNamed ==
    /\ brainJob # NoJob
    /\ \E response \in MayAnswer(brainJob) :
          resolutions' = IF NamedBy(response.names) = {} THEN resolutions
                         ELSE LPush(resolutions, response)
    /\ brainJob' = NoJob
    /\ UNCHANGED <<stream, cursor, pel, brainQueue, memory, listenerVars,
                   pending, resolverVars, liveVars, buffered, upserted,
                   faults>>

AnswerRequest ==
    /\ brainJob # NoJob
    /\ \E response \in MayAnswer(brainJob) :
          resolutions' = LPush(resolutions, response)
    /\ brainJob' = NoJob
    /\ UNCHANGED <<stream, cursor, pel, brainQueue, memory, listenerVars,
                   pending, resolverVars, liveVars, buffered, upserted,
                   faults>>

BrainStep == TakeRequest \/ AnswerRequest

\* BRPOP's reply is lost, the request does not decode, the backend fails,
\* LPUSH fails, or the process restarts: the request is gone.
BrainFault ==
    /\ brainJob # NoJob
    /\ brainJob' = NoJob
    /\ Fault
    /\ UNCHANGED <<redisVars, memory, listenerVars, pending, resolverVars,
                   liveVars, buffered, upserted>>

=============================================================================
