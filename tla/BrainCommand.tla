----------------------------- MODULE BrainCommand -----------------------------
(***************************************************************************)
(* CommandBrainBackend of teto-brain (main.rs): starts a command, writes   *)
(* the request to its standard input, closes that, and only then reads the *)
(* command's output until it has ended.  No timeout bounds any of it.      *)
(*                                                                         *)
(* The three pipes hold PipeCapacity units each; a write to a full pipe    *)
(* blocks.  The command is not part of the repository: it may read, write  *)
(* and end in any order, and goes on with one thing at a time.             *)
(***************************************************************************)
EXTENDS Naturals

CONSTANTS RequestSize, PipeCapacity, MaxOutput

ASSUME PipeAssumption ==
    /\ RequestSize \in Nat /\ MaxOutput \in Nat
    /\ PipeCapacity \in Nat \ {0}

Pipe == {"stdin", "stdout", "stderr"}

VARIABLES
    backend,   \* where infer is
    unsent,    \* what write_all has before it
    pipe,      \* units in each pipe
    child,     \* what the command is doing
    produced,  \* units the command has written to stdout and stderr
    collected  \* units of them the brain has read

commandVars == <<backend, unsent, pipe, child, produced, collected>>

CommandInit ==
    /\ unsent = RequestSize
    /\ pipe = [p \in Pipe |-> 0]
    /\ child = "not started"
    /\ produced = 0
    /\ collected = 0

\* TETO_BRAIN_COMMAND is started, or cannot be.
Spawn ==
    /\ backend = "start"
    /\ \/ backend' = "write" /\ child' = "choose"
       \/ backend' = "failed" /\ UNCHANGED child
    /\ UNCHANGED <<unsent, pipe, produced, collected>>

\* stdin.write_all
WriteRequest ==
    /\ backend = "write"
    /\ unsent > 0
    /\ child # "exited"
    /\ pipe["stdin"] < PipeCapacity
    /\ unsent' = unsent - 1
    /\ pipe' = [pipe EXCEPT !["stdin"] = @ + 1]
    /\ UNCHANGED <<backend, child, produced, collected>>

\* Mutant: the error of write_all is dropped.
WriteErrorIgnored ==
    /\ backend = "write"
    /\ unsent > 0
    /\ child = "exited"
    /\ backend' = "collect"
    /\ UNCHANGED <<unsent, pipe, child, produced, collected>>

\* The command ended with its input unread.
WriteFails ==
    /\ backend = "write"
    /\ unsent > 0
    /\ child = "exited"
    /\ backend' = "failed"
    /\ UNCHANGED <<unsent, pipe, child, produced, collected>>

\* The handle goes out of scope, which closes the pipe.
CloseStdin ==
    /\ backend = "write"
    /\ unsent = 0
    /\ backend' = "collect"
    /\ UNCHANGED <<unsent, pipe, child, produced, collected>>

\* wait_with_output reads both streams at once ...
CollectOutput ==
    /\ backend = "collect"
    /\ \E p \in {"stdout", "stderr"} :
        /\ pipe[p] > 0
        /\ pipe' = [pipe EXCEPT ![p] = @ - 1]
    /\ collected' = collected + 1
    /\ UNCHANGED <<backend, unsent, child, produced>>

\* ... to their end.  A status other than 0 or an output that does not
\* decode is an error.
CommandEnds ==
    /\ backend = "collect"
    /\ child = "exited"
    /\ pipe["stdout"] = 0 /\ pipe["stderr"] = 0
    /\ backend' \in {"answered", "failed"}
    /\ UNCHANGED <<unsent, pipe, child, produced, collected>>

BackendStep ==
    \/ Spawn \/ WriteRequest \/ WriteFails \/ CloseStdin
    \/ CollectOutput \/ CommandEnds

-----------------------------------------------------------------------------
\* Mutant: the handle outlives the request.
HandleKept == backend \in {"write", "collect"} \/ pipe["stdin"] > 0

InputOpen == backend = "write" \/ pipe["stdin"] > 0

\* The command decides what to do next; it blocks in doing it.
ChildChooses ==
    /\ child = "choose"
    /\ \/ child' = "exited"
       \/ InputOpen /\ child' = "read"
       \/ produced < MaxOutput /\ child' \in {"stdout", "stderr"}
    /\ UNCHANGED <<backend, unsent, pipe, produced, collected>>

ChildReads ==
    /\ child = "read"
    /\ \/ /\ pipe["stdin"] > 0
          /\ pipe' = [pipe EXCEPT !["stdin"] = @ - 1]
       \/ ~InputOpen /\ UNCHANGED pipe
    /\ child' = "choose"
    /\ UNCHANGED <<backend, unsent, produced, collected>>

ChildWrites ==
    /\ child \in {"stdout", "stderr"}
    /\ pipe[child] < PipeCapacity
    /\ pipe' = [pipe EXCEPT ![child] = @ + 1]
    /\ produced' = produced + 1
    /\ child' = "choose"
    /\ UNCHANGED <<backend, unsent, collected>>

ChildStep == ChildChooses \/ ChildReads \/ ChildWrites

-----------------------------------------------------------------------------
CommandTypeOK ==
    /\ backend \in {"idle", "start", "write", "collect", "answered", "failed"}
    /\ unsent \in 0..RequestSize
    /\ pipe \in [Pipe -> 0..PipeCapacity]
    /\ child \in {"not started", "choose", "read", "stdout", "stderr",
                  "exited"}
    /\ produced \in 0..MaxOutput
    /\ collected \in 0..MaxOutput

\* Each waits for the other: the brain writes to a full pipe the command
\* does not read, the command to a full pipe the brain does not read.
CrossedPipes ==
    /\ backend = "write" /\ unsent > 0 /\ pipe["stdin"] = PipeCapacity
    /\ child \in {"stdout", "stderr"} /\ pipe[child] = PipeCapacity

=============================================================================
