----------------------------- MODULE AtLeastOnce ------------------------------
(***************************************************************************)
(* What the consumer group promises the workers that publish segments: an  *)
(* entry is done with only after it was handled, and each one is done with *)
(* in the end.  It does not promise that an entry is handled once.         *)
(***************************************************************************)
EXTENDS Naturals

VARIABLES
    published,  \* entries 1..published exist
    handled,    \* those some controller has taken care of
    done        \* those nobody will be given again

vars == <<published, handled, done>>

Init == published = 0 /\ handled = {} /\ done = {}

Publish ==
    /\ published' = published + 1
    /\ UNCHANGED <<handled, done>>

Handle(entry) ==
    /\ entry \in (1..published) \ done
    /\ handled' = handled \union {entry}
    /\ UNCHANGED <<published, done>>

Finish(entry) ==
    /\ entry \in handled
    /\ done' = done \union {entry}
    /\ UNCHANGED <<published, handled>>

Next ==
    \/ Publish
    \/ \E entry \in 1..published : Handle(entry) \/ Finish(entry)

Spec == Init /\ [][Next]_vars

=============================================================================
