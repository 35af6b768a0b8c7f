---------------------------- MODULE ControllerGroup ---------------------------
(***************************************************************************)
(* A group of controllers at work: they share the stream, the brain's      *)
(* lists and the stored voices, while the buffered segments and the live   *)
(* channels are each process's own.  A session has one speaker, who is     *)
(* known or not; what one controller does with a segment and an answer is  *)
(* taken as one step here (IdentityLoop has the steps in between).         *)
(***************************************************************************)
EXTENDS ConsumerGroup, LiveFanout

CONSTANTS
    Session,
    BrainRequestSegments,  \* TETO_BRAIN_REQUEST_SEGMENTS
    MaxEntries,            \* bound on the stream's length
    MaxConnections,        \* bound on connections of clients
    MaxFaults              \* bound on failed calls and restarts

ASSUME GroupAssumption ==
    /\ BrainRequestSegments \in Nat \ {0}
    /\ MaxEntries \in Nat /\ MaxConnections \in Nat /\ MaxFaults \in Nat

VARIABLES
    stored,       \* sessions whose voice Qdrant has, with a name
    kept,         \* PendingSession.segments, by controller and session
    requested,    \* PendingSession.brain_requested
    underWay,     \* requests and answers of a session in lists and brain
    handlings,    \* history: how often each entry was handled
    connections, faults

identityVars == <<stored, kept, requested, underWay>>
vars == <<groupVars, fanoutVars, identityVars, handlings, connections, faults>>

NothingKept == [session \in Session |-> <<>>]

Init ==
    /\ GroupInit
    /\ FanoutInit
    /\ stored = {}
    /\ kept = [c \in Controller |-> NothingKept]
    /\ requested = [c \in Controller |-> {}]
    /\ underWay = [session \in Session |-> 0]
    /\ handlings = [id \in 1..MaxEntries |-> 0]
    /\ connections = 0 /\ faults = 0

Publish(session) ==
    /\ Len(stream) < MaxEntries
    /\ stream' = Append(stream, session)
    /\ UNCHANGED <<cursor, pel, phase, batch, fanoutVars, identityVars,
                   handlings, connections, faults>>

Read(c) ==
    /\ Reading(c)
    /\ UNCHANGED <<fanoutVars, identityVars, handlings, connections, faults>>

Keep(c, session, id) ==
    kept' = [kept EXCEPT ![c] =
                [@ EXCEPT ![session] = Append(kept[c][session], id)]]

\* Mutant: whether the brain was asked is forgotten.
AsksAgain(c, session) == Len(kept[c][session]) + 1 >= BrainRequestSegments

Asks(c, session) ==
    /\ session \notin requested[c]
    /\ Len(kept[c][session]) + 1 >= BrainRequestSegments

\* process_segment: a known voice is shown, another buffered; the brain is
\* asked when this controller has enough of the session.
Handle(c) ==
    /\ Handled(c)
    /\ \E id \in batch[c] :
        LET session == stream[id] IN
        /\ Current(c, id)
        /\ handlings' = [handlings EXCEPT ![id] = @ + 1]
        /\ \/ /\ session \in stored
              /\ Send(c, 1, 0)
              /\ UNCHANGED <<kept, requested, underWay>>
           \/ /\ session \notin stored
              /\ Keep(c, session, id)
              /\ IF Asks(c, session)
                 THEN /\ requested' = [requested EXCEPT ![c] =
                                          @ \union {session}]
                      /\ underWay' = [underWay EXCEPT ![session] = @ + 1]
                 ELSE UNCHANGED <<requested, underWay>>
              /\ UNCHANGED sent
    /\ UNCHANGED <<link, stored, connections, faults>>

AckEntry(c) ==
    /\ Acknowledge(c)
    /\ UNCHANGED <<fanoutVars, identityVars, handlings, connections, faults>>

\* remove(&session_id), the request's mark with it.
Forget(c, session) ==
    /\ kept' = [kept EXCEPT ![c] = [@ EXCEPT ![session] = <<>>]]
    /\ requested' = [requested EXCEPT ![c] = @ \ {session}]

\* handle_resolution_payload of whichever controller BRPOP serves.  With no
\* segments of the session the answer is dropped; else its voice is stored,
\* the identity announced and the segments replayed, or it stays unnamed.
Resolve(c, session) ==
    /\ underWay[session] > 0
    /\ underWay' = [underWay EXCEPT ![session] = @ - 1]
    /\ \/ /\ kept[c][session] = <<>>
          /\ UNCHANGED <<stored, kept, requested, sent>>
       \/ /\ kept[c][session] # <<>>
          /\ Forget(c, session)
          /\ \/ /\ stored' = stored \union {session}
                /\ Send(c, Len(kept[c][session]), 1)
             \/ UNCHANGED <<stored, sent>>
    /\ UNCHANGED <<groupVars, link, handlings,
                   connections, faults>>

Connect(client) ==
    /\ connections < MaxConnections
    /\ connections' = connections + 1
    /\ Subscribe(client)
    /\ UNCHANGED <<groupVars, identityVars, handlings, faults>>

ServeClient(client) ==
    /\ ClientTask(client)
    /\ UNCHANGED <<groupVars, identityVars, handlings, connections, faults>>

Disconnect(client) ==
    /\ Leave(client)
    /\ UNCHANGED <<groupVars, identityVars, handlings, connections, faults>>

-----------------------------------------------------------------------------
Fault == faults < MaxFaults /\ faults' = faults + 1

CallFails(c) ==
    /\ ReadFails(c) \/ HandlingFails(c) \/ AckReplyLost(c)
    /\ Fault
    /\ UNCHANGED <<fanoutVars, identityVars, handlings, connections>>

\* An answer, or the request it would answer, is lost on its way, or a call
\* of handle_resolution_payload fails after the segments were removed: that
\* of the upsert, of the announcement, or of one of the replayed segments.
ResolverFails(c, session) ==
    /\ underWay[session] > 0
    /\ underWay' = [underWay EXCEPT ![session] = @ - 1]
    /\ Fault
    /\ \/ UNCHANGED <<stored, kept, requested, sent>>
       \/ /\ kept[c][session] # <<>>
          /\ Forget(c, session)
          /\ \/ UNCHANGED <<stored, sent>>
             \/ /\ stored' = stored \union {session}
                /\ \/ UNCHANGED sent
                   \/ \E n \in 0..(Len(kept[c][session]) - 1) : Send(c, n, 1)
    /\ UNCHANGED <<groupVars, link, handlings, connections>>

\* A controller process stops and starts again under its consumer name.
Restart(c) ==
    /\ Fault
    /\ BackToPoll(c)
    /\ ResetFanout(c)
    /\ kept' = [kept EXCEPT ![c] = NothingKept]
    /\ requested' = [requested EXCEPT ![c] = {}]
    /\ UNCHANGED <<stream, cursor, pel, stored, underWay, handlings,
                   connections>>

Listener(c) == Read(c) \/ Handle(c) \/ AckEntry(c)
Resolver(c) == \E session \in Session : Resolve(c, session)

Next ==
    \/ \E session \in Session : Publish(session)
    \/ \E c \in Controller :
          \/ Listener(c) \/ Resolver(c) \/ CallFails(c) \/ Restart(c)
          \/ \E session \in Session : ResolverFails(c, session)
    \/ \E client \in Client :
          Connect(client) \/ ServeClient(client) \/ Disconnect(client)

Spec == Init /\ [][Next]_vars

\* Every controller is started again when it stops; its two tasks and one
\* task per client are tokio tasks.
Fairness ==
    /\ \A c \in Controller : WF_vars(Listener(c)) /\ WF_vars(Resolver(c))
    /\ \A client \in Client : WF_vars(ServeClient(client))

FairSpec == Spec /\ Fairness

-----------------------------------------------------------------------------
TypeOK ==
    /\ stream \in Seq(Session) /\ Len(stream) <= MaxEntries
    /\ GroupTypeOK
    /\ sent \in [Controller -> [Channel -> Nat]]
    /\ link \in [Client -> Link]
    /\ stored \subseteq Session
    /\ kept \in [Controller -> [Session -> Seq(1..MaxEntries)]]
    /\ requested \in [Controller -> SUBSET Session]
    /\ underWay \in [Session -> Nat]
    /\ handlings \in [1..MaxEntries -> Nat]
    /\ connections \in Nat /\ faults \in Nat

\* Controllers with names of their own work on different entries, however
\* their XPENDING and XREADGROUP calls interleave: each further handling of an
\* entry takes a failure or a restart (run_connected, pending_start_id).
DistinctNames ==
    \A c, d \in Controller : ConsumerOf[c] = ConsumerOf[d] => c = d

HandlingsNeedFaults ==
    DistinctNames =>
        \A id \in 1..MaxEntries : handlings[id] <= 1 + faults

\* Until something fails, an answer under way has a controller that asked and
\* waits with the session's segments: no more answers than askers, although
\* any controller may take any answer (handle_resolution_payload).
Asking(session) == {c \in Controller : session \in requested[c]}

AnswersHaveAskers ==
    faults = 0 =>
        \A session \in Session :
            /\ underWay[session] <= Cardinality(Asking(session))
            /\ \A c \in Asking(session) : kept[c][session] # <<>>

\* The group keeps the promise to the workers.
Acknowledged == (1..cursor) \ AllPending

ALO == INSTANCE AtLeastOnce WITH
          published <- Len(stream),
          handled   <- {id \in 1..MaxEntries : handlings[id] > 0},
          done      <- Acknowledged

HandlesAtLeastOnce == ALO!Spec

\* Every entry is acknowledged in the end, although a controller that finds
\* only others' entries pending reads nothing (run_connected).
GroupDrains ==
    \A id \in 1..MaxEntries : (id <= Len(stream)) ~> (id \in Acknowledged)

\* A client is served all its controller sends, or is moved past it by an
\* overrun, or leaves; it does not stay behind (handle_live_socket).
ItemsReachClients ==
    \A client \in Client, channel \in Channel, n \in 1..MaxEntries :
        (Behind(client, channel) > 0 /\ sent[Server[client]][channel] >= n)
            ~> PassedOn(client, channel, n)

=============================================================================
