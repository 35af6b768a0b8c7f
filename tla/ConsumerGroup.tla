----------------------------- MODULE ConsumerGroup ----------------------------
(***************************************************************************)
(* Several controllers reading the transcription stream as one Redis       *)
(* consumer group (StreamListener in queue.rs).  Before each read          *)
(* pending_start_id asks for the pending entries of the whole group, while *)
(* a read from "0" returns those of the controller's own consumer name; a  *)
(* read from ">" is decided on an answer other controllers may outdate.    *)
(***************************************************************************)
EXTENDS RedisQueues, Controllers

CONSTANTS
    Consumer,         \* consumer names
    ConsumerOf,       \* TETO_CONTROLLER_CONSUMER of each
    StreamBatchSize   \* TETO_STREAM_BATCH_SIZE

ASSUME ConsumerAssumption == ConsumerOf \in [Controller -> Consumer]
ASSUME BatchAssumption    == StreamBatchSize \in Nat \ {0}

VARIABLES
    stream,   \* the session of each entry; an entry's id is its position
    cursor,   \* last id delivered to the group
    pel,      \* ids delivered and not acknowledged, by consumer
    phase,    \* where each controller's listener is
    batch     \* ids of its last reply it has before it

Phase == {"poll", "read own", "read new", "handle", "ack"}

groupVars == <<stream, cursor, pel, phase, batch>>

GroupInit ==
    /\ stream = <<>>
    /\ cursor = 0
    /\ pel = [name \in Consumer |-> {}]
    /\ phase = [c \in Controller |-> "poll"]
    /\ batch = [c \in Controller |-> {}]

AllPending == UNION {pel[name] : name \in Consumer}

Goes(c, where, ids) ==
    /\ phase' = [phase EXCEPT ![c] = where]
    /\ batch' = [batch EXCEPT ![c] = ids]

\* The loop of run_connected is left; what it has of the reply is dropped.
BackToPoll(c) == Goes(c, "poll", {})

\* Mutant: what is pending is left alone.
NewOnly(c) ==
    /\ phase[c] = "poll"
    /\ phase' = [phase EXCEPT ![c] = "read new"]
    /\ UNCHANGED <<stream, cursor, pel, batch>>

\* XPENDING, in the form that counts for the group.
Inspect(c) ==
    /\ phase[c] = "poll"
    /\ phase' = [phase EXCEPT ![c] =
                    IF AllPending = {} THEN "read new" ELSE "read own"]
    /\ UNCHANGED <<stream, cursor, pel, batch>>

\* Mutant: the read from "0" returns what is pending for anybody.
ReadPendingOfAll(c) ==
    /\ phase[c] = "read own"
    /\ LET ids == Oldest(AllPending, StreamBatchSize) IN
          Goes(c, IF ids = {} THEN "poll" ELSE "handle", ids)
    /\ UNCHANGED <<stream, cursor, pel>>

\* XREADGROUP from "0" does not block: without entries of its own the
\* controller is back at once.
ReadOwn(c) ==
    /\ phase[c] = "read own"
    /\ LET ids == Oldest(pel[ConsumerOf[c]], StreamBatchSize) IN
          Goes(c, IF ids = {} THEN "poll" ELSE "handle", ids)
    /\ UNCHANGED <<stream, cursor, pel>>

NewIds == Oldest((cursor + 1)..Len(stream), StreamBatchSize)

\* XREADGROUP from ">" in Redis: the entries become the consumer's.
Deliver(c) ==
    /\ phase[c] = "read new"
    /\ NewIds # {}
    /\ cursor' = cursor + Cardinality(NewIds)
    /\ pel' = [pel EXCEPT ![ConsumerOf[c]] = @ \union NewIds]
    /\ UNCHANGED stream

ReadNew(c) == Deliver(c) /\ Goes(c, "handle", NewIds)

\* BLOCK stream_block_ms ran out.
NothingNew(c) ==
    /\ phase[c] = "read new"
    /\ NewIds = {}
    /\ BackToPoll(c)
    /\ UNCHANGED <<stream, cursor, pel>>

Current(c, id) == IsLeast(id, batch[c])

Handled(c) ==
    /\ phase[c] = "handle"
    /\ phase' = [phase EXCEPT ![c] = "ack"]
    /\ UNCHANGED <<stream, cursor, pel, batch>>

\* XACK names the group and the id, not the consumer.
Ack(id) == pel' = [name \in Consumer |-> pel[name] \ {id}]

Acknowledge(c) ==
    /\ phase[c] = "ack"
    /\ \E id \in batch[c] :
        /\ Current(c, id)
        /\ Ack(id)
        /\ Goes(c, IF batch[c] = {id} THEN "poll" ELSE "handle",
                batch[c] \ {id})
    /\ UNCHANGED <<stream, cursor>>

Reading(c) ==
    \/ Inspect(c) \/ ReadOwn(c) \/ ReadNew(c) \/ NothingNew(c)

\* A call of the loop fails without effect, or its reply is lost: that of
\* XREADGROUP, or that of XACK.
ReadFails(c) ==
    /\ phase[c] \in {"read own", "read new"}
    /\ BackToPoll(c)
    /\ \/ UNCHANGED <<stream, cursor, pel>>
       \/ Deliver(c)

\* Mutant: an entry that failed is acknowledged all the same.
HandlingFailsAndAcks(c) ==
    /\ phase[c] \in {"handle", "ack"}
    /\ \E id \in batch[c] : Current(c, id) /\ Ack(id)
    /\ BackToPoll(c)
    /\ UNCHANGED <<stream, cursor>>

HandlingFails(c) ==
    /\ phase[c] \in {"handle", "ack"}
    /\ BackToPoll(c)
    /\ UNCHANGED <<stream, cursor, pel>>

AckReplyLost(c) ==
    /\ phase[c] = "ack"
    /\ \E id \in batch[c] : Current(c, id) /\ Ack(id)
    /\ BackToPoll(c)
    /\ UNCHANGED <<stream, cursor>>

GroupTypeOK ==
    /\ cursor \in 0..Len(stream)
    /\ pel \in [Consumer -> SUBSET (1..cursor)]
    /\ phase \in [Controller -> Phase]
    /\ batch \in [Controller -> SUBSET (1..cursor)]

=============================================================================
