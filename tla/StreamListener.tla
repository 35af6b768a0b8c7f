--------------------------- MODULE StreamListener ---------------------------
(***************************************************************************)
(* StreamListener of teto-controller (queue.rs): reads the transcription   *)
(* stream as a consumer of a group, matches each segment's voice, and      *)
(* either shows the segment under the matched name or buffers it for the   *)
(* brain; then acknowledges it.                                            *)
(*                                                                         *)
(* lpc is where the task is in run_connected, batch the ids of the last    *)
(* reply it has not finished, handled in order.  An error leaves the loop  *)
(* and drops the rest of the reply; after a pause the task reconnects and  *)
(* reads again, so an error returns to "poll".                             *)
(***************************************************************************)
EXTENDS ControllerState

\* Mutant: a reply is handled from its newest entry.
NewestFirst(id) == id \in batch /\ \A other \in batch : other <= id

\* The id being handled.
Current(id) == IsLeast(id, batch)

\* Mutant: after an error the rest of the reply is still there.
BackKeepingReply == lpc' = "poll" /\ named' = NoName /\ UNCHANGED batch

\* The loop is left, and with it the rest of the reply.
BackToPoll == lpc' = "poll" /\ batch' = {} /\ named' = NoName

-----------------------------------------------------------------------------
\* Mutant: a single pending entry is not retried.
ReadSeveralPending ==
    /\ lpc = "poll"
    /\ Cardinality(pel) > 1
    /\ batch' = Oldest(pel, StreamBatchSize)
    /\ lpc' = "match"
    /\ UNCHANGED <<redisVars, memory, named, pending, resolverVars, brainJob,
                   liveVars, buffered, upserted, faults>>

\* pending_start_id found unacknowledged entries: XREADGROUP from "0".
ReadPending ==
    /\ lpc = "poll"
    /\ pel # {}
    /\ batch' = Oldest(pel, StreamBatchSize)
    /\ lpc' = "match"
    /\ UNCHANGED <<redisVars, memory, named, pending, resolverVars, brainJob,
                   liveVars, buffered, upserted, faults>>

AfterRead == IF cursor + StreamBatchSize < Len(stream)
             THEN cursor + StreamBatchSize
             ELSE Len(stream)

\* Mutant: new entries are read even when some are pending.
DeliverAlways ==
    /\ lpc = "poll"
    /\ cursor < Len(stream)
    /\ cursor' = AfterRead
    /\ pel' = pel \union (cursor + 1)..AfterRead
    /\ UNCHANGED <<stream, brainQueue, resolutions, memory, named, pending,
                   resolverVars, brainJob, liveVars, buffered, upserted>>

\* XREADGROUP from ">" moves the group's cursor and fills the PEL.  It
\* blocks while there is nothing new.
DeliverNew ==
    /\ lpc = "poll"
    /\ pel = {}
    /\ cursor < Len(stream)
    /\ cursor' = AfterRead
    /\ pel' = (cursor + 1)..AfterRead
    /\ UNCHANGED <<stream, brainQueue, resolutions, memory, named, pending,
                   resolverVars, brainJob, liveVars, buffered, upserted>>

ReadNew ==
    /\ DeliverNew
    /\ batch' = (cursor + 1)..AfterRead
    /\ lpc' = "match"
    /\ UNCHANGED faults

\* decode_segment fails: the entry stays pending and the loop is left.
DecodeFails ==
    /\ lpc = "match"
    /\ \E id \in batch : Current(id) /\ stream[id] \in Undecodable
    /\ BackToPoll
    /\ UNCHANGED <<redisVars, memory, pending, resolverVars, brainJob,
                   liveVars, buffered, upserted, faults>>

\* Mutant: the nearest point whatever its score.
NearestPoint(voice) == {id \in PointId : memory[id].voice # NoVoice}

\* match_voice: the best point at or above the threshold, limit 1.
Matches(voice) == {id \in PointId : memory[id].voice = voice}

\* process_segment up to its decision.  The answer of match_voice is used
\* in a later step, without a lock that covers both.
MatchVoice ==
    /\ lpc = "match"
    /\ \E id \in batch :
        LET voice == VoiceOf[stream[id]] IN
        /\ Current(id)
        /\ stream[id] \notin Undecodable
        /\ \/ voice = NoVoice /\ lpc' = "emit" /\ named' = NoName
           \/ /\ voice # NoVoice /\ MemoryUp
              /\ \E point \in Matches(voice) : named' = memory[point].name
              /\ lpc' = "emit"
           \/ /\ voice # NoVoice /\ (MemoryUp => Matches(voice) = {})
              /\ lpc' = "buffer" /\ named' = NoName
    /\ UNCHANGED <<redisVars, memory, batch, pending, resolverVars, brainJob,
                   liveVars, buffered, upserted, faults>>

\* emit_final_transcript
EmitFinalTranscript ==
    /\ lpc = "emit"
    /\ \E id \in batch : Current(id) /\ Show(stream[id], named)
    /\ lpc' = "ack" /\ named' = NoName
    /\ UNCHANGED <<redisVars, memory, batch, pending, resolverVars, brainJob,
                   buffered, upserted, faults>>

\* Mutant: a fingerprint serves every speaker that has none yet.
PrintForEverySpeaker(entry, segment) ==
    [segments  |-> Append(entry.segments, segment),
     prints    |-> [tag \in Tag |->
                       IF entry.prints[tag] = NoVoice THEN VoiceOf[segment]
                       ELSE entry.prints[tag]],
     requested |-> entry.requested]

\* The entry with one more segment; or_insert keeps a tag's first voice.
WithSegment(entry, segment) ==
    [segments  |-> Append(entry.segments, segment),
     prints    |-> [entry.prints EXCEPT ![TagOf[segment]] =
                       IF @ = NoVoice THEN VoiceOf[segment] ELSE @],
     requested |-> entry.requested]

\* Mutant: a session asks again with each further segment.
WantsBrainAgain(entry) ==
    Len(entry.segments) >= BrainRequestSegments /\ Fingerprinted(entry) # {}

WantsBrain(entry) ==
    /\ ~entry.requested
    /\ Len(entry.segments) >= BrainRequestSegments
    /\ Fingerprinted(entry) # {}

MarkRequested(entry) == [entry EXCEPT !.requested = TRUE]

\* buffer_unknown_segment holds the lock from the entry lookup to the end,
\* the dispatch included, so it is one step for whoever needs the lock.
BufferUnknownSegment ==
    /\ lpc = "buffer"
    /\ \E id \in batch :
        LET segment == stream[id]
            session == SessionOf[segment]
            entry   == WithSegment(pending[session], segment) IN
        /\ Current(id)
        /\ buffered' = buffered \union {segment}
        /\ \/ /\ ~WantsBrain(entry)
              /\ pending' = [pending EXCEPT ![session] = entry]
              /\ UNCHANGED brainQueue
           \/ /\ WantsBrain(entry)
              /\ pending' = [pending EXCEPT ![session] = MarkRequested(entry)]
              /\ brainQueue' = RPush(brainQueue,
                                     Requests(session, Fingerprinted(entry)))
    /\ lpc' = "ack"
    /\ UNCHANGED <<stream, cursor, pel, resolutions, memory, batch, named,
                   resolverVars, brainJob, liveVars, upserted, faults>>

\* XACK, then the next id of the reply.
Acknowledge ==
    /\ lpc = "ack"
    /\ \E id \in batch :
        /\ Current(id)
        /\ pel' = pel \ {id}
        /\ batch' = batch \ {id}
    /\ lpc' = IF batch' = {} THEN "poll" ELSE "match"
    /\ UNCHANGED <<stream, cursor, brainQueue, resolutions, memory, named,
                   pending, resolverVars, brainJob, liveVars, buffered,
                   upserted, faults>>

ListenerStep ==
    \/ ReadPending \/ ReadNew \/ DecodeFails \/ MatchVoice
    \/ EmitFinalTranscript \/ BufferUnknownSegment \/ Acknowledge

-----------------------------------------------------------------------------
(* Failures.  A call fails before Redis or Qdrant acted on it, or after.   *)

\* Mutant: the error path acknowledges too.
AckOnError ==
    /\ lpc # "poll" /\ lpc # "buffer"
    /\ \E id \in batch : Current(id) /\ pel' = pel \ {id}
    /\ Fault
    /\ BackToPoll
    /\ UNCHANGED <<stream, cursor, brainQueue, resolutions, memory, pending,
                   resolverVars, brainJob, liveVars, buffered, upserted>>

\* Any awaited call of the loop fails without effect.
ListenerCallFails ==
    /\ lpc # "poll" /\ lpc # "buffer"
    /\ Fault
    /\ BackToPoll
    /\ UNCHANGED <<redisVars, memory, pending, resolverVars, brainJob,
                   liveVars, buffered, upserted>>

\* The reply to XREADGROUP is lost: entries are delivered, nobody has them.
ReadReplyLost ==
    /\ DeliverNew
    /\ Fault
    /\ UNCHANGED <<lpc, batch>>

\* PUBLISH reached Redis, its reply did not reach the listener.
EmitReplyLost ==
    /\ lpc = "emit"
    /\ \E id \in batch : Current(id) /\ Show(stream[id], named)
    /\ Fault
    /\ BackToPoll
    /\ UNCHANGED <<redisVars, memory, pending, resolverVars, brainJob,
                   buffered, upserted>>

\* dispatch_brain_request fails: the segment stays in the entry, which is
\* not marked as requested; RPUSH may have taken effect all the same.
DispatchFails ==
    /\ lpc = "buffer"
    /\ \E id \in batch :
        LET segment == stream[id]
            session == SessionOf[segment]
            entry   == WithSegment(pending[session], segment) IN
        /\ Current(id)
        /\ WantsBrain(entry)
        /\ pending' = [pending EXCEPT ![session] = entry]
        /\ buffered' = buffered \union {segment}
        /\ \/ UNCHANGED brainQueue
           \/ brainQueue' = RPush(brainQueue,
                                  Requests(session, Fingerprinted(entry)))
    /\ Fault
    /\ BackToPoll
    /\ UNCHANGED <<stream, cursor, pel, resolutions, memory, resolverVars,
                   brainJob, liveVars, upserted>>

\* XACK reached Redis, its reply did not reach the listener.
AckReplyLost ==
    /\ lpc = "ack"
    /\ \E id \in batch : Current(id) /\ pel' = pel \ {id}
    /\ Fault
    /\ BackToPoll
    /\ UNCHANGED <<stream, cursor, brainQueue, resolutions, memory, pending,
                   resolverVars, brainJob, liveVars, buffered, upserted>>

ListenerFault ==
    \/ ListenerCallFails \/ ReadReplyLost \/ EmitReplyLost
    \/ DispatchFails \/ AckReplyLost

=============================================================================
