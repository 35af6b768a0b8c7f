------------------------------ MODULE LiveAudio -------------------------------
(***************************************************************************)
(* The worker's live task (job_processor.rs, listen_live_audio): it         *)
(* subscribes to the channel of live audio, sends each message to a Riva    *)
(* session, and publishes the segments Riva answers with.                   *)
(*                                                                         *)
(* After each chunk the task reads replies until the response stream ends,  *)
(* which Riva does when the sender is dropped: see LiveAudioIsHeard.        *)
(***************************************************************************)
EXTENDS RivaSession

CONSTANT EmptyChunk   \* messages without audio
ASSUME EmptyChunkAssumption ==
    /\ EmptyChunk \subseteq Chunk
    /\ \A chunk \in EmptyChunk : UtterancesOf[chunk] = <<>>

VARIABLES
    aired,      \* messages published on the live channel
    connected,  \* the Pub/Sub connection
    inbox,      \* messages received and not taken
    lw,         \* where the task is in run_live_connected
    chunk,      \* the message in hand, as the set of at most one
    timeline,   \* the chunks of AudioTimeline.entries
    found,      \* segments to publish
    published,  \* the segments on the transcription stream, with the audio
                \* their fingerprint was made of
    sent,       \* history: chunks handed to the channel
    spoken      \* history: those of the last session, in order, which is
                \* what the times of Riva's results count

workerVars == <<lw, chunk, timeline, found>>
history    == <<sent, spoken>>
vars == <<requests, senderOpen, heard, replies, reply, faults, aired,
          connected, inbox, lw, chunk, timeline, found, published, sent,
          spoken>>

Segment == [utterance : Utterance, audio : SUBSET Chunk]

TypeOK ==
    /\ SessionTypeOK
    /\ aired \subseteq Chunk
    /\ connected \in BOOLEAN
    /\ inbox \in Seq(aired)
    /\ lw \in {"down", "open", "next", "send", "recv", "publish", "close",
               "final"}
    /\ chunk \subseteq aired /\ (chunk # {} <=> lw = "send")
    /\ timeline \in Seq(Chunk)
    /\ found \in Seq(Utterance)
    /\ found # <<>> <=> lw = "publish"
    /\ published \in Seq(Segment)
    /\ sent \subseteq aired
    /\ spoken \in Seq(Chunk)

Init ==
    /\ Closed /\ faults = 0
    /\ aired = {} /\ connected = FALSE /\ inbox = <<>>
    /\ lw = "down" /\ chunk = {} /\ timeline = <<>> /\ found = <<>>
    /\ published = <<>> /\ sent = {} /\ spoken = <<>>

\* PUBLISH by whoever records: lost without a subscriber.
Air(message) ==
    /\ message \notin aired
    /\ aired' = aired \union {message}
    /\ inbox' = IF connected THEN Append(inbox, message) ELSE inbox
    /\ UNCHANGED <<sessionVars, faults, connected, workerVars, published,
                   history>>

-----------------------------------------------------------------------------
\* The subscription comes first and is up while the session is opened.
Subscribe ==
    /\ lw = "down"
    /\ connected' = TRUE /\ inbox' = <<>>
    /\ lw' = "open"
    /\ UNCHANGED <<sessionVars, faults, aired, chunk, timeline, found,
                   published, history>>

\* Mutant: the timeline is one for all sessions.
SameTimeline == UNCHANGED timeline

\* AudioTimeline::new
NewTimeline == timeline' = <<>>

\* open_streaming_session.  Until then an older timeline is out of scope.
OpenSession ==
    /\ lw = "open"
    /\ OpenStream
    /\ NewTimeline
    /\ spoken' = <<>>
    /\ lw' = "next"
    /\ UNCHANGED <<faults, aired, connected, inbox, chunk, found, published,
                   sent>>

\* audio_timeline.push.  An empty message has no audio to be found.  That it
\* moves the clock by 1 ms, and the rounding of durations, are left to
\* AudioTimeline.
Push(message) ==
    timeline' = IF message \in EmptyChunk THEN timeline
                ELSE Append(timeline, message)

\* messages.next()
NextMessage ==
    /\ lw = "next"
    /\ inbox # <<>>
    /\ chunk' = {Head(inbox)}
    /\ inbox' = Tail(inbox)
    /\ Push(Head(inbox))
    /\ lw' = "send"
    /\ UNCHANGED <<sessionVars, faults, aired, connected, found, published,
                   history>>

\* send_chunk skips an empty chunk.  After Riva ended the stream on its own
\* the channel may still take a chunk nobody will hear.
SendChunk ==
    /\ lw = "send"
    /\ \E message \in chunk :
        \/ message \in EmptyChunk /\ UNCHANGED <<sessionVars, history>>
        \/ /\ message \notin EmptyChunk
           /\ Send(message)
           /\ sent' = sent \union {message}
           /\ spoken' = Append(spoken, message)
    /\ chunk' = {} /\ lw' = "recv"
    /\ UNCHANGED <<faults, aired, connected, inbox, timeline, found, published>>

\* Mutant: the reply is kept until all its results are taken.
AgainFromReply ==
    /\ lw = "recv"
    /\ replies # <<>>
    /\ UNCHANGED sessionVars

\* recv_next reads one reply and leaves with its first final result: the
\* other results of the reply are dropped.
FromReply == lw = "recv" /\ ReadReply

RecvNext ==
    /\ FromReply
    /\ \/ Head(replies) = <<>> /\ UNCHANGED <<lw, found>>
       \/ /\ Head(replies) # <<>>
          /\ found' = <<Head(Head(replies))>>
          /\ lw' = "publish"
    /\ UNCHANGED <<faults, aired, connected, inbox, chunk, timeline,
                   published, history>>

\* Mutant: the task goes back to its messages when no reply waits.
NoReply == replies = <<>>

\* recv_next returns None at the end of the response stream only.
NoMoreReplies == AtEnd

RecvNone ==
    /\ lw = "recv"
    /\ NoMoreReplies
    /\ lw' = "next"
    /\ UNCHANGED <<sessionVars, faults, aired, connected, inbox, chunk,
                   timeline, found, published, history>>

\* The chunk in which an utterance ends.  Of the range of a result only the
\* part in that chunk is looked at: timeline_across_chunks has the rest.
Heard(utterance) ==
    {message \in Chunk : utterance \in ToSet(UtterancesOf[message])}

\* bridge_audio_fingerprint_from_timeline and XADD of the first segment.
\* The result's times say where in spoken that chunk is, and the timeline
\* gives what it has at those times; without audio the fingerprint is the
\* speaker's fallback.
AudioOf(utterance) ==
    {timeline[k] : k \in {j \in DOMAIN spoken \intersect DOMAIN timeline :
                              spoken[j] \in Heard(utterance)}}

Bridged(utterance) == [utterance |-> utterance, audio |-> AudioOf(utterance)]

XAdd == published' = Append(published, Bridged(Head(found)))

PublishSegment ==
    /\ lw = "publish"
    /\ XAdd
    /\ found' = <<>> /\ lw' = "recv"
    /\ UNCHANGED <<sessionVars, faults, aired, connected, inbox, chunk,
                   timeline, history>>

-----------------------------------------------------------------------------
\* The Pub/Sub connection was lost and its messages are taken: close.
CloseStream ==
    /\ lw = "next"
    /\ inbox = <<>> /\ ~connected
    /\ DropSender
    /\ lw' = "close"
    /\ UNCHANGED <<faults, aired, connected, inbox, chunk, timeline, found,
                   published, history>>

\* close would collect the final results of further replies, and
\* publish_segments publish them; there are none: recv_next was left for the
\* messages only at the end of the response stream.
CloseDone ==
    /\ lw = "close"
    /\ AtEnd
    /\ lw' = "final"
    /\ UNCHANGED <<sessionVars, faults, aired, connected, inbox, chunk,
                   timeline, found, published, history>>

\* connect; run_live_connected returned Ok and is called again at once.
Finish ==
    /\ lw = "final"
    /\ lw' = "down"
    /\ UNCHANGED <<sessionVars, faults, aired, connected, inbox, chunk,
                   timeline, found, published, history>>

-----------------------------------------------------------------------------
\* Mutant: the segment in hand is kept over an error.
LeaveSegment ==
    /\ lw' = "down"
    /\ DropSession
    /\ connected' = FALSE /\ inbox' = <<>>
    /\ chunk' = {}
    /\ UNCHANGED <<aired, timeline, found, history>>

\* An error leaves run_live_connected: subscription, session and the
\* segments in hand are dropped.
Leave ==
    /\ lw' = "down"
    /\ DropSession
    /\ connected' = FALSE /\ inbox' = <<>>
    /\ chunk' = {} /\ found' = <<>>
    /\ UNCHANGED <<aired, timeline, history>>

\* The response stream failed, or nobody receives from the channel any more.
SessionFails ==
    /\ \/ lw \in {"recv", "close"} /\ AtError
       \/ lw = "send" /\ reply # "open" /\ chunk \cap EmptyChunk = {}
    /\ Leave
    /\ UNCHANGED <<faults, published>>

\* A call to Redis or Riva fails; XADD may have worked all the same.
CallFails ==
    /\ lw \in {"open", "publish", "final"}
    /\ Fault
    /\ Leave
    /\ \/ UNCHANGED published
       \/ lw = "publish" /\ XAdd

\* Redis drops the subscriber's connection.
Disconnect ==
    /\ connected
    /\ Fault
    /\ connected' = FALSE
    /\ UNCHANGED <<sessionVars, aired, inbox, workerVars, published, history>>

WorkerStep ==
    \/ Subscribe \/ OpenSession \/ NextMessage \/ SendChunk
    \/ RecvNext \/ RecvNone \/ PublishSegment
    \/ CloseStream \/ CloseDone \/ Finish \/ SessionFails

RivaStep ==
    /\ RivaHears \/ RivaReports \/ RivaEnds \/ RivaFails
    /\ UNCHANGED <<aired, connected, inbox, workerVars, published, history>>

Next ==
    \/ \E message \in Chunk : Air(message)
    \/ WorkerStep
    \/ RivaStep
    \/ CallFails \/ Disconnect

Spec == Init /\ [][Next]_vars

\* One tokio task runs the worker's part.  Riva is taken at its best: it
\* hears what it is sent, reports what it heard and ends when it was told to.
Fairness ==
    /\ WF_vars(WorkerStep)
    /\ WF_vars(RivaHears /\ RivaStep)
    /\ WF_vars(RivaReports /\ RivaStep)
    /\ WF_vars(RivaEnds /\ RivaStep)

FairSpec == Spec /\ Fairness

-----------------------------------------------------------------------------
\* A segment is never published a second time, whatever fails between reading
\* its result and the reply of XADD: nothing of a session that failed is
\* tried again (recv_next, publish_segment).
PublishedOnce ==
    \A i, j \in DOMAIN published :
        published[i].utterance = published[j].utterance => i = j

\* Every live segment has its fingerprint from the chunk it was said in, also
\* after lost sessions: in each one the timeline starts afresh and stays in
\* step with what Riva hears, with each chunk on it before Riva can report on
\* it (run_live_connected, bridge_audio_fingerprint_from_timeline).
SegmentsAreAcoustic ==
    \A i \in DOMAIN published :
        published[i].audio = Heard(published[i].utterance)

IsPublished(utterance) ==
    \E i \in DOMAIN published : published[i].utterance = utterance

\* Until something fails, the first final result of every reply is published
\* in the end, however replies and messages alternate (recv_next,
\* run_live_connected).  The others of the reply never are.
FirstResultsArePublished ==
    \A utterance \in Utterance :
        (\E r \in DOMAIN replies :
            replies[r] # <<>> /\ Head(replies[r]) = utterance)
            ~> (faults > 0 \/ IsPublished(utterance))

-----------------------------------------------------------------------------
(* Claims of the repository the code does not meet.                         *)

\* README.md 5: teto-worker is an "archive/live dispatcher": live audio that
\* was received is sent to Riva, when nothing fails.
LiveAudioIsHeard ==
    \A message \in Chunk \ EmptyChunk :
        (message \in ToSet(inbox)) ~> (message \in sent \/ faults > 0)

=============================================================================
