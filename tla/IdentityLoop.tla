---------------------------- MODULE IdentityLoop -----------------------------
(***************************************************************************)
(* The identity loop: workers publish segments, the controller's stream    *)
(* listener and brain resolution listener and the brain work on them       *)
(* concurrently, calls fail and the controller restarts.                   *)
(***************************************************************************)
EXTENDS StreamListener, BrainResolutionListener, TetoBrain

\* XADD by a worker: publish_segment_to_connection.
Publish(segment) ==
    /\ segment \notin ToSet(stream)
    /\ stream' = Append(stream, segment)
    /\ UNCHANGED <<cursor, pel, brainQueue, resolutions, memory, listenerVars,
                   pending, resolverVars, brainJob, liveVars, buffered,
                   upserted, faults>>

\* The controller process stops and starts again: both tasks and the shared
\* map start afresh; the group, its PEL, the lists and the points remain.
ControllerRestarts ==
    /\ <<lpc, rpc, pending>> #
           <<"poll", "idle", [session \in Session |-> NoEntry]>>
    /\ Fault
    /\ BackToPoll /\ BackToIdle
    /\ pending' = [session \in Session |-> NoEntry]
    /\ UNCHANGED <<redisVars, memory, brainJob, liveVars, buffered, upserted>>

Init == StateInit

Next ==
    \/ \E segment \in Segment : Publish(segment)
    \/ ListenerStep \/ ListenerFault
    \/ ResolverStep \/ ResolverFault
    \/ BrainStep \/ BrainFault
    \/ ControllerRestarts

Spec == Init /\ [][Next]_vars

\* main.rs and the brain spawn one tokio task each; a task whose awaited
\* call completes runs again.  Nothing makes a worker publish or a call fail.
Fairness ==
    /\ WF_vars(ListenerStep)
    /\ WF_vars(ResolverStep)
    /\ WF_vars(BrainStep)

FairSpec == Spec /\ Fairness

-----------------------------------------------------------------------------
(* Safety *)

\* XACK comes last: an entry that left the PEL was shown, or reached the
\* session's buffer, also when calls fail and the controller restarts
\* (handle_stream_id).
AckedWasHandled ==
    \A id \in (1..cursor) \ pel :
        stream[id] \in buffered \/ showings[stream[id]] > 0

\* Entries leave the PEL in stream order: the listener reads new entries only
\* when none is pending, and retries from the oldest.  So an entry it cannot
\* decode holds up every later one (pending_start_id, handle_stream_id).
AcksInOrder ==
    \A id \in pel : id..cursor \subseteq pel

\* Buffered segments are in the entry of their own session, which holds a
\* fingerprint for each of their speakers, and a fingerprint is the voice of
\* one of that speaker's segments in the entry: a name the brain returns for
\* the speaker is stored for a voice of the speaker, and its segments can be
\* replayed (buffer_unknown_segment, handle_resolution_payload).
HeardFrom(entry, tag) ==
    {VoiceOf[entry.segments[k]] :
        k \in {j \in DOMAIN entry.segments : TagOf[entry.segments[j]] = tag}}

CoveredBy(entry, session) ==
    /\ \A i \in DOMAIN entry.segments :
          /\ SessionOf[entry.segments[i]] = session
          /\ TagOf[entry.segments[i]] \in Fingerprinted(entry)
    /\ \A tag \in Fingerprinted(entry) :
          entry.prints[tag] \in HeardFrom(entry, tag)

FingerprintsCoverSegments ==
    /\ \A session \in Session : CoveredBy(pending[session], session)
    /\ rpc # "idle" => CoveredBy(hand.entry, hand.session)

\* A name on the live channel was stored by an upsert before: for the same
\* speaker of the same session, or for the same voice (process_segment's
\* match, replay_buffered_segments).
LearnedFor(segment, name) ==
    \E fact \in upserted :
        /\ fact.name = name
        /\ \/ /\ fact.session = SessionOf[segment]
              /\ fact.tag = TagOf[segment]
           \/ fact.voice = VoiceOf[segment]

NamesWereLearned ==
    \A record \in shown :
        IF record.name = NoName
        THEN VoiceOf[record.segment] = NoVoice
        ELSE LearnedFor(record.segment, record.name)

\* Showing a segment more often than once takes a failure or a restart for
\* each further time: without one every segment is shown at most once, the
\* listener's fast path and the replay together (handle_stream_id, replay).
DuplicatesNeedFaults ==
    \A segment \in Segment : showings[segment] <= 1 + faults

\* The requests and answers of a session that are under way.
Positions(list, session) == {i \in DOMAIN list : list[i].session = session}

UnderWay(session) ==
    Cardinality(Positions(brainQueue, session))
    + Cardinality(Positions(resolutions, session))
    + (IF brainJob # NoJob /\ brainJob.session = session THEN 1 ELSE 0)

\* Until something fails, brain_requested says exactly whether the brain was
\* asked and has not been heard: never two requests, never a mark without a
\* request (buffer_unknown_segment, handle_resolution_payload).
RequestedIffUnderWay ==
    faults = 0 =>
        \A session \in Session :
            UnderWay(session) = IF pending[session].requested THEN 1 ELSE 0

\* A session is stranded when it is marked as requested while no request or
\* answer of it is under way: it never asks again.  Each stranded session
\* takes a failure of its own: one popped request or answer lost
\* (TetoBrain::run_connected, brpop_payload).
Stranded ==
    {session \in Session :
        pending[session].requested /\ UnderWay(session) = 0}

FailureStrandsOneSession == Cardinality(Stranded) <= faults

\* Until something fails, a session's transcript is in stream order.
Position(segment) == CHOOSE id \in DOMAIN stream : stream[id] = segment

TranscriptInStreamOrder ==
    faults = 0 =>
        \A session \in Session :
            LET segments == pending[session].segments IN
            \A i, j \in DOMAIN segments :
                i < j => Position(segments[i]) < Position(segments[j])

-----------------------------------------------------------------------------
(* Action properties *)

\* Somewhere a published segment still is: to be read or retried, shown,
\* buffered, or in the resolver's hands with its speaker yet to be served.
Unhandled(segment) ==
    \E id \in DOMAIN stream :
        /\ stream[id] = segment
        /\ id > cursor \/ id \in pel
        /\ ~(lpc = "ack" /\ Current(id))

InHand(segment) ==
    /\ rpc # "idle"
    /\ segment \in ToSet(hand.entry.segments)
    /\ TagOf[segment] \in hand.todo

Kept(segment) ==
    \/ showings[segment] > 0
    \/ segment \in ToSet(pending[SessionOf[segment]].segments)
    \/ Unhandled(segment)
    \/ InHand(segment)

\* The brain's answer is taken and does not name the segment's speaker.
LeftUnnamed(segment) ==
    /\ rpc = "idle" /\ rpc' = "upsert"
    /\ hand'.session = SessionOf[segment]
    /\ TagOf[segment] \notin hand'.todo

\* A segment is lost only by a failure or a restart, or because the brain
\* was heard and left its speaker unnamed, or because an answer comes while
\* the controller runs without Qdrant, or Qdrant refuses a point of it
\* (handle_resolution_payload).
NoSilentLoss ==
    [][\/ faults' > faults
       \/ ~MemoryUp /\ resolutions' # resolutions
       \/ UpsertRefused
       \/ \A segment \in Segment :
             Kept(segment) /\ ~Kept(segment)' => LeftUnnamed(segment)]_vars

-----------------------------------------------------------------------------
(* Liveness *)

\* Every entry with no undecodable entry at or before it is acknowledged in
\* the end, whatever failed on the way (listen_transcription_stream).
StreamDrains ==
    \A id \in 1..Cardinality(Segment) :
        (id <= Len(stream) /\ \A k \in 1..id : stream[k] \notin Undecodable)
            ~> (id <= cursor /\ id \notin pel)

\* A request brings an answer that is taken, unless something fails.
RequestsAreAnswered ==
    \A session \in Session :
        pending[session].requested
            ~> (~pending[session].requested \/ faults > 0)

\* A buffered segment whose speaker an answer under way names is shown,
\* unless something fails or the storage refuses a point of its session: the
\* entry is removed before the upserts, and Qdrant takes no id like those of
\* voice_point_id (handle_resolution_payload, storage.rs 305).
Named(segment) ==
    /\ \A tag \in Tag : <<SessionOf[segment], tag>> \notin Refused
    /\ segment \in ToSet(pending[SessionOf[segment]].segments)
    /\ \E i \in DOMAIN resolutions :
        /\ resolutions[i].session = SessionOf[segment]
        /\ TagOf[segment] \in NamedBy(resolutions[i].names)

NamedSegmentsAreShown ==
    \A segment \in Segment :
        Named(segment) ~> (showings[segment] > 0 \/ faults > 0)

-----------------------------------------------------------------------------
(* Refinement *)

TD == INSTANCE TranscriptDelivery WITH
          published <- ToSet(stream),
          known     <- upserted

\* The loop implements the promise.
DeliversTranscripts == TD!Spec

=============================================================================
