--------------------------- MODULE ControllerState ---------------------------
(***************************************************************************)
(* The state of the identity loop: what Redis and Qdrant hold, what the    *)
(* controller's two tasks hold in memory, and what was shown to users.     *)
(* The modules StreamListener, BrainResolutionListener and TetoBrain add   *)
(* the actions of the three tasks over this state.                         *)
(***************************************************************************)
EXTENDS RedisQueues

CONSTANTS
    Segment,         \* transcription segments, each published at most once
    Session,         \* session ids
    Tag,             \* speaker tags, in the order of BTreeMap<String, _>
    Voice,           \* voices: classes of fingerprints above the threshold
    Name,            \* people's names
    NoVoice, NoName, \* None, where the code has an Option
    SessionOf, TagOf, VoiceOf,  \* the fields of a segment that matter
    Undecodable,           \* stream entries decode_segment rejects
    BrainRequestSegments,  \* TETO_BRAIN_REQUEST_SEGMENTS
    StreamBatchSize,       \* TETO_STREAM_BATCH_SIZE
    MemoryUp,              \* init_memory returned a Qdrant client
    Refused,               \* points whose id the storage does not take
    CommandBackend,        \* TETO_BRAIN_BACKEND=command, not regex
    Answers,               \* the identity maps the brain may produce
    MaxFaults              \* bound on failed calls and restarts

MaybeVoice == Voice \union {NoVoice}
MaybeName  == Name \union {NoName}

ASSUME NoVoiceAssumption == NoVoice \notin Voice
ASSUME NoNameAssumption  == NoName \notin Name
ASSUME TagAssumption     == Tag \subseteq Nat
ASSUME SegmentAssumption ==
    /\ SessionOf \in [Segment -> Session]
    /\ TagOf \in [Segment -> Tag]
    /\ VoiceOf \in [Segment -> MaybeVoice]
    /\ Undecodable \subseteq Segment
\* env_usize keeps the default unless the value is positive.
ASSUME ConfigAssumption ==
    /\ BrainRequestSegments \in Nat \ {0}
    /\ StreamBatchSize \in Nat \ {0}
    /\ MemoryUp \in BOOLEAN
    /\ CommandBackend \in BOOLEAN
\* voice_point_id sends "session:tag" as a string.  Qdrant takes integers
\* and UUIDs: it refuses every such id.  The storage of the tests takes all.
ASSUME RefusedAssumption   == Refused \subseteq (Session \X Tag)
ASSUME AnswersAssumption   == Answers \subseteq [Tag -> MaybeName]
ASSUME MaxFaultsAssumption == MaxFaults \in Nat

-----------------------------------------------------------------------------
VARIABLES
    \* Redis
    stream,       \* entries of teto:transcriptions; the id is the position
    cursor,       \* last id delivered to the consumer group
    pel,          \* ids delivered and not acknowledged
    brainQueue,   \* list TETO_BRAIN_QUEUE
    resolutions,  \* list TETO_BRAIN_RESOLUTIONS_QUEUE
    \* Qdrant
    memory,       \* the voice collection, by point id
    \* the controller's stream listener
    lpc, batch, named,
    \* the mutex-protected map both controller tasks share
    pending,
    \* the controller's brain resolution listener
    rpc, hand,
    \* the brain process
    brainJob,
    \* what was published on the live channel
    shown, showings, announced,
    \* histories for the properties
    buffered, upserted, faults

redisVars    == <<stream, cursor, pel, brainQueue, resolutions>>
listenerVars == <<lpc, batch, named>>
resolverVars == <<rpc, hand>>
liveVars     == <<shown, showings, announced>>
vars == <<stream, cursor, pel, brainQueue, resolutions, memory, lpc, batch,
          named, pending, rpc, hand, brainJob, shown, showings, announced,
          buffered, upserted, faults>>

-----------------------------------------------------------------------------
\* PendingSession.  Its transcript is one line per element of segments.
PendingSession ==
    [segments : Seq(Segment), prints : [Tag -> MaybeVoice],
     requested : BOOLEAN]

\* A session the map has no entry for: an entry always has a segment.
NoEntry == [segments  |-> <<>>,
            prints    |-> [tag \in Tag |-> NoVoice],
            requested |-> FALSE]

Fingerprinted(entry) == {tag \in Tag : entry.prints[tag] # NoVoice}

BrainRequest  == [session : Session, tags : SUBSET Tag]
BrainResponse == [session : Session, names : [Tag -> MaybeName]]

Requests(session, tags) == [session |-> session, tags |-> tags]

NoNames == [tag \in Tag |-> NoName]
NamedBy(names) == {tag \in Tag : names[tag] # NoName}

\* voice_point_id: one Qdrant point per session and speaker tag.
PointId == Session \X Tag
Point   == [voice : MaybeVoice, name : MaybeName]
NoPoint == [voice |-> NoVoice, name |-> NoName]

Shown     == [segment : Segment, name : MaybeName]
Announced == [session : Session, tag : Tag, name : Name]
Upserted  == [session : Session, tag : Tag, voice : Voice, name : Name]

\* The locals of handle_resolution_payload: the removed entry, the names
\* still to apply, and the positions of segments still to be replayed.
Hand == [session : Session, entry : PendingSession,
         names : [Tag -> MaybeName], todo : SUBSET Tag, left : SUBSET Nat]
NoHand == [todo |-> {}]

NoJob == [tags |-> {}]

\* A call to Redis or Qdrant failed, or a process restarted.
Fault == faults < MaxFaults /\ faults' = faults + 1

\* emit_final_transcript_to_connection of either task: PUBLISH on the live
\* channel, and live_tx.send.
Show(segment, name) ==
    /\ shown' = shown \union {[segment |-> segment, name |-> name]}
    /\ showings' = [showings EXCEPT ![segment] = @ + 1]
    /\ UNCHANGED announced

TypeOK ==
    /\ stream \in Seq(Segment)
    /\ cursor \in 0..Len(stream)
    /\ pel \subseteq 1..cursor
    /\ brainQueue \in Seq(BrainRequest)
    /\ resolutions \in Seq(BrainResponse)
    /\ memory \in [PointId -> Point]
    /\ lpc \in {"poll", "match", "emit", "buffer", "ack"}
    /\ batch \subseteq pel
    /\ lpc = "poll" => batch = {}
    /\ named \in MaybeName
    /\ pending \in [Session -> PendingSession]
    /\ rpc \in {"idle", "upsert", "announce", "replay"}
    /\ IF rpc = "idle" THEN hand = NoHand ELSE hand \in Hand
    /\ brainJob \in BrainRequest \union {NoJob}
    /\ shown \subseteq Shown
    /\ showings \in [Segment -> Nat]
    /\ announced \subseteq Announced
    /\ buffered \subseteq Segment
    /\ upserted \subseteq Upserted
    /\ faults \in 0..MaxFaults

StateInit ==
    /\ stream = <<>> /\ cursor = 0 /\ pel = {}
    /\ brainQueue = <<>> /\ resolutions = <<>>
    /\ memory = [id \in PointId |-> NoPoint]
    /\ lpc = "poll" /\ batch = {} /\ named = NoName
    /\ pending = [session \in Session |-> NoEntry]
    /\ rpc = "idle" /\ hand = NoHand
    /\ brainJob = NoJob
    /\ shown = {} /\ showings = [segment \in Segment |-> 0]
    /\ announced = {}
    /\ buffered = {} /\ upserted = {} /\ faults = 0

=============================================================================
