----------------------------- MODULE ArchiveJobs ------------------------------
(***************************************************************************)
(* Archive transcription: `tetoscribe process` (teto-cli) puts a path on    *)
(* the Redis list of jobs; the worker's archive task (job_processor.rs,     *)
(* listen_archive_jobs) takes one, decodes the file, sends all of it to a   *)
(* Riva session, then reads all replies, makes the fingerprints and         *)
(* publishes the segments.                                                  *)
(*                                                                         *)
(* Chunk k of a file is <<path, k>>, and one utterance ends in it, which    *)
(* Riva reports with the times of the bytes it counted.                     *)
(***************************************************************************)
EXTENDS RedisQueues, RivaSession, AudioClock

CONSTANTS
    Path,         \* files
    Undecodable,  \* those read_audio_file fails on
    FileInfo,     \* the AudioInfo decoded from a file
    FileLength,   \* the bytes of its samples
    RivaInfo,     \* riva_audio_info, and what recognition_config tells Riva
    ChunkBytes    \* TETO_FILE_CHUNK_BYTES

ASSUME FileAssumption ==
    /\ Undecodable \subseteq Path
    /\ RivaInfo \in AudioInfo
    /\ ChunkBytes \in Nat \ {0}
    /\ \A path \in Path : /\ FileInfo[path] \in AudioInfo
                          /\ FileLength[path] \in Nat

\* chunk_bytes: the last chunk may be shorter.
ChunksOf(path) == (FileLength[path] + ChunkBytes - 1) \div ChunkBytes

ASSUME ChunksAssumption ==
    /\ Chunk = Utterance
    /\ Chunk = UNION {{path} \X (1..ChunksOf(path)) : path \in Path}
    /\ \A chunk \in Chunk : UtterancesOf[chunk] = <<chunk>>

VARIABLES
    jobs,       \* the list TETO_ARCHIVE_JOBS
    apc,        \* where the task is in run_archive_connected
    job,        \* the path in hand, as the set of at most one
    next,       \* the next chunk to send
    found,      \* segments to publish
    published,  \* segments on the transcription stream
    requested,  \* history: paths in the order they were enqueued
    taken       \* history: paths in the order they left the list

vars == <<requests, senderOpen, heard, replies, reply, faults, jobs, apc, job,
          next, found, published, requested, taken>>

Segment == [utterance : Utterance, excerpt : SUBSET Nat]

TypeOK ==
    /\ SessionTypeOK
    /\ jobs \in Seq(Path)
    /\ apc \in {"pop", "decode", "open", "send", "close", "publish"}
    /\ job \subseteq Path /\ (job = {} <=> apc = "pop")
    /\ next \in Nat
    /\ found \in Seq(Utterance)
    /\ \A i \in DOMAIN found : found[i][1] \in job
    /\ published \in Seq(Segment)
    /\ requested \in Seq(Path) /\ taken \in Seq(Path)

Init ==
    /\ Closed /\ faults = 0
    /\ jobs = <<>> /\ apc = "pop" /\ job = {} /\ next = 1 /\ found = <<>>
    /\ published = <<>> /\ requested = <<>> /\ taken = <<>>

\* process of teto-cli, once per path.
Enqueue(path) ==
    /\ path \notin ToSet(requested)
    /\ jobs' = RPush(jobs, path)
    /\ requested' = Append(requested, path)
    /\ UNCHANGED <<sessionVars, faults, apc, job, next, found, published,
                   taken>>

-----------------------------------------------------------------------------
\* BRPOP, which takes the newest.
TakeJob ==
    /\ apc = "pop"
    /\ jobs # <<>>
    /\ job' = {Popped(jobs)} /\ jobs' = AfterPop(jobs)
    /\ taken' = Append(taken, Popped(jobs))
    /\ apc' = "decode"
    /\ UNCHANGED <<sessionVars, faults, next, found, published, requested>>

Decode ==
    /\ apc = "decode"
    /\ job \cap Undecodable = {}
    /\ apc' = "open"
    /\ UNCHANGED <<sessionVars, faults, jobs, job, next, found, published,
                   requested, taken>>

OpenSession ==
    /\ apc = "open"
    /\ OpenStream
    /\ next' = 1 /\ apc' = "send"
    /\ UNCHANGED <<faults, jobs, job, found, published, requested, taken>>

\* send_stream: nothing is read while chunks are left to send.
SendNext ==
    /\ apc = "send"
    /\ \E path \in job : next <= ChunksOf(path) /\ Send(<<path, next>>)
    /\ next' = next + 1
    /\ UNCHANGED <<faults, jobs, apc, job, found, published, requested, taken>>

\* Mutant: the sender is still there while the replies are read.
KeepSender ==
    /\ apc = "send"
    /\ \A path \in job : next > ChunksOf(path)
    /\ UNCHANGED sessionVars

\* close drops the sender.
CloseSender ==
    /\ apc = "send"
    /\ \A path \in job : next > ChunksOf(path)
    /\ DropSender

CloseSession ==
    /\ CloseSender
    /\ apc' = "close"
    /\ UNCHANGED <<faults, jobs, job, next, found, published, requested, taken>>

\* Mutant: the results of a later reply come first.
LatestFirst == found' = Head(replies) \o found

AllResults == found' = found \o Head(replies)

Collect ==
    /\ apc = "close"
    /\ ReadReply
    /\ AllResults
    /\ UNCHANGED <<faults, jobs, apc, job, next, published, requested, taken>>

\* Mutant: the replies end when none is waiting.
NoneWaiting == apc = "close" /\ replies = <<>>

AllRead == apc = "close" /\ AtEnd

CloseDone ==
    /\ AllRead
    /\ apc' = "publish"
    /\ UNCHANGED <<sessionVars, faults, jobs, job, next, found, published,
                   requested, taken>>

\* The bytes of the decoded samples that chunk k holds.
BytesOf(utterance) ==
    {byte \in 0..(FileLength[utterance[1]] - 1) :
        byte \div ChunkBytes = utterance[2] - 1}

\* Riva's word times: it counts what it hears at the rate it was told.
RivaMs(byte) == (byte * 1000) \div BytesPerSecond(RivaInfo)
RivaStart(utterance) == RivaMs((utterance[2] - 1) * ChunkBytes)
RivaEnd(utterance) ==
    IF utterance[2] = ChunksOf(utterance[1])
    THEN RivaMs(FileLength[utterance[1]])
    ELSE RivaMs(utterance[2] * ChunkBytes)

\* bridge_audio_fingerprints cuts the file by the file's own info.
Bridged(utterance) ==
    [utterance |-> utterance,
     excerpt   |-> AudioSlice(FileLength[utterance[1]], RivaStart(utterance),
                              RivaEnd(utterance), FileInfo[utterance[1]])]

XAdd == published' = Append(published, Bridged(Head(found)))

PublishNext ==
    /\ apc = "publish"
    /\ found # <<>>
    /\ XAdd
    /\ found' = Tail(found)
    /\ UNCHANGED <<sessionVars, faults, jobs, apc, job, next, requested, taken>>

JobDone ==
    /\ apc = "publish"
    /\ found = <<>>
    /\ apc' = "pop" /\ job' = {}
    /\ UNCHANGED <<sessionVars, faults, jobs, next, found, published,
                   requested, taken>>

-----------------------------------------------------------------------------
\* Mutant: the segments of the failed job are kept.
LeaveSegments ==
    /\ apc' = "pop" /\ job' = {}
    /\ DropSession
    /\ UNCHANGED <<jobs, next, found, requested, taken>>

\* An error leaves run_archive_connected, and the job with it.
Leave ==
    /\ apc' = "pop" /\ job' = {} /\ found' = <<>>
    /\ DropSession
    /\ UNCHANGED <<jobs, next, requested, taken>>

DecodeFails ==
    /\ apc = "decode"
    /\ job \subseteq Undecodable
    /\ Leave
    /\ UNCHANGED <<faults, published>>

\* The response stream failed, or nobody receives from the channel any more.
SessionFails ==
    /\ \/ apc = "send" /\ reply # "open"
       \/ apc = "close" /\ AtError
    /\ Leave
    /\ UNCHANGED <<faults, published>>

\* A call fails or the worker restarts; XADD may have worked all the same.
JobFails ==
    /\ apc # "pop"
    /\ Fault
    /\ Leave
    /\ \/ UNCHANGED published
       \/ apc = "publish" /\ found # <<>> /\ XAdd

\* The reply of BRPOP is lost, and the job it took.
JobLost ==
    /\ apc = "pop"
    /\ jobs # <<>>
    /\ Fault
    /\ jobs' = AfterPop(jobs)
    /\ taken' = Append(taken, Popped(jobs))
    /\ UNCHANGED <<sessionVars, apc, job, next, found, published, requested>>

WorkerStep ==
    \/ TakeJob \/ Decode \/ DecodeFails \/ OpenSession
    \/ SendNext \/ CloseSession \/ Collect \/ CloseDone
    \/ PublishNext \/ JobDone \/ SessionFails

RivaStep ==
    /\ RivaHears \/ RivaReports \/ RivaEnds \/ RivaFails
    /\ UNCHANGED <<jobs, apc, job, next, found, published, requested, taken>>

Next ==
    \/ \E path \in Path : Enqueue(path)
    \/ WorkerStep
    \/ RivaStep
    \/ JobFails \/ JobLost

Spec == Init /\ [][Next]_vars

\* One tokio task runs the worker's part; Riva is taken at its best.
Fairness ==
    /\ WF_vars(WorkerStep)
    /\ WF_vars(RivaHears /\ RivaStep)
    /\ WF_vars(RivaReports /\ RivaStep)
    /\ WF_vars(RivaEnds /\ RivaStep)

FairSpec == Spec /\ Fairness

-----------------------------------------------------------------------------
\* What is published of a file, as positions in the stream.
Transcript(path) == {i \in DOMAIN published : published[i].utterance[1] = path}

\* However a job fails, what was published of it is the beginning of its
\* transcript, without a gap or a repetition: its nth segment is its nth
\* utterance (close, publish_segments).
TranscriptsHaveNoGaps ==
    \A path \in Path : \A i \in Transcript(path) :
        published[i].utterance[2] =
            Cardinality({j \in Transcript(path) : j <= i})

\* A decodable job the worker is done with, and not all of it published.
Spoiled(path) ==
    /\ path \in ToSet(taken) \ (job \union Undecodable)
    /\ Cardinality(Transcript(path)) < ChunksOf(path)

\* One failure costs at most one job (run_archive_connected).
FailureCostsOneJob ==
    Cardinality({path \in Path : Spoiled(path)}) <= faults

\* Every enqueued job is worked off, unless something fails.
JobsAreWorkedOff ==
    \A path \in Path :
        (path \in ToSet(jobs))
            ~> (path \in ToSet(taken) \ job \/ faults > 0)

\* README.md 467: the worker "derives local acoustic fingerprints from decoded
\* PCM segments": a segment's excerpt is the audio it was recognised in.
\* True of files of the format Riva is told whose results come at whole
\* milliseconds, not of others (bridge_audio_fingerprints,
\* recognition_config).
ExcerptsAreOwnAudio ==
    \A i \in DOMAIN published :
        published[i].excerpt = BytesOf(published[i].utterance)

=============================================================================
