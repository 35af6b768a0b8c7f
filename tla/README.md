# TetoScribe in TLA+

TetoScribe turns audio into transcripts with the speakers' names. This directory
models the parts of it whose correctness depends on order, failure and shared
state, checks them with TLC on small instances, and proves with TLAPS what
matters most for all instances. Paths and lines below are those of the
repository; `PROJECT.json` lists for every definition the lines it translates.

## 1. The system

| component | code | state it keeps | operations | interacts with |
|---|---|---|---|---|
| CLI | `teto-cli/src/main.rs` | none | `process(path)`: RPUSH | archive jobs list |
| worker, archive task | `job_processor.rs` 83-166 | the job in hand | BRPOP, decode, transcribe, fingerprint, XADD | jobs list, Riva, transcription stream |
| worker, live task | `job_processor.rs` 95-231 | subscription, Riva session, `AudioTimeline` | subscribe, push, send, receive, XADD, close | Pub/Sub channel, Riva, transcription stream |
| Riva session | `riva_client.rs` 69-199 | `mpsc` channel of 128, response stream | `send_chunk`, `send_stream`, `recv_next`, `close` | Riva (external) |
| audio timeline, slices | `job_processor.rs` 309-464 | entries, `offset_ms` | `push`, `audio_for_range`, `audio_slice_for_time_range` | both worker tasks |
| acoustic fingerprints | `job_processor.rs` 466-547 | none | floating point over samples | both worker tasks |
| WAV decoder | `audio.rs` | none | `decode_audio_bytes` | archive task |
| stream listener | `queue.rs` 110-351, 705-763 | batch in hand; the group's cursor and PEL in Redis | read, retry, match, emit, buffer, dispatch, acknowledge | voice memory, shared map of sessions, brain queue |
| brain resolution listener | `queue.rs` 360-592 | the session's entry in hand | take answer, upsert, announce, replay | voice memory, shared map, live channel |
| voice memory | `storage.rs` | one Qdrant point per session and speaker tag | `match_voice`, `upsert_voice_identity` (`index_transcript` is called by nothing) | both listeners |
| brain | `teto-brain/src/main.rs` | the request in hand | BRPOP, `infer` (regex engine or local command), LPUSH | brain queue, resolutions list |
| live WebSocket | `queue.rs` 607-703 | two broadcast receivers per client | fan-out of segments and identity events | both listeners |
| protocol | `teto-protocol/src/lib.rs` | none | types and their JSON | all |

A segment travels so: worker → stream → stream listener. A segment whose voice is
known is shown at once. The others are buffered by session in a map that both
controller tasks lock; when a session has enough segments the brain is asked who
speaks. The answer comes back to the other task, which removes the session's entry,
stores each named voice, announces it, and shows that speaker's buffered segments.

What is hard here, and what must hold (`PROJECT.json` lists every place under
`hazards`):

- *Redis is at-least-once, the code adds its own windows.* The work on a stream entry
  and its XACK are two calls, a reply may be lost, the process may stop between them.
  No entry may be acknowledged unhandled, retries must not overtake, a segment shown
  twice must have cost a failure.
- *Two tasks share the sessions.* The answer may remove an entry while the listener is
  between `match_voice` and the lock. No second request, no request forgotten, no
  segment lost without a reason one can name.
- *One step of several fails.* The entry is gone from the map before the upserts,
  announcements and replays. Names shown must have been stored before, on every path.
- *Tasks wait for each other.* The worker sends and receives in one task, through
  bounded buffers.
- *Several controllers share one group.* They read one stream and one list of answers,
  but each keeps its own buffered segments. Each entry must be somebody's, and worked on
  by nobody else; an answer must find who asked.
- *A client may be slow.* It may miss what overran it, and nothing else.
- *A command talks through pipes* nobody drains while the other side writes.
- *A file says how long its parts are.* Samples must lie inside it and be whole frames.
- *Two clocks.* Riva counts the audio it heard, the worker counts chunks rounded up to
  milliseconds, a file has a rate of its own. The fingerprint must be made from the
  audio of the utterance.

## 2. Modules

| module | what it is |
|---|---|
| `RedisQueues` | RPUSH, LPUSH, BRPOP, `XREADGROUP COUNT` on the values of keys (external) |
| `ControllerState` | constants with their assumptions, all variables of the identity loop, their types and initial values |
| `StreamListener` | the stream listener's actions, and its failures |
| `BrainResolutionListener` | the resolution listener's actions, and its failures |
| `TetoBrain` | the brain's loop; what a backend may answer |
| `IdentityLoop` | composes the three, adds publication and restarts; the properties |
| `TranscriptDelivery` | the abstract specification: what readers of the live channel are promised |
| `AudioClock` | milliseconds to bytes and back (pure) |
| `AudioTimeline` | the live timeline as a state machine, excerpts from it |
| `RivaSession` | the channel, Riva (external) and its replies, for both worker tasks |
| `LiveAudio` | the live task over a `RivaSession` |
| `ArchiveJobs` | CLI, jobs list and archive task over a `RivaSession` and `AudioClock` |
| `AtLeastOnce` | the abstract specification: what workers that publish entries are promised |
| `Controllers` | the set of controllers, for the next three |
| `ConsumerGroup` | several controllers reading one stream as one group: XPENDING, reading from `0` and `>`, XACK, and their failures |
| `LiveFanout` | the two broadcast channels of each controller and the task of each WebSocket client |
| `ControllerGroup` | composes the two, with buffered segments and answers; restarts |
| `RegexIdentity` | `RegexIdentityEngine::infer`, line by line and tag by tag |
| `BrainCommand` | `CommandBrainBackend::infer`, the command (external) and the three pipes |
| `BrainBackends` | either backend of `brain_backend_from_env` |
| `WavDecoder` | `decode_audio_bytes`: the scan over a file's chunk headers |
| `RivaResults` | speaker tag and time range of a final result (pure) |
| `ArchiveAudio` | composes the two: decoder, a result, the excerpt of its audio |
| `MC...` | small instances for TLC |
| `IdentityLoopProofs`, `HandlingProofs`, `TimelineProofs`, `LiveAudioProofs`, `ArchiveJobsProofs`, `ControllerGroupProofs`, `BrainBackendsProofs`, `ArchiveAudioProofs` | theorems |

`StreamListener`, `BrainResolutionListener` and `TetoBrain` EXTEND `ControllerState`;
`IdentityLoop` EXTENDS the three and instantiates `TranscriptDelivery` with the
refinement mapping `published <- ToSet(stream)`, `known <- upserted`. `LiveAudio` and
`ArchiveJobs` EXTEND `RivaSession`: they are separate specifications, since the two
worker tasks share nothing but the stream they append to. `IdentityLoop!Publish` stands
for both. `ControllerGroup` EXTENDS `ConsumerGroup` and `LiveFanout` and instantiates
`AtLeastOnce` with `published <- Len(stream)`, the entries with a handling as `handled` and
those acknowledged as `done`. It takes what a controller does with one entry or answer as
one step: `IdentityLoop` has the steps in between for one controller, `ControllerGroup` has
several controllers. `BrainBackends` is the inside of the brain's answer, which the loop
takes from the set `MayAnswer`; `ArchiveAudio` is the inside of a slice of `ArchiveJobs`.

### How state and actions correspond to the code

**Identity loop.** `lpc` and `rpc` say where each controller task is between two awaits;
one action is what the code does from one await to the next.

| variable | code |
|---|---|
| `stream`, `cursor`, `pel` | `TETO_TRANSCRIPTION_STREAM`, the group's last-delivered id, its PEL |
| `batch`, `named` | the ids of the last XREADGROUP reply, the matched name |
| `pending` | `Arc<Mutex<HashMap<String, PendingSession>>>` |
| `brainQueue`, `resolutions` | the two Redis lists: RPUSH/BRPOP, a stack, and LPUSH/BRPOP, a queue |
| `brainJob`, `hand` | the brain's request; the removed entry with the names still to apply |
| `memory` | the voice collection, by `voice_point_id(session, tag)` |
| `shown`, `showings`, `announced` | what was published on the live channel |
| `buffered`, `upserted`, `faults` | histories for the properties |

- A segment has a session, a tag and a voice. A voice is a class of fingerprints that
  match one another above the threshold; `match_voice` asks for one point, which of
  several equally good ones is left open. Texts, scores and times are dropped.
- `buffer_unknown_segment` holds the mutex from the lookup to after the dispatch, so it
  is one action. `match_voice` runs before the lock is taken, so it is another one.
- `TakeResolution` merges BRPOP with the removal of the entry: a pop from the tail
  commutes with everything the other tasks do to that list.
- Every awaited call fails without effect or after its effect (`...Fails`,
  `...ReplyLost`), by at most `MaxFaults` failures altogether. `ControllerRestarts` clears
  both tasks and the map and leaves Redis and Qdrant.
- `MayAnswer`: the regex engine keeps the session and may name any speaker, also one nobody
  asked about; the output of a command is deserialised and used as it is.
- `Refused` is the set of points the storage does not take. Qdrant takes numbers and UUIDs as
  ids, and `voice_point_id` makes strings of another kind, so with Qdrant every upsert fails
  (`UpsertRefused`). The runs have a storage that takes all points, or in `loop_refinement`
  those of one session: they show what the code does with ids the storage takes, and what
  becomes of a session when it does not. The theorems hold for every set `Refused`, the one
  of all points included.

**Live task.** `lw` is where `run_live_connected` is, `inbox` the messages of the
subscription, `requests`/`replies` the two directions of the Riva session. A reply is the
sequence of utterances it has a final result for; an interim reply is empty. `timeline` is
the entries of `AudioTimeline`, `spoken` (a history) what the last session's channel took:
Riva counts its times along `spoken`, and the code looks them up on `timeline`, so that
`AudioOf` is the entry at the place where the utterance was spoken, or nothing. That the two
are the same sequence is a property of the code, not of the model: a timeline kept over a
reconnect, or pushed after it is needed, gives other audio. Of a range the part in the
utterance's last chunk is looked at; `AudioTimeline` has whole ranges, and the drift.

**Archive task.** A file is `FileLength` bytes in a format `FileInfo`; chunk `k` is
`<<path, k>>`. Riva's times are computed from the bytes it was sent at the rate it was
told, slices from the file's own rate, as the code does.

**Group of controllers.** `phase` is where each controller's listener is: about to ask
XPENDING (`poll`), to read its own pending entries or new ones, to handle or to acknowledge
the first entry of its `batch`. `pel` is by consumer name (`ConsumerOf`), not by controller.
`kept` and `requested` are each process's `PendingSession`s, `underWay` counts requests and
answers of a session wherever they are, since it does not matter where. `ResolverFails` loses
one of them, before it is applied or between the removal of the entry and its last replay.
`stored` stands for the voice collection: a session has one speaker here. A dispatch to the
brain that fails, and an upsert Qdrant refuses, are in the identity loop only. `handlings`
and `faults` are histories.

**Live channel.** `sent` counts what each controller put on each of its channels; an item
is its position. `link` is a client's connection: `next` what each receiver has passed
over, `got` and `lagged` histories. A receiver more than `Capacity` behind is told so once
and moved to the oldest item kept, as tokio's `broadcast` does.

**Brain backends.** Speakers and names are numbers in the order of the maps that hold them.
Of a line's text two sets matter: the names an alias of which occurs in it, and those whose
canonical form follows a marker such as "i am". Configured names that become equal when
trimmed, which the code keeps as two entries, are left out. `line` and `todo` are where the
two loops of `infer` are. Of the command, `pipe` has how full each pipe is, `child` what it
is doing; it may read, write and end as it likes.

**Archive audio.** What a chunk header says is chosen when the scan reaches it: no byte is
read twice, so the choices make up every file of that length. `fmt` and `data` hold the
last chunk of their kind. A result's words are chosen freely, and its excerpt is the set of
sample bytes cut out of the file.

## 3. Runs

All run with `tlc -config X.cfg M`. The type invariants of `timeline`, `controller_group`,
`brain_backends` and `archive_audio` are proved (section 5) and not run. Deadlock is not
checked: every task of the system blocks on an empty queue when there is nothing to do, so a
quiet system stops.

| run | bounds | shows |
|---|---|---|
| `loop_safety` | four segments, two sessions, one voice misheard, threshold 2, two failures or restarts anywhere | `TypeOK`, `AckedWasHandled`, `FingerprintsCoverSegments`, `DuplicatesNeedFaults`, `FailureStrandsOneSession`, `NoSilentLoss`; and while nothing has failed `RequestedIffUnderWay`, `TranscriptInStreamOrder` |
| `loop_liveness` | two speakers, a segment without fingerprint, an entry that does not decode, threshold 1, one failure, fair tasks | `AcksInOrder`, `StreamDrains` up to the undecodable entry, `RequestsAreAnswered`, `NamedSegmentsAreShown` |
| `loop_refinement` | three segments, a command backend that answers for any session and tag, a storage that refuses the second session's points, one failure | the refinement of `TranscriptDelivery` |
| `timeline` | all timelines of up to four chunks, 3 bytes to 2 ms | `DriftIsBounded`, `ExcerptInChunkIsExact`, `NoLaterAudio` |
| `live_audio` | three messages, one empty, up to two results per reply, two failures, fair tasks and Riva | `TypeOK`, `PublishedOnce`, `SegmentsAreAcoustic`, `FirstResultsArePublished` |
| `controller_group` | two controllers with names of their own, two entries of a session, batch of two, capacity 1, one client that connects once, one failure, lost reply or restart, fair tasks | `HandlingsNeedFaults`, `AnswersHaveAskers`, `GapsNeedOverrun`, `GroupDrains`, `ItemsReachClients` and the refinement of `AtLeastOnce` |
| `brain_backends` | all transcripts of up to four lines of three speakers and a bogus tag, four texts, three names; a request larger than a pipe, a command that writes up to twice what a pipe holds; fair brain and command | `AnswerIsExpected`, `EliminationIsOneToOne`, `EliminationIsComplete`, `AnswersAreWhole`, `InferEnds` |
| `archive_audio` | files of nine lengths up to 76 bytes, any chunk headers, eight formats; eight sets of words | `SamplesInFile`, `SamplesAreFrames`, `ExcerptOnFrames`, `ExcerptCoversWords` |
| `archive` | three jobs, one undecodable, two failures, room for all replies, fair tasks and Riva | `TypeOK`, `TranscriptsHaveNoGaps`, `FailureCostsOneJob`, `ExcerptsAreOwnAudio`, `JobsAreWorkedOff` |

**Bounds.** Two sessions, two tags, two voices and two names are the least with which a
name can end up on the wrong session, the wrong speaker or the wrong voice; the segments
are chosen so that a voice returns in another session and a speaker is misheard once. A
batch of two is the least with an order in it. A threshold of 2 makes a session wait, of 1
makes it ask again after an answer. Two failures allow a failure during the recovery from
another. The brain of the first two runs names the first speaker or nobody, so that an
answer may leave a speaker out; the one of `loop_refinement` names both or nobody, so that
an answer is applied to one speaker after the other. Chunks of 0, 1, 2, 3 and 6 bytes last
1, 1, 2, 2 and 4 ms: an empty chunk, rounding, and whole chunks with an inside. The
archive's reply window never blocks in `archive` (with a window of one reply both sides
come to wait for each other, section 4); the real limits are a channel of 128 chunks and
HTTP/2 flow control. Two results to a reply are enough for one to be dropped (section 4);
`FirstResultsArePublished` says what holds of the first one. Two failures make three live
sessions, so that a timeline may be old.

Two controllers are the least that can take each other's entries and answers; two entries
in a batch of two are the least with which one of them delivers while the other reads. A
capacity of 1 lets the replay of two segments overrun a client, and one failure is enough to
have an entry pending while the neighbour reads. With two sessions and two failures the
safety properties hold over 710 000 states; the run keeps one of each because its liveness
properties need the smaller graph. Elimination needs as many speakers as
names with two or more of them left over to mix them up, hence three and three; a fourth
line lets a bogus tag take a name from three silent speakers. Lengths of files are chosen
around the header (11, 12), a header without room for its chunk (31), one chunk of each
kind (36, 44, 52), an odd rest (61) and a chunk of each kind twice (76); chunk sizes around
the 16 bytes of a `fmt` chunk and past the end of the file. One rate is not a whole number
of samples per millisecond.

**Fairness.** `main.rs` of the controller, the brain and the worker spawn each loop as one
tokio task, and a task whose call completes runs again: weak fairness of each task's steps.
In `controller_group` every controller is started again when it stops, under its own
name, and each client's task goes on. A command in `brain_backends` waits for nothing but
its pipes and writes a bounded amount; `InferEnds` then says that `infer` comes back unless
both wait at full pipes for ever (`CrossedPipes`).
None is assumed of failures, of publishers or of whoever enqueues. Of Riva it is assumed
that it hears what it is sent, reports what it heard and ends its stream when told, the
best the worker can hope for: what goes wrong in `live_audio_stalls` goes wrong in spite
of it.

## 4. Where code and documents disagree

Three runs expect a violation; each checks one statement of the repository.

| run | statement | what the code does |
|---|---|---|
| `timeline_across_chunks` | `job_processor.rs` 645: 50..150 ms of two 100 ms chunks has 3200 bytes | entries the range extends beyond are skipped: 1600 bytes |
| `live_audio_stalls` | README.md 5: "archive/live dispatcher" | after the first message the task waits for the end of the response stream |
| `archive_formats` | README.md 435 and 467: WAV files, fingerprints from decoded PCM segments | Riva is told the configured rate, slices use the file's: other audio |

More things the models show, most of which no statement of the repository denies:

- The id of a voice's point is "session:tag" (`storage.rs` 305), sent as a string, and
  Qdrant takes numbers and UUIDs only. Every upsert is then refused, after the session's
  entry was removed: no name is stored or announced and no buffered segment is shown, for
  all that README.md 464 says that the controller "upserts voice identity to Qdrant and
  replays resolved transcript segments". `NamedSegmentsAreShown` is stated for sessions none
  of whose points is refused, and `loop_liveness` has `Refused = {}`; with all points in it
  and no such condition the property fails without a failure. `NoSilentLoss` names the
  refusal among the ways to lose segments.
- When a reply of Riva holds several final results, `recv_next` returns the first from
  within its loop and drops the others (`riva_client.rs` 109). `FirstResultsArePublished` is
  stated for the first ones; README.md 419 speaks of filtering interim results only.
- A session below the request threshold is never asked about and its segments are never
  shown; nor are those of speakers an answer leaves out. README.md 209 says segments are
  published "and the controller will emit WebSocket events".
- A later answer for a session and tag overwrites the stored voice (`storage.rs` 143 and
  305), so that a segment shown by its first voice may not match any more;
  `identity_loop.rs` 134 compares the two in a session with one answer.
- A request the brain popped and lost, or an answer the controller popped and lost, leaves
  its session marked and silent for ever: it asks no more, and is forgotten only when the
  controller restarts. `FailureStrandsOneSession` bounds such sessions by the failures.
- A controller that does not come back under its consumer name leaves its pending entries
  to nobody: there is no XCLAIM, and as XPENDING counts them for the whole group
  (`queue.rs` 705-723) every other controller asks for its own pending entries for ever and
  reads no new one. `GroupDrains` needs fairness for every controller.
- `TETO_CONTROLLER_CONSUMER` has one default for all: two controllers started with it read
  each other's pending entries and handle entries twice without any failure.
  `HandlingsNeedFaults` is stated for names that differ; `HandlesAtLeastOnce` holds anyway.
- BRPOP gives an answer to any controller. One that has no segments of the session drops it,
  and the one that asked keeps the segments and its mark, and asks no more. `Resolve` does so,
  `AnswersHaveAskers` counts and does not see it, and no property says otherwise.
- Requests are a stack too (`queue.rs` 147): a session's request waits as long as others keep
  asking. `loop_liveness` has one session, so nothing overtakes there.
- Clients see what their own controller shows; controllers do publish on a Redis channel as
  well, but nothing reads it.
- The regex engine lowers texts and does not lower canonical names: a capitalised name
  without aliases is never found after a marker, and is given by elimination only. A later
  line overrides an earlier one. An answer may name a tag nobody asked about (a line
  without a colon); the controller skips it.
- A command that writes more than a pipe holds before it has read a request larger than a
  pipe blocks the brain for ever (`CrossedPipes`); nothing times out.
- At a rate like 44.1 kHz the excerpt of an archive segment starts inside a sample:
  milliseconds become bytes without rounding (`job_processor.rs` 444), and the bytes are
  read as samples made of halves of neighbouring ones. `ExcerptOnFrames` is stated for whole
  samples per millisecond. Any format is read as 16 bit mono there, and silence gives a
  vector of zeros.
- A result without word times has a range from 0 on, and its fingerprint is made from all
  audio so far. Without audio the fingerprint depends on the speaker tag alone, the same in
  every session (`job_processor.rs` 517).
- Two controllers that start together may both find a collection missing and both create
  it; the one that fails runs without memory from then on (`storage.rs` 229).
- Without Qdrant (`MemoryUp = FALSE`) an answer from the brain removes the session's entry
  and ends there, so the replay of named segments is lost along with the upserts;
  `main.rs` 39 announces a "degraded mode without voice matching or identity upserts".
- The archive task reads nothing before the whole file is sent. With a Riva that reads no
  further request while it cannot write a reply, as a synchronous gRPC handler does, both
  sides wait for each other for ever (`ReplyWindow = 1`).
- The live task never reaches a result through `close`: it leaves `recv_next` only at the
  end of the response stream, so the publication after `close` (`job_processor.rs` 219-224)
  has nothing to publish, and `LiveAudio` has no action for it.
- Jobs are pushed and popped at the same end of their list: the last one in is worked on
  first, and an old job waits as long as newer ones keep coming. `JobsAreWorkedOff` holds
  because the run's jobs are finitely many.

## 5. Proofs

`tlapm` checks these for all sets of segments, sessions, tags, voices and names, all
answers, thresholds, batch sizes and numbers of failures, all chunks and replies of Riva
and all sizes of its buffers, all sets of controllers and clients, all transcripts, files
and results. Every invariant and every action property of the passing runs has its theorem.
The assumptions are the `ASSUME`s of the
modules: a segment's fields have their types, absent values are not values, the configured
numbers are positive (`ControllerState`, `ConsumerGroup`, `LiveFanout`, `ControllerGroup`);
an utterance ends once, in one chunk (`RivaSession`); there are finitely many controllers
(`Controllers`); `LiveInfo` is a format
(`AudioTimeline`); tags and names are numbered and finitely many (`RegexIdentity`); a pipe
holds something (`BrainCommand`); sets of words are finite (`ArchiveAudio`).

Four theorems have a hypothesis of their own. `MarkedIffAsked` and `StrandingTakesFailures`
are about the regex backend (`~CommandBackend`): the output of a command may name another
session, whose entry it removes or whose answer it takes the place of. `ExcerptsAreExact`
and `ExcerptsAreNearlyOwn` are about files of the format Riva is told (`FormatIsTold`;
`archive_formats` shows why). The first needs chunks and files of whole milliseconds as well
(`TimesAreWhole`): Riva's times are whole milliseconds, so that no other boundary comes back
exactly. The defaults, 32 768 bytes at a time of 16 kHz mono with 16 bits, are chunks of
1024 ms, and the instance of the run `archive` meets both hypotheses. The second has no such
hypothesis and says how far off an excerpt may be.

| theorem | statement | inductive invariant |
|---|---|---|
| `TypeCorrect` | `Spec => []TypeOK` | `TypeInvariant`: `TypeOK`, and what the resolver holds in `hand` fits where it is (`HandOK`) |
| `AcksAreInOrder` | `Spec => []AcksInOrder` | `OrderInvariant`: plus `BatchIsOldest`, the batch is a lower part of the PEL; without it an acknowledgement could come from the middle |
| `AcknowledgedWasHandled` | `Spec => []AckedWasHandled` | `HandlingInvariant`: plus `AckFollowsHandling`, at "ack" the current entry was handled |
| `TranscriptsAreInStreamOrder` | `Spec => []TranscriptInStreamOrder` | `BufferInvariant`: while nothing failed each session's buffer is in stream order and holds no entry from the current one on |
| `NothingIsSilentlyLost` | `Spec => NoSilentLoss` | a step property: over the invariants above and what the resolver holds to replay, each action keeps a segment in one of the places it can be in, or shows it, or fails |
| `DuplicatesTakeFailures` | `Spec => []DuplicatesNeedFaults` | `BudgetInvariant`: showings, buffered copies, copies in the resolver's hands and entries still to be handled of a segment are at most one more than the failures; the showings alone are not inductive |
| `MarkedIffAsked` | `~CommandBackend` gives `Spec => []RequestedIffUnderWay` | the property is inductive over the types, by the counts of pushes and pops: each step that sets or clears a mark adds or removes one payload of its session |
| `StrandingTakesFailures` | `~CommandBackend` gives `Spec => []FailureStrandsOneSession` | `StrandedInvariant`: plus that finitely many sessions are stranded; a step without failure strands none, each failure takes one payload, of one session, away |
| `BufferedSegmentsAreCovered` | `Spec => []FingerprintsCoverSegments` | `CoverInvariant`: plus that a listener about to buffer has a segment with a voice, and entries hold published segments |
| `ShownNamesWereLearned` | `Spec => []NamesWereLearned` | `NamingInvariant`: every name in memory was upserted with that voice, the name a listener is about to show comes from memory, the resolver announces and replays only after its upsert |
| `LoopImplementsDelivery` | `Spec => DeliversTranscripts` | the same: each step of the loop is a step of `TranscriptDelivery` or a stutter |
| `DriftBound` | `Spec => [](TypeOK /\ DriftIsBounded)` | `TimelineInvariant`: plus that no entry starts before its audio |
| `ExcerptsHoldNoLaterAudio` | `Spec => []NoLaterAudio` | the same, with the bounds of integer division |
| `ExcerptsInChunksAreExact` | `Spec => []ExcerptInChunkIsExact` | `ExactInvariant`: entries lie one after the other (`EntriesFollow`), so that a range inside one overlaps no other; with chunks of whole milliseconds an entry's times are its bytes (`TimesAreExact`) |
| `LiveAudioProofs!TypeCorrect` | `Spec => []TypeOK` | inductive as it stands |
| `NothingIsPublishedTwice` | `Spec => []PublishedOnce` | `ChunkInvariant`: a message is in one of inbox, hand and sent, once. `UtteranceInvariant`: an utterance is in one of Riva's memory, its replies, the worker's hands and the stream, once, and its chunk has arrived; without the latter it could be heard again |
| `AudioIsAtHand` | `Spec => []SegmentsAreAcoustic` | `TimelineInvariant`: the timeline is in step with what the session's channel took (`InStep`), and what is on its way to Riva, or back, was said in a chunk of this session |
| `ArchiveJobsProofs!TypeCorrect` | `Spec => []TypeOK` | `JobInvariant` and `PlaceInvariant`: a path is in one of the list, the hand and the past; what the place of the task says of its session |
| `TranscriptsAreBeginnings` | `Spec => []TranscriptsHaveNoGaps` | `PipelineInvariant`: what was published, found, replied, heard and sent of the job in hand are consecutive runs of its utterances, in this order, up to `next` |
| `OneFailureOneJob` | `Spec => []FailureCostsOneJob` | `FaultInvariant`: counts the job in hand already when it can no more be published whole (`Broken`) |
| `ExcerptsAreExact` | `FormatIsTold`, `TimesAreWhole` give `Spec => []ExcerptsAreOwnAudio` | `ExcerptInvariant`: a published segment is `Bridged` of its utterance; milliseconds to bytes and back are inverse on whole milliseconds |
| `ExcerptsAreNearlyOwn` | `FormatIsTold` gives that an excerpt begins and ends less than a millisecond and a byte before its utterance does, for all sizes of chunks and files | the same; both conversions round down |
| `GroupHandlesAtLeastOnce` | `Spec => HandlesAtLeastOnce` | `HandledInvariant`: what is acknowledged was handled, and so was what a controller is about to acknowledge; the refinement needs it where an entry is handled again after another controller acknowledged it |
| `EntriesAreHandledOnce` | `Spec => []HandlingsNeedFaults` | `CountInvariant`: with names of their own, controllers work on entries they own and no two own the same (`Owned`); each handling but the one that settles an entry has a fault of its own (`HandlingsCounted`) |
| `AnswersHaveTheirAskers` | `Spec => []AnswersHaveAskers` | `AskingInvariant`: the property is inductive over the types; one step adds an answer with an asker, one removes an answer with at most an asker |
| `ClientsMissOnlyOverruns` | `Spec => []GapsNeedOverrun` | `FanoutInvariant`: also for connections that are closed |
| `NamesByEliminationAreDistinct` | `Spec => []EliminationIsOneToOne` | `OneToOneInvariant`: elimination begins after the last line |
| `EliminationNamesAllOrNone` | `Spec => []EliminationIsComplete` | `CompleteInvariant`: once a name was given, as many names as speakers are left; a speaker left over is ahead of the loop or the numbers differ |
| `AnswersAreAsSaid` | `Spec => []AnswerIsExpected` | `AnswerInvariant`: `HeardInvariant`, who was not named by elimination is called as in the lines read so far; `RankInvariant`, who was has the rank of the name, and everybody and every name left comes after. The two loops then give what one definition over the whole transcript says |
| `AnswersAreDecodedWhole` | `Spec => []AnswersAreWhole` | `CommandInvariant`: what was written was collected or is in a pipe, and output is awaited only after the whole request was written |
| `SamplesStayInFile`, `SamplesAreWholeFrames` | `Spec => []SamplesInFile`, `Spec => []SamplesAreFrames` | `DecoderInvariant`: at most one format and one data chunk, the latter behind the headers (`ScanIsBehindHeader`) and inside the file; what was decoded has whole frames |
| `SegmentsAreOrdered`, `ExcerptsCoverWords`, `ExcerptsAreOnFrames` | `Spec => []SegmentIsOrdered`, `Spec => []ExcerptCoversWords`, `Spec => []ExcerptOnFrames` | `ExcerptInvariant`: segment and excerpt are those of the result; the conversion to bytes is monotone; a finite set of times has a least and a greatest (by least counterexample, instead of induction); with whole samples per millisecond both ends are multiples of a frame |
| `ControllerGroupTypes`, `BackendTypes`, `ArchiveAudioTypes` | `Spec => []TypeOK` of their modules | the invariants above; of the first, that a reply of XREADGROUP is the interval after the cursor |

Model-checked only: all liveness, that is `StreamDrains`, `RequestsAreAnswered`,
`NamedSegmentsAreShown`, `FirstResultsArePublished`, `JobsAreWorkedOff`, `GroupDrains`,
`ItemsReachClients` and `InferEnds`: these need fairness and ENABLED, for which this prover
has no rule. Proved and in no run: `NamesWereLearned`, which speaks of the history of names
stored and follows in a run from the refinement of `TranscriptDelivery`.

## 6. Not modelled

- *Acoustic fingerprints*: windows over the samples and floating-point transforms; the
  models keep which audio a fingerprint is made from and which voices match.
- *Configuration, tracing, build script, shell scripts, HTTP routing*: no state of the
  system's own. Configured values are CONSTANTS.
- *Qdrant's collections, `index_transcript`*: nothing calls the latter.
- *JSON*: an entry decodes or does not.
- *Several workers at once*: they share nothing but lists and the stream, whose commands
  are atomic; each job and each live message is one worker's.
- *Several brains at once*, which may answer requests of one session out of order.
- *Start-up*: `ensure_collections`, `ensure_stream_group`, `connect_with_retry`.

## 7. Plan

Done: the identity loop and its abstract specification; the audio timeline; both worker
tasks; the brain's backends; the archive's audio from file to excerpt; several
controllers in one group with their clients; the theorems of section 5. Left, in this order:

1. An abstract specification of what the two worker tasks promise the stream, in the place
   of `IdentityLoop!Publish`, which `LiveAudio` and `ArchiveJobs` implement.
2. `RegexIdentity` and `BrainCommand` as the brain of `IdentityLoop`, in place of
   `MayAnswer`.
