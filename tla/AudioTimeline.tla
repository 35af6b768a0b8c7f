---------------------------- MODULE AudioTimeline -----------------------------
(***************************************************************************)
(* AudioTimeline of the worker (job_processor.rs) keeps the chunks of a     *)
(* live session and cuts out the audio of a segment.                        *)
(*                                                                         *)
(* A byte is its position in the session's audio, so an excerpt is the set  *)
(* of the positions it holds; the code joins the slices in the order of the *)
(* entries.                                                                 *)
(***************************************************************************)
EXTENDS AudioClock, Sequences

CONSTANTS
    LiveInfo,      \* riva_audio_info, the AudioInfo of live chunks
    ChunkLength,   \* lengths a live chunk may have
    MaxChunks,     \* bound on the chunks of a session
    MaxMs          \* bound on the times asked for

ASSUME LiveInfoAssumption    == LiveInfo \in AudioInfo
ASSUME ChunkLengthAssumption == ChunkLength \subseteq Nat
ASSUME BoundsAssumption      == MaxChunks \in Nat /\ MaxMs \in Nat

-----------------------------------------------------------------------------
VARIABLES
    entries,   \* AudioTimeline.entries
    offset,    \* AudioTimeline.offset_ms
    received   \* bytes pushed so far

timelineVars == <<entries, offset, received>>

Entry == [start : Nat, duration : Nat \ {0}, from : Nat, len : ChunkLength]

TypeOK ==
    /\ entries \in Seq(Entry)
    /\ offset \in Nat
    /\ received \in Nat

Init == entries = <<>> /\ offset = 0 /\ received = 0

Push(len) ==
    /\ entries' = Append(entries,
                         [start    |-> offset,
                          duration |-> ChunkDuration(len, LiveInfo),
                          from     |-> received,
                          len      |-> len])
    /\ offset' = offset + ChunkDuration(len, LiveInfo)
    /\ received' = received + len

Next == Len(entries) < MaxChunks /\ \E len \in ChunkLength : Push(len)

Spec == Init /\ [][Next]_timelineVars

-----------------------------------------------------------------------------
\* The part of [start, end) before the entry is cut off, the part after it
\* is not.
Since(ms, entry) == IF ms < entry.start THEN 0 ELSE ms - entry.start
SliceStart(entry, start) == SampleIndex(Since(start, entry), LiveInfo)
SliceStop(entry, end)    == SampleIndex(Since(end, entry), LiveInfo)

Overlaps(entry, start, end) ==
    start < entry.start + entry.duration /\ entry.start < end

\* Mutant: a slice that ends with its entry is skipped.
EndsBefore(entry, start, end) ==
    /\ SliceStart(entry, start) < SliceStop(entry, end)
    /\ SliceStop(entry, end) < entry.len

\* An entry with less audio than the slice asks for is skipped.
Fits(entry, start, end) ==
    /\ SliceStart(entry, start) < SliceStop(entry, end)
    /\ SliceStop(entry, end) <= entry.len

\* Mutant: every entry gives a slice of the segment's length.
LengthFromEach(start, end) ==
    UNION {LET stop == SampleIndex(Since(start, entry) + end - start, LiveInfo) IN
           {entry.from + byte : byte \in {byte \in SliceStart(entry, start)
                                                   ..(stop - 1) :
                                              stop <= entry.len}} :
           entry \in {entries[i] : i \in
               {i \in DOMAIN entries : Overlaps(entries[i], start, end)}}}

\* audio_for_range; empty where the code returns None.
AudioForRange(start, end) ==
    UNION {{entry.from + byte : byte \in SliceStart(entry, start)
                                         ..(SliceStop(entry, end) - 1)} :
           entry \in {entries[i] : i \in
               {i \in DOMAIN entries : /\ Overlaps(entries[i], start, end)
                                       /\ Fits(entries[i], start, end)}}}

-----------------------------------------------------------------------------
Range == {range \in (0..MaxMs) \X (0..MaxMs) : range[1] < range[2]}

\* The timeline never runs behind the audio, and runs ahead of it by at most
\* a millisecond per chunk: the durations of the chunks are rounded up one by
\* one, and an empty chunk counts for 1 ms (push, chunk_duration_ms).
DriftIsBounded ==
    /\ received * 1000 <= offset * BytesPerSecond(LiveInfo)
    /\ offset * BytesPerSecond(LiveInfo)
           <= received * 1000 + Len(entries) * BytesPerSecond(LiveInfo)

\* However the audio was cut into chunks, an excerpt holds no audio from
\* after the segment's end, that is, of the next speaker (audio_for_range).
NoLaterAudio ==
    \A range \in Range :
        \A byte \in AudioForRange(range[1], range[2]) :
            byte < SampleIndex(range[2], LiveInfo)

\* The chunks pushed so far are all of whole milliseconds.
WholeChunks ==
    \A i \in DOMAIN entries :
        entries[i].len > 0 /\ (entries[i].len * 1000) % BytesPerSecond(LiveInfo) = 0

Exactly(range) ==
    SampleIndex(range[1], LiveInfo)..(SampleIndex(range[2], LiveInfo) - 1)

\* With chunks of whole milliseconds, a segment inside one chunk gets exactly
\* its own audio, up to the last byte of the chunk (audio_for_range).
ExcerptInChunkIsExact ==
    WholeChunks =>
        \A i \in DOMAIN entries : \A range \in Range :
            (/\ entries[i].start <= range[1]
             /\ range[2] <= entries[i].start + entries[i].duration) =>
                AudioForRange(range[1], range[2]) = Exactly(range)

\* job_processor.rs 644 asserts of two chunks of 100 ms that audio_for_range
\* of 50..150 has 3_200 bytes: an excerpt over chunks of whole milliseconds
\* holds all of the range.
ExcerptIsExact ==
    WholeChunks =>
        \A range \in Range :
            range[2] <= offset =>
                AudioForRange(range[1], range[2]) = Exactly(range)

=============================================================================
