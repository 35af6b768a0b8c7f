------------------------------ MODULE AudioClock -------------------------------
(***************************************************************************)
(* Milliseconds and bytes of PCM audio in the worker (job_processor.rs).    *)
(* A byte is its position in the audio.  Sums stay far below 2^64, where    *)
(* the code's widths and saturating_add would differ from Nat.              *)
(***************************************************************************)
EXTENDS Naturals

AudioInfo == [rate : Nat \ {0}, channels : Nat \ {0}, bits : {8, 16, 24, 32}]

BytesPerSecond(info) == info.rate * info.channels * (info.bits \div 8)

\* sample_index_for_ms: rounds down, and not to a frame.
SampleIndex(ms, info) == (ms * BytesPerSecond(info)) \div 1000

\* Mutant: the duration rounds down.
RoundedDown(len, info) ==
    IF len * 1000 < BytesPerSecond(info)
    THEN 1 ELSE (len * 1000) \div BytesPerSecond(info)

\* chunk_duration_ms: div_ceil, and at least 1.
ChunkDuration(len, info) ==
    IF len = 0 THEN 1
    ELSE (len * 1000 + BytesPerSecond(info) - 1) \div BytesPerSecond(info)

\* Mutant: a slice ends with the file, not with its segment.
WholeEnd(ms, len, info) == len

\* audio_slice_for_time_range on a file of len bytes.
SliceEnd(ms, len, info) ==
    IF SampleIndex(ms, info) < len THEN SampleIndex(ms, info) ELSE len

AudioSlice(len, start, end, info) ==
    {byte \in 0..len : /\ SampleIndex(start, info) <= byte
                       /\ byte < SliceEnd(end, len, info)}

=============================================================================
