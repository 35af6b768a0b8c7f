---------------------------- MODULE ArchiveAudio ------------------------------
(***************************************************************************)
(* The way of an archive file's bytes to a voice fingerprint: the file is  *)
(* decoded (WavDecoder), Riva's results become segments (RivaResults), and *)
(* bridge_audio_fingerprints cuts out each segment's audio for             *)
(* acoustic_fingerprint.  A byte is its position in the decoded audio.     *)
(***************************************************************************)
EXTENDS WavDecoder, RivaResults, FiniteSets

CONSTANTS
    Words,        \* the sets of words a result may have
    Processed     \* what audio_processed may say, in milliseconds

ASSUME WordsAssumption ==
    \A words \in Words : words \subseteq Word /\ IsFiniteSet(words)
ASSUME ProcessedAssumption == Processed \subseteq Nat

VARIABLES
    result,     \* the words of the last result
    segment,    \* its segment, and the excerpt of its audio
    excerpt

vars == <<decoderVars, result, segment, excerpt>>

Init ==
    /\ DecoderInit
    /\ result = {}
    /\ segment = SegmentOf({}, 0)
    /\ excerpt = {}

Decode == DecoderStep /\ UNCHANGED <<result, segment, excerpt>>

Samples == CHOOSE size \in {chunk.size : chunk \in data} : TRUE

\* Mutant: the excerpt starts at the beginning of the file's data chunk.
OffsetExcerpt(timed) ==
    {byte + 1 : byte \in AudioSlice(Samples, timed.start, timed.end, info)}

\* audio_slice_for_time_range; empty where the code returns None and the
\* segment gets its speaker tag's fallback fingerprint.
ExcerptOf(timed) == AudioSlice(Samples, timed.start, timed.end, info)

ResultArrives ==
    /\ scan = "decoded"
    /\ \E words \in Words, processed \in Processed :
        /\ result' = words
        /\ segment' = SegmentOf(words, processed)
    /\ excerpt' = ExcerptOf(segment')
    /\ UNCHANGED decoderVars

Next == Decode \/ ResultArrives

Spec == Init /\ [][Next]_vars

-----------------------------------------------------------------------------
TypeOK ==
    /\ length \in FileLength /\ offset \in Nat
    /\ scan \in {"chunks", "decoded", "rejected"}
    /\ fmt \subseteq {format \in Format : Accepted(format)}
    /\ Cardinality(fmt) <= 1 /\ Cardinality(data) <= 1
    /\ data \subseteq [from : Nat, size : Nat]
    /\ info \in [rate : Nat, channels : Nat, bits : Nat]
    /\ result \in Words \union {{}}
    /\ segment \in [tag : Nat, start : Nat, end : Nat]
    /\ excerpt \subseteq 0..length

\* Whatever the headers say, the samples are bytes of the file: of a WAV
\* file after its header and that of a chunk, of another file all of them
\* (decode_wav_pcm slices without a check).
SamplesInFile ==
    \A chunk \in data :
        /\ chunk.from + chunk.size <= length
        /\ \/ chunk.from >= HeaderSize + 8
           \/ fmt = {} /\ chunk = [from |-> 0, size |-> length]

\* Decoded samples of a WAV file are whole frames of the format they came
\* with, in whichever order the chunks were (expected_block_align).
SamplesAreFrames ==
    scan = "decoded" /\ fmt # {} => Samples % FrameSize(info) = 0

\* A rate of whole samples per millisecond cuts no frame: the excerpt starts
\* on one, and ends on one if the samples do (sample_index_for_ms).
ExcerptOnFrames ==
    excerpt # {} /\ info.rate % 1000 = 0 =>
        /\ Minimum(excerpt) % FrameSize(info) = 0
        /\ Samples % FrameSize(info) = 0 =>
              Cardinality(excerpt) % FrameSize(info) = 0

\* The excerpt holds all the audio of each word with known times, however
\* words overlap and in whichever order they end (time_range_from_words).
ExcerptCoversWords ==
    \A word \in result :
        word.start >= 0 /\ word.end >= 0 =>
            AudioSlice(Samples, word.start, word.end, info) \subseteq excerpt

\* A segment does not end before it starts (end_ms.max(start_ms)).
SegmentIsOrdered == segment.start <= segment.end

=============================================================================
