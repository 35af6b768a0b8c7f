------------------------------ MODULE WavDecoder ------------------------------
(***************************************************************************)
(* decode_audio_bytes of the worker (audio.rs): finds the format and the   *)
(* samples in the bytes of an archive file.                                *)
(*                                                                         *)
(* The contents of the file are not fixed beforehand: what a chunk header  *)
(* says is chosen when the scan reads it.  The scan reads no byte twice,   *)
(* so that the choices make up all files of the given length.              *)
(***************************************************************************)
EXTENDS AudioClock

CONSTANTS
    FileLength,   \* lengths of files
    ChunkSize,    \* sizes a chunk header may give
    Format,       \* what a fmt chunk may hold
    DefaultInfo   \* format assumed of a file that is no WAV file

ASSUME FileAssumption ==
    FileLength \subseteq Nat /\ ChunkSize \subseteq Nat
ASSUME FormatAssumption ==
    /\ Format \subseteq [pcm : BOOLEAN, rate : Nat, channels : Nat, bits : Nat]
    /\ DefaultInfo \in [rate : Nat, channels : Nat, bits : Nat]

VARIABLES
    length,     \* bytes of the file
    scan,       \* "chunks", "decoded" or "rejected"
    offset,     \* the scan's position
    fmt,        \* set of at most one: the last fmt chunk
    data,       \* set of at most one: the last data chunk
    info        \* DecodedAudio.info, when decoded

decoderVars == <<length, scan, offset, fmt, data, info>>

FrameSize(format) == format.channels * (format.bits \div 8)

HeaderSize == 12

\* looks_like_wav finds the two magic words, or the file is raw PCM.
DecoderInit ==
    /\ length \in FileLength
    /\ offset = HeaderSize
    /\ fmt = {}
    /\ info = DefaultInfo
    /\ \/ /\ length >= HeaderSize
          /\ scan = "chunks"
          /\ data = {}
       \/ /\ scan = "decoded"
          /\ data = {[from |-> 0, size |-> length]}

\* decode_wav_pcm accepts PCM of whole bytes.
Accepted(format) ==
    /\ format.pcm
    /\ format.rate # 0 /\ format.channels # 0 /\ format.bits # 0
    /\ format.bits % 8 = 0

AtHeader == scan = "chunks" /\ offset + 8 <= length

\* Chunks start at even distances.
NextHeader(size) == offset + 8 + size + (size % 2)

\* Mutant: a chunk may reach to the end of its padding.
FitsPadded(size) == offset + 8 + size <= length + (size % 2)

Contained(size) == offset + 8 + size <= length

SkipChunk ==
    /\ AtHeader
    /\ \E size \in ChunkSize :
        /\ Contained(size)
        /\ offset' = NextHeader(size)
    /\ UNCHANGED <<length, scan, fmt, data, info>>

ReadFmt ==
    /\ AtHeader
    /\ \E size \in ChunkSize, format \in Format :
        /\ Contained(size) /\ size >= 16
        /\ Accepted(format)
        /\ fmt' = {format}
        /\ offset' = NextHeader(size)
    /\ UNCHANGED <<length, scan, data, info>>

\* A data chunk is only noted: the last one counts, and it may come first.
ReadData ==
    /\ AtHeader
    /\ \E size \in ChunkSize :
        /\ Contained(size)
        /\ data' = {[from |-> offset + 8, size |-> size]}
        /\ offset' = NextHeader(size)
    /\ UNCHANGED <<length, scan, fmt, info>>

\* A chunk larger than the rest of the file, a short fmt chunk, or a format
\* that is not accepted.
RejectChunk ==
    /\ AtHeader
    /\ \E size \in ChunkSize :
        \/ ~Contained(size)
        \/ size < 16
        \/ \E format \in Format : ~Accepted(format)
    /\ scan' = "rejected"
    /\ UNCHANGED <<length, offset, fmt, data, info>>

\* Mutant: half frames at the end of the data are let through.
AnySize(format, chunk) == TRUE

WholeBlocks(format, chunk) == chunk.size % FrameSize(format) = 0

\* Fewer bytes than a header are left.
EndOfFile ==
    /\ scan = "chunks" /\ offset + 8 > length
    /\ \/ /\ \E format \in fmt, chunk \in data :
                /\ WholeBlocks(format, chunk)
                /\ info' = [rate |-> format.rate, bits |-> format.bits,
                            channels |-> format.channels]
          /\ scan' = "decoded"
       \/ /\ \A format \in fmt, chunk \in data : ~WholeBlocks(format, chunk)
          /\ scan' = "rejected"
          /\ UNCHANGED info
    /\ UNCHANGED <<length, offset, fmt, data>>

DecoderStep == SkipChunk \/ ReadFmt \/ ReadData \/ RejectChunk \/ EndOfFile

=============================================================================
