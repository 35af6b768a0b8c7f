-------------------------- MODULE ArchiveAudioProofs --------------------------
(***************************************************************************)
(* Theorems about ArchiveAudio, for files of any length and contents, any  *)
(* formats, any words of results, and any number of windows.               *)
(***************************************************************************)
EXTENDS ArchiveAudio, FiniteSetTheorems, WellFoundedInduction, TLAPS

-----------------------------------------------------------------------------
(* The decoder *)

AtMostOne(set) == \A one, other \in set : one = other

LEMMA AtMostOneIsCounted ==
    ASSUME NEW set, AtMostOne(set)
    PROVE  IsFiniteSet(set) /\ Cardinality(set) <= 1
<1>1. CASE set = {}
  BY <1>1, FS_EmptySet
<1>2. CASE set # {}
  <2>1. PICK one \in set : TRUE
    BY <1>2
  <2>2. set = {one}
    BY <2>1 DEF AtMostOne
  <2>3. IsFiniteSet(set) /\ Cardinality(set) = 1
    BY <2>2, FS_Singleton
  <2>. QED  BY <2>3
<1>. QED  BY <1>1, <1>2

DecoderTypeOK ==
    /\ length \in FileLength /\ offset \in Nat
    /\ scan \in {"chunks", "decoded", "rejected"}
    /\ fmt \subseteq {format \in Format : Accepted(format)}
    /\ data \subseteq [from : Nat, size : Nat]
    /\ info \in [rate : Nat, channels : Nat, bits : Nat]

\* What the scan leaves when it ends well: raw audio, or a format and a data
\* chunk that fit each other, whichever of them came last.
DecodedWell ==
    scan = "decoded" =>
        /\ data # {}
        /\ fmt # {} =>
              \E format \in fmt, chunk \in data :
                  /\ WholeBlocks(format, chunk)
                  /\ info.channels = format.channels /\ info.bits = format.bits

\* The scan starts behind the file's header, and so do the chunks it finds.
ScanIsBehindHeader ==
    /\ offset >= HeaderSize
    /\ scan = "chunks" =>
          \A chunk \in data : chunk.from >= HeaderSize + 8

DecoderInvariant ==
    /\ DecoderTypeOK
    /\ AtMostOne(fmt) /\ AtMostOne(data)
    /\ SamplesInFile
    /\ ScanIsBehindHeader
    /\ DecodedWell

LEMMA DecoderStarts ==
    ASSUME DecoderInit
    PROVE  DecoderInvariant
<1>1. DefaultInfo \in [rate : Nat, channels : Nat, bits : Nat]
  BY FormatAssumption
<1>2. length \in Nat
  BY FileAssumption DEF DecoderInit
<1>3. /\ fmt = {}
      /\ data = {} \/ data = {[from |-> 0, size |-> length]}
  BY DEF DecoderInit
<1>4. DecoderTypeOK
  BY <1>1, <1>2 DEF DecoderInit, DecoderTypeOK, HeaderSize
<1>5. AtMostOne(fmt) /\ AtMostOne(data)
  BY <1>3 DEF DecoderInit, AtMostOne
<1>6. SamplesInFile /\ ScanIsBehindHeader
  BY <1>2, <1>3
     DEF DecoderInit, SamplesInFile, ScanIsBehindHeader, HeaderSize
<1>7. DecodedWell
  BY DEF DecoderInit, DecodedWell
<1>. QED  BY <1>4, <1>5, <1>6, <1>7 DEF DecoderInvariant

LEMMA OffsetStaysNatural ==
    ASSUME offset \in Nat, NEW size \in Nat
    PROVE  NextHeader(size) \in Nat /\ NextHeader(size) >= offset
<1>1. size % 2 \in Nat
  OBVIOUS
<1>. QED  BY <1>1 DEF NextHeader

LEMMA DecoderKeepsInvariant ==
    ASSUME DecoderInvariant, DecoderStep
    PROVE  DecoderInvariant'
<1>1. /\ length \in Nat /\ offset \in Nat
      /\ \A size \in ChunkSize : size \in Nat
      /\ scan = "chunks" /\ length' = length
  BY FileAssumption
     DEF DecoderInvariant, DecoderTypeOK, DecoderStep, SkipChunk, ReadFmt,
         ReadData, RejectChunk, EndOfFile, AtHeader
<1>2. CASE SkipChunk
  <2>1. offset' \in Nat /\ offset' >= offset
    BY <1>1, <1>2, OffsetStaysNatural DEF SkipChunk
  <2>. QED  BY <1>1, <1>2, <2>1
            DEF SkipChunk, DecoderInvariant, DecoderTypeOK, AtMostOne,
                SamplesInFile, ScanIsBehindHeader, HeaderSize,
         DecodedWell
<1>3. CASE ReadFmt
  <2>1. offset' \in Nat /\ offset' >= offset
    BY <1>1, <1>3, OffsetStaysNatural DEF ReadFmt
  <2>2. PICK format \in Format : Accepted(format) /\ fmt' = {format}
    BY <1>3 DEF ReadFmt
  <2>. QED  BY <1>1, <1>3, <2>1, <2>2
            DEF ReadFmt, DecoderInvariant, DecoderTypeOK, AtMostOne,
                SamplesInFile, ScanIsBehindHeader, HeaderSize,
         DecodedWell
<1>4. CASE ReadData
  <2>1. PICK size \in ChunkSize :
           /\ Contained(size)
           /\ data' = {[from |-> offset + 8, size |-> size]}
           /\ offset' = NextHeader(size)
    BY <1>4 DEF ReadData
  <2>2. offset' \in Nat /\ offset' >= offset
    BY <1>1, <2>1, OffsetStaysNatural
  <2>3. data' \subseteq [from : Nat, size : Nat]
    BY <1>1, <2>1
  <2>4. SamplesInFile'
    BY <1>1, <2>1
       DEF DecoderInvariant, ScanIsBehindHeader, SamplesInFile, Contained,
           HeaderSize
  <2>6. ScanIsBehindHeader'
    BY <1>1, <2>1, <2>2
       DEF DecoderInvariant, ScanIsBehindHeader, HeaderSize
  <2>5. AtMostOne(data')
    BY <2>1 DEF AtMostOne
  <2>. QED  BY <1>1, <1>4, <2>2, <2>3, <2>4, <2>5, <2>6
            DEF ReadData, DecoderInvariant, DecoderTypeOK, AtMostOne,
                DecodedWell
<1>5. CASE RejectChunk
  BY <1>1, <1>5 DEF RejectChunk, DecoderInvariant, DecoderTypeOK, AtMostOne,
     SamplesInFile, ScanIsBehindHeader, HeaderSize,
         DecodedWell
<1>6. CASE EndOfFile
  <2>1. CASE scan' = "rejected" /\ UNCHANGED info
    BY <1>1, <1>6, <2>1 DEF EndOfFile, DecoderInvariant, DecoderTypeOK,
       AtMostOne, SamplesInFile, ScanIsBehindHeader, HeaderSize,
         DecodedWell
  <2>2. CASE \E format \in fmt, chunk \in data :
                /\ WholeBlocks(format, chunk)
                /\ info' = [rate |-> format.rate, bits |-> format.bits,
                            channels |-> format.channels]
    <3>1. PICK format \in fmt, chunk \in data :
             /\ WholeBlocks(format, chunk)
             /\ info' = [rate |-> format.rate, bits |-> format.bits,
                         channels |-> format.channels]
      BY <2>2
    <3>2. format \in [pcm : BOOLEAN, rate : Nat, channels : Nat, bits : Nat]
      BY <3>1, FormatAssumption DEF DecoderInvariant, DecoderTypeOK
    <3>3. info' \in [rate : Nat, channels : Nat, bits : Nat]
      BY <3>1, <3>2
    <3>4. fmt' = fmt /\ data' = data
      BY <1>6 DEF EndOfFile
    <3>5. DecodedWell'
      BY <3>1, <3>4 DEF DecodedWell, WholeBlocks
    <3>6. DecoderTypeOK'
      BY <1>6, <3>3 DEF EndOfFile, DecoderInvariant, DecoderTypeOK
    <3>. QED  BY <1>1, <1>6, <3>4, <3>5, <3>6
              DEF EndOfFile, DecoderInvariant, AtMostOne, SamplesInFile,
                  ScanIsBehindHeader
  <2>. QED  BY <1>6, <2>1, <2>2 DEF EndOfFile
<1>. QED  BY <1>2, <1>3, <1>4, <1>5, <1>6 DEF DecoderStep

LEMMA DecoderIsSound == Spec => []DecoderInvariant
<1>1. Init => DecoderInvariant
  BY DecoderStarts DEF Init
<1>2. DecoderInvariant /\ [Next]_vars => DecoderInvariant'
  <2>1. DecoderInvariant /\ UNCHANGED decoderVars => DecoderInvariant'
    BY DEF DecoderInvariant, DecoderTypeOK, decoderVars, AtMostOne,
       SamplesInFile, ScanIsBehindHeader, HeaderSize,
         DecodedWell
  <2>. QED  BY <2>1, DecoderKeepsInvariant
            DEF Next, Decode, ResultArrives, vars
<1>. QED  BY <1>1, <1>2, PTL DEF Spec

\* For files of any length and contents, the samples lie inside the file: no
\* slice of decode_wav_pcm can go out of bounds.
THEOREM SamplesStayInFile == Spec => []SamplesInFile
<1>1. DecoderInvariant => SamplesInFile
  BY DEF DecoderInvariant
<1>. QED  BY <1>1, DecoderIsSound, PTL

\* For all orders and numbers of fmt and data chunks, decoded samples are whole
\* frames of the format they are returned with (expected_block_align).
THEOREM SamplesAreWholeFrames == Spec => []SamplesAreFrames
<1>1. DecoderInvariant => SamplesAreFrames
  <2>1. SUFFICES ASSUME DecoderInvariant, scan = "decoded", fmt # {}
                 PROVE  Samples % FrameSize(info) = 0
    BY DEF SamplesAreFrames
  <2>2. PICK format \in fmt, chunk \in data :
           /\ WholeBlocks(format, chunk)
           /\ info.channels = format.channels /\ info.bits = format.bits
    BY <2>1 DEF DecoderInvariant, DecodedWell
  <2>3. Samples = chunk.size
    <3>1. {c.size : c \in data} = {chunk.size}
      BY <2>1, <2>2 DEF DecoderInvariant, AtMostOne
    <3>. QED  BY <3>1 DEF Samples
  <2>4. FrameSize(info) = FrameSize(format)
    BY <2>2 DEF FrameSize
  <2>. QED  BY <2>2, <2>3, <2>4 DEF WholeBlocks
<1>. QED  BY <1>1, DecoderIsSound, PTL

-----------------------------------------------------------------------------
(* Times of words *)

\* A set of numbers that is not empty has a least one.
LEMMA LeastExists ==
    ASSUME NEW S, S \subseteq Nat, S # {}
    PROVE  \E m \in S : \A n \in S : m <= n
<1> DEFINE Before == OpToRel(<, Nat)
<1>1. IsWellFoundedOn(Before, Nat)
  BY NatLessThanWellFounded
<1>2. PICK m \in S : \A n \in S : ~ (<<n, m>> \in Before)
  <2> HIDE DEF Before
  <2>. QED  BY <1>1, WFMin
<1>3. \A n \in S : ~ (n < m)
  BY <1>2 DEF OpToRel
<1>. QED  BY <1>3

\* A finite one has a greatest: a smallest set without one would lose its lack
\* with any of its members.
LEMMA GreatestExists ==
    ASSUME NEW S, S \subseteq Nat, IsFiniteSet(S), S # {}
    PROVE  \E m \in S : \A n \in S : m >= n
<1> DEFINE Lacks(T) == T # {} /\ ~ \E m \in T : \A n \in T : m >= n
           Sizes == {Cardinality(T) : T \in {U \in SUBSET S : Lacks(U)}}
<1>1. SUFFICES ASSUME Lacks(S) PROVE FALSE
  OBVIOUS
<1>2. \A T \in SUBSET S : IsFiniteSet(T) /\ Cardinality(T) \in Nat
  BY FS_Subset, FS_CardinalityType
<1>3. Sizes \subseteq Nat /\ Sizes # {}
  BY <1>1, <1>2
<1>4. PICK size \in Sizes : \A other \in Sizes : size <= other
  <2> HIDE DEF Sizes
  <2>. QED  BY <1>3, LeastExists
<1>5. PICK T \in SUBSET S : Lacks(T) /\ Cardinality(T) = size
  OBVIOUS
<1>6. PICK t \in T : TRUE
  BY <1>5
<1>7. Cardinality(T \ {t}) = size - 1 /\ T \ {t} \in SUBSET S
  BY <1>2, <1>5, <1>6, FS_RemoveElement
<1>8. ~ Lacks(T \ {t})
  <2>1. Lacks(T \ {t}) => size - 1 \in Sizes
    BY <1>7
  <2>2. size \in Nat
    BY <1>3
  <2>. HIDE DEF Sizes, Lacks
  <2>. QED  BY <1>4, <2>1, <2>2
<1>9. t \in Nat /\ \A n \in T : n \in Nat
  BY <1>5, <1>6
<1>10. CASE T \ {t} = {}
  <2>1. \A n \in T : n = t
    BY <1>10
  <2>. QED  BY <1>5, <1>6, <1>9, <2>1
<1>11. CASE T \ {t} # {}
  <2>1. PICK m \in T \ {t} : \A n \in T \ {t} : m >= n
    BY <1>8, <1>11
  <2>2. CASE m >= t
    BY <1>5, <1>9, <2>1, <2>2
  <2>3. CASE ~ (m >= t)
    <3>1. \A n \in T : t >= n
      BY <1>9, <2>1, <2>3
    <3>. QED  BY <1>5, <1>6, <3>1
  <2>. QED  BY <2>2, <2>3
<1>. QED  BY <1>10, <1>11

\* A result's range starts no later than any of its words, ends no earlier,
\* and does not end before it starts.
LEMMA RangeHoldsWords ==
    ASSUME NEW words, words \subseteq Word, IsFiniteSet(words),
           NEW processed \in Nat
    PROVE  /\ StartMs(words) \in Nat /\ EndMs(words, processed) \in Nat
           /\ StartMs(words) <= EndMs(words, processed)
           /\ \A start \in StartTimes(words) : StartMs(words) <= start
           /\ \A end \in EndTimes(words) : end <= EndMs(words, processed)
<1>1. StartTimes(words) \subseteq Nat /\ EndTimes(words) \subseteq Nat
  BY DEF StartTimes, EndTimes
<1>2. IsFiniteSet(EndTimes(words))
  <2>1. IsFiniteSet({word.end : word \in words})
    <3> DEFINE EndOf == [word \in words |-> word.end]
    <3>1. EndOf \in Surjection(words, {word.end : word \in words})
      BY DEF Surjection
    <3>. QED  BY <3>1, FS_Surjection
  <2>. QED  BY <2>1, FS_Subset DEF EndTimes
<1>3. /\ StartMs(words) \in Nat
      /\ \A start \in StartTimes(words) : StartMs(words) <= start
  <2>1. CASE StartTimes(words) = {}
    BY <2>1 DEF StartMs
  <2>2. CASE StartTimes(words) # {}
    <3>1. \E m \in StartTimes(words) : \A n \in StartTimes(words) : m <= n
      BY <1>1, <2>2, LeastExists
    <3>2. StartMs(words) = CHOOSE m \in StartTimes(words) :
                              \A n \in StartTimes(words) : m <= n
      BY <2>2 DEF StartMs, Minimum
    <3>. QED  BY <1>1, <3>1, <3>2
  <2>. QED  BY <2>1, <2>2
<1> DEFINE Last == IF EndTimes(words) = {} THEN processed
                   ELSE Maximum(EndTimes(words))
<1>4. Last \in Nat /\ \A end \in EndTimes(words) : end <= Last
  <2>1. CASE EndTimes(words) = {}
    BY <2>1
  <2>2. CASE EndTimes(words) # {}
    <3>1. \E m \in EndTimes(words) : \A n \in EndTimes(words) : m >= n
      BY <1>1, <1>2, <2>2, GreatestExists
    <3>2. Last = CHOOSE m \in EndTimes(words) :
                    \A n \in EndTimes(words) : m >= n
      BY <2>2 DEF Maximum
    <3>. HIDE DEF Last
    <3>3. Last \in EndTimes(words) /\ \A n \in EndTimes(words) : Last >= n
      BY <3>1, <3>2
    <3>. QED  BY <1>1, <3>3
  <2>. QED  BY <2>1, <2>2
<1>. HIDE DEF Last
<1>5. /\ EndMs(words, processed) \in Nat
      /\ EndMs(words, processed) >= StartMs(words)
      /\ EndMs(words, processed) >= Last
  <2> DEFINE both == {StartMs(words), Last}
  <2>1. EndMs(words, processed) = CHOOSE m \in both : \A n \in both : m >= n
    BY DEF EndMs, Maximum, Last
  <2>2. \E m \in both : \A n \in both : m >= n
    BY <1>3, <1>4
  <2>3. \A n \in both : n \in Nat
    BY <1>3, <1>4
  <2>4. StartMs(words) \in both /\ Last \in both
    OBVIOUS
  <2>. HIDE DEF both
  <2>5. /\ EndMs(words, processed) \in both
        /\ \A n \in both : EndMs(words, processed) >= n
    BY <2>1, <2>2
  <2>. QED  BY <2>3, <2>4, <2>5
<1>. QED  BY <1>1, <1>3, <1>4, <1>5

\* A speaker tag is a number: the greatest of the words', or 0.
LEMMA SpeakerTagIsNumber ==
    ASSUME NEW words, words \subseteq Word, IsFiniteSet(words)
    PROVE  SpeakerTag(words) \in Nat
<1> DEFINE spoken == {word.speaker : word \in words}
           tags == (spoken \intersect Nat) \union {0}
<1>1. IsFiniteSet(spoken)
  <2> DEFINE SpeakerOf == [word \in words |-> word.speaker]
  <2>1. SpeakerOf \in Surjection(words, spoken)
    BY DEF Surjection
  <2>. QED  BY <2>1, FS_Surjection
<1>2. IsFiniteSet(tags)
  <2>. HIDE DEF spoken
  <2>1. IsFiniteSet(spoken \intersect Nat)
    BY <1>1, FS_Subset
  <2>. QED  BY <2>1, FS_AddElement
<1>3. tags \subseteq Nat /\ tags # {}
  OBVIOUS
<1>4. SpeakerTag(words) = CHOOSE m \in tags : \A n \in tags : m >= n
  BY DEF SpeakerTag, Maximum
<1>. HIDE DEF tags
<1>5. \E m \in tags : \A n \in tags : m >= n
  BY <1>2, <1>3, GreatestExists
<1>. QED  BY <1>3, <1>4, <1>5

-----------------------------------------------------------------------------
(* Excerpts *)

\* Later milliseconds are not at earlier bytes.
LEMMA SampleIndexIsMonotone ==
    ASSUME NEW format \in [rate : Nat, channels : Nat, bits : Nat],
           NEW early \in Nat, NEW late \in Nat, early <= late
    PROVE  /\ SampleIndex(early, format) \in Nat
           /\ SampleIndex(late, format) \in Nat
           /\ SampleIndex(early, format) <= SampleIndex(late, format)
<1> DEFINE rate == BytesPerSecond(format)
<1>1. rate \in Nat
  <2>1. format.bits \div 8 \in Nat
    OBVIOUS
  <2>. QED  BY <2>1 DEF BytesPerSecond
<1>. HIDE DEF rate
<1>2. early * rate \in Nat /\ late * rate \in Nat
  BY <1>1
<1>3. early * rate <= late * rate
  <2>1. PICK more \in Nat : late = early + more
    <3>1. late - early \in Nat /\ late = early + (late - early)
      OBVIOUS
    <3>. QED  BY <3>1
  <2>2. late * rate = early * rate + more * rate
    BY <1>1, <2>1, SMTT(30)
  <2>3. more * rate \in Nat
    BY <1>1
  <2>. QED  BY <1>2, <2>2, <2>3
<1> DEFINE a == early * rate
           b == late * rate
<1>4. a \in Nat /\ b \in Nat /\ a <= b
  BY <1>2, <1>3
<1>. HIDE DEF a, b
<1>5. a \div 1000 \in Nat /\ b \div 1000 \in Nat /\ a \div 1000 <= b \div 1000
  BY <1>4
<1>. QED  BY <1>5 DEF SampleIndex, a, b, rate

\* A longer range has a larger excerpt.
LEMMA SliceIsMonotone ==
    ASSUME NEW format \in [rate : Nat, channels : Nat, bits : Nat],
           NEW len \in Nat,
           NEW start \in Nat, NEW end \in Nat,
           NEW from \in Nat, NEW to \in Nat, from <= start, end <= to
    PROVE  AudioSlice(len, start, end, format)
              \subseteq AudioSlice(len, from, to, format)
<1>1. /\ SampleIndex(from, format) \in Nat
      /\ SampleIndex(start, format) \in Nat
      /\ SampleIndex(from, format) <= SampleIndex(start, format)
  BY SampleIndexIsMonotone
<1>2. /\ SampleIndex(end, format) \in Nat
      /\ SampleIndex(to, format) \in Nat
      /\ SampleIndex(end, format) <= SampleIndex(to, format)
  BY SampleIndexIsMonotone
<1>3. /\ SliceEnd(end, len, format) \in Nat
      /\ SliceEnd(to, len, format) \in Nat
      /\ SliceEnd(end, len, format) <= SliceEnd(to, len, format)
  BY <1>2 DEF SliceEnd
<1>4. SUFFICES ASSUME NEW byte \in 0..len,
                      SampleIndex(start, format) <= byte,
                      byte < SliceEnd(end, len, format)
               PROVE  /\ SampleIndex(from, format) <= byte
                      /\ byte < SliceEnd(to, len, format)
  BY DEF AudioSlice
<1>5. byte \in Nat
  OBVIOUS
<1>. QED  BY <1>1, <1>3, <1>4, <1>5

\* The samples are a chunk of the file.
LEMMA SamplesAreCounted ==
    ASSUME DecoderInvariant, scan = "decoded"
    PROVE  Samples \in Nat /\ Samples <= length /\ length \in Nat
<1>1. PICK chunk \in data : TRUE
  BY DEF DecoderInvariant, DecodedWell
<1>2. data = {chunk}
  BY <1>1 DEF DecoderInvariant, AtMostOne
<1>3. Samples = chunk.size
  BY <1>2 DEF Samples
<1>4. chunk.from \in Nat /\ chunk.size \in Nat
  BY <1>1 DEF DecoderInvariant, DecoderTypeOK
<1>5. chunk.from + chunk.size <= length
  BY <1>1 DEF DecoderInvariant, SamplesInFile
<1>6. length \in Nat
  BY FileAssumption DEF DecoderInvariant, DecoderTypeOK
<1>. QED  BY <1>3, <1>4, <1>5, <1>6

\* The segment is the last result's, and so is the excerpt; the samples it is
\* taken from change no more.
ExcerptInvariant ==
    /\ DecoderInvariant
    /\ result \in Words \union {{}}
    /\ \E processed \in Nat : segment = SegmentOf(result, processed)
    /\ result # {} \/ excerpt # {} =>
          scan = "decoded" /\ excerpt = ExcerptOf(segment)

LEMMA ResultsAreFinite ==
    ASSUME result \in Words \union {{}}
    PROVE  result \subseteq Word /\ IsFiniteSet(result)
BY WordsAssumption, FS_EmptySet

LEMMA ExcerptIsKept == Spec => []ExcerptInvariant
<1>1. Init => ExcerptInvariant
  <2>1. SUFFICES ASSUME Init PROVE ExcerptInvariant
    OBVIOUS
  <2>2. DecoderInvariant
    BY <2>1, DecoderStarts DEF Init
  <2>. QED  BY <2>1, <2>2 DEF Init, ExcerptInvariant
<1>2. ExcerptInvariant /\ [Next]_vars => ExcerptInvariant'
  <2>1. SUFFICES ASSUME ExcerptInvariant, [Next]_vars
                 PROVE  ExcerptInvariant'
    OBVIOUS
  <2>2. CASE Decode
    <3>1. DecoderInvariant'
      BY <2>1, <2>2, DecoderKeepsInvariant DEF Decode, ExcerptInvariant
    <3>2. scan = "chunks"
      BY <2>2 DEF Decode, DecoderStep, SkipChunk, ReadFmt, ReadData,
                  RejectChunk, EndOfFile, AtHeader
    <3>. QED  BY <2>1, <2>2, <3>1, <3>2 DEF Decode, ExcerptInvariant
  <2>3. CASE ResultArrives
    <3>1. UNCHANGED decoderVars /\ scan = "decoded"
      BY <2>3 DEF ResultArrives
    <3>2. DecoderInvariant'
      BY <2>1, <3>1 DEF ExcerptInvariant, DecoderInvariant, DecoderTypeOK,
         decoderVars, AtMostOne, SamplesInFile, ScanIsBehindHeader,
         DecodedWell
    <3>3. \E processed \in Nat : segment' = SegmentOf(result', processed)
      BY <2>3, ProcessedAssumption DEF ResultArrives
    <3>4. excerpt' = ExcerptOf(segment)'
      BY <2>3, <3>1 DEF ResultArrives, ExcerptOf, Samples, decoderVars
    <3>5. result' \in Words
      BY <2>3 DEF ResultArrives
    <3>. QED  BY <3>1, <3>2, <3>3, <3>4, <3>5
              DEF ExcerptInvariant, decoderVars
  <2>4. CASE UNCHANGED vars
    BY <2>1, <2>4 DEF vars, ExcerptInvariant, DecoderInvariant, DecoderTypeOK,
       decoderVars, AtMostOne, SamplesInFile, ScanIsBehindHeader,
         DecodedWell, ExcerptOf, Samples
  <2>. QED  BY <2>1, <2>2, <2>3, <2>4 DEF Next
<1>. QED  BY <1>1, <1>2, PTL DEF Spec

\* For all words of a result, in whatever order: its segment does not end
\* before it starts (time_range_from_words).
THEOREM SegmentsAreOrdered == Spec => []SegmentIsOrdered
<1>1. ExcerptInvariant => SegmentIsOrdered
  <2>1. SUFFICES ASSUME ExcerptInvariant PROVE SegmentIsOrdered
    OBVIOUS
  <2>2. PICK processed \in Nat : segment = SegmentOf(result, processed)
    BY <2>1 DEF ExcerptInvariant
  <2>3. StartMs(result) <= EndMs(result, processed)
    BY <2>1, ResultsAreFinite, RangeHoldsWords DEF ExcerptInvariant
  <2>. QED  BY <2>2, <2>3 DEF SegmentIsOrdered, SegmentOf
<1>. QED  BY <1>1, ExcerptIsKept, PTL

\* For all formats and all words of a result: the excerpt a voice is taken from
\* holds what was said in each word with known times
\* (time_range_from_words, audio_slice_for_time_range).
THEOREM ExcerptsCoverWords == Spec => []ExcerptCoversWords
<1>1. ExcerptInvariant => ExcerptCoversWords
  <2>1. SUFFICES ASSUME ExcerptInvariant,
                        NEW word \in result, word.start >= 0, word.end >= 0
                 PROVE  AudioSlice(Samples, word.start, word.end, info)
                           \subseteq excerpt
    BY DEF ExcerptCoversWords
  <2>2. PICK processed \in Nat : segment = SegmentOf(result, processed)
    BY <2>1 DEF ExcerptInvariant
  <2>3. result \subseteq Word /\ IsFiniteSet(result)
    BY <2>1, ResultsAreFinite DEF ExcerptInvariant
  <2>4. word.start \in Nat /\ word.end \in Nat
    BY <2>1, <2>3 DEF Word
  <2>5. word.start \in StartTimes(result) /\ word.end \in EndTimes(result)
    BY <2>1, <2>4 DEF StartTimes, EndTimes
  <2>6. /\ segment.start = StartMs(result)
        /\ segment.end = EndMs(result, processed)
    BY <2>2 DEF SegmentOf
  <2>7. /\ segment.start \in Nat /\ segment.start <= word.start
        /\ segment.end \in Nat /\ word.end <= segment.end
    BY <2>3, <2>5, <2>6, RangeHoldsWords
  <2>8. /\ info \in [rate : Nat, channels : Nat, bits : Nat]
        /\ Samples \in Nat
    BY <2>1, SamplesAreCounted DEF ExcerptInvariant, DecoderInvariant,
       DecoderTypeOK
  <2>9. excerpt = AudioSlice(Samples, segment.start, segment.end, info)
    BY <2>1 DEF ExcerptInvariant, ExcerptOf
  <2>. QED  BY <2>4, <2>7, <2>8, <2>9, SliceIsMonotone
<1>. QED  BY <1>1, ExcerptIsKept, PTL

-----------------------------------------------------------------------------
(* Frames *)

\* A multiple of a number has no remainder, and what has none is a multiple.
LEMMA MultipleHasNoRemainder ==
    ASSUME NEW k \in Nat, NEW frame \in Nat \ {0}
    PROVE  (k * frame) % frame = 0
<1> DEFINE q == (k * frame) \div frame
           r == (k * frame) % frame
<1>1. q \in Nat /\ r \in Nat /\ r < frame /\ k * frame = q * frame + r
  BY SMTT(30)
<1>. HIDE DEF q, r
<1>2. CASE k = q
  <2>. PICK product \in Nat : product = q * frame
    BY <1>1
  <2>1. product = product + r
    BY <1>1, <1>2
  <2>2. r = 0
    BY <1>1, <2>1
  <2>. QED  BY <2>2 DEF r
<1>3. ASSUME k > q PROVE FALSE
  <2>1. PICK more \in Nat : k = q + 1 + more
    <3>1. k - q - 1 \in Nat /\ k = q + 1 + (k - q - 1)
      BY <1>1, <1>3
    <3>. QED  BY <3>1
  <2>2. k * frame = q * frame + frame + more * frame
    BY <1>1, <2>1, SMTT(30)
  <2>3. more * frame \in Nat /\ q * frame \in Nat
    BY <1>1, <2>1
  <2>. QED  BY <1>1, <2>2, <2>3
<1>4. ASSUME k < q PROVE FALSE
  <2>1. PICK more \in Nat : q = k + 1 + more
    <3>1. q - k - 1 \in Nat /\ q = k + 1 + (q - k - 1)
      BY <1>1, <1>4
    <3>. QED  BY <3>1
  <2>2. q * frame = k * frame + frame + more * frame
    BY <1>1, <2>1, SMTT(30)
  <2>3. more * frame \in Nat /\ k * frame \in Nat
    BY <1>1, <2>1
  <2>. QED  BY <1>1, <2>2, <2>3
<1>. QED  BY <1>1, <1>2, <1>3, <1>4

LEMMA NoRemainderIsMultiple ==
    ASSUME NEW n \in Nat, NEW frame \in Nat \ {0}, n % frame = 0
    PROVE  \E k \in Nat : n = k * frame
<1>1. n \div frame \in Nat /\ n = (n \div frame) * frame + (n % frame)
  BY SMTT(30)
<1>. QED  BY <1>1

\* So has the difference of two multiples.
LEMMA DifferenceOfMultiples ==
    ASSUME NEW frame \in Nat \ {0}, NEW k \in Nat, NEW l \in Nat,
           k * frame <= l * frame
    PROVE  (l * frame - k * frame) % frame = 0
<1>1. CASE k <= l
  <2>1. PICK more \in Nat : l = k + more
    <3>1. l - k \in Nat /\ l = k + (l - k)
      BY <1>1
    <3>. QED  BY <3>1
  <2>2. l * frame = k * frame + more * frame
    BY <2>1, SMTT(30)
  <2>3. more * frame \in Nat /\ k * frame \in Nat
    OBVIOUS
  <2>4. l * frame - k * frame = more * frame
    BY <2>2, <2>3
  <2>. QED  BY <2>4, MultipleHasNoRemainder
<1>2. CASE k > l
  <2>1. PICK more \in Nat : k = l + 1 + more
    <3>1. k - l - 1 \in Nat /\ k = l + 1 + (k - l - 1)
      BY <1>2
    <3>. QED  BY <3>1
  <2>2. k * frame = l * frame + frame + more * frame
    BY <2>1, SMTT(30)
  <2>3. more * frame \in Nat /\ l * frame \in Nat
    OBVIOUS
  <2>. QED  BY <2>2, <2>3
<1>. QED  BY <1>1, <1>2

\* With whole samples per millisecond, a time is at the start of a frame.
LEMMA TimesAreAtFrames ==
    ASSUME NEW format \in [rate : Nat, channels : Nat, bits : Nat],
           format.rate % 1000 = 0, NEW ms \in Nat
    PROVE  \E k \in Nat : SampleIndex(ms, format) = k * FrameSize(format)
<1>1. PICK k \in Nat : format.rate = k * 1000
  <2>1. format.rate \in Nat
    OBVIOUS
  <2>2. 1000 \in Nat \ {0}
    OBVIOUS
  <2>. QED  BY <2>1, <2>2, NoRemainderIsMultiple
<1>2. PICK width \in Nat : width = format.bits \div 8
  <2>1. format.bits \in Nat
    OBVIOUS
  <2>. QED  BY <2>1
<1>3. PICK channels \in Nat : channels = format.channels
  OBVIOUS
<1>4. PICK frame \in Nat : frame = channels * width
  OBVIOUS
<1>5. BytesPerSecond(format) = ((k * 1000) * channels) * width
  BY <1>1, <1>2, <1>3 DEF BytesPerSecond
<1>6. ((k * 1000) * channels) * width = (k * frame) * 1000
  <2>1. ((k * 1000) * channels) * width = (k * 1000) * (channels * width)
    BY SMTT(30)
  <2>2. (k * 1000) * frame = (k * frame) * 1000
    BY SMTT(30)
  <2>. QED  BY <1>4, <2>1, <2>2
<1>7. ms * ((k * frame) * 1000) = ((ms * k) * frame) * 1000
  <2>1. PICK n \in Nat : n = k * frame
    OBVIOUS
  <2>2. ms * (n * 1000) = (ms * n) * 1000
    BY SMTT(30)
  <2>3. ms * (k * frame) = (ms * k) * frame
    BY SMTT(30)
  <2>. QED  BY <2>1, <2>2, <2>3
<1>8. PICK index \in Nat : index = (ms * k) * frame
  OBVIOUS
<1>9. SampleIndex(ms, format) = (index * 1000) \div 1000
  BY <1>5, <1>6, <1>7, <1>8 DEF SampleIndex
<1>10. (index * 1000) \div 1000 = index
  OBVIOUS
<1>11. FrameSize(format) = frame
  BY <1>2, <1>3, <1>4 DEF FrameSize
<1>12. ms * k \in Nat
  OBVIOUS
<1>. QED  BY <1>8, <1>9, <1>10, <1>11, <1>12

\* An excerpt is the bytes from one index to another.
LEMMA SliceIsInterval ==
    ASSUME NEW format \in [rate : Nat, channels : Nat, bits : Nat],
           NEW len \in Nat, NEW start \in Nat, NEW end \in Nat,
           AudioSlice(len, start, end, format) # {}
    PROVE  LET from == SampleIndex(start, format)
               to   == SliceEnd(end, len, format)
           IN  /\ from \in Nat /\ to \in Nat /\ from < to
               /\ AudioSlice(len, start, end, format) = from..(to - 1)
               /\ Minimum(AudioSlice(len, start, end, format)) = from
               /\ Cardinality(AudioSlice(len, start, end, format)) = to - from
<1>1. PICK from \in Nat : from = SampleIndex(start, format)
  BY SampleIndexIsMonotone
<1>2. PICK to \in Nat : to = SliceEnd(end, len, format) /\ to <= len
  <2>1. SampleIndex(end, format) \in Nat
    BY SampleIndexIsMonotone
  <2>. QED  BY <2>1 DEF SliceEnd
<1>3. PICK slice : slice = AudioSlice(len, start, end, format)
  OBVIOUS
<1>4. slice = from..(to - 1)
  <2>1. slice = {byte \in 0..len : from <= byte /\ byte < to}
    BY <1>1, <1>2, <1>3 DEF AudioSlice
  <2>. QED  BY <1>2, <2>1
<1>5. from < to
  BY <1>3, <1>4
<1>6. Minimum(slice) = from
  <2>1. from \in slice /\ \A n \in slice : from <= n
    BY <1>4, <1>5
  <2>2. \A m \in slice : m \in Nat
    BY <1>4
  <2>3. \A m \in slice : (\A n \in slice : m <= n) => m = from
    BY <2>1, <2>2
  <2>. QED  BY <2>1, <2>3 DEF Minimum
<1>7. Cardinality(slice) = to - from
  <2>1. Cardinality(from..(to - 1)) = IF from > to - 1 THEN 0
                                      ELSE to - 1 - from + 1
    BY FS_Interval
  <2>. QED  BY <1>4, <1>5, <2>1
<1>. QED  BY <1>1, <1>2, <1>3, <1>4, <1>5, <1>6, <1>7

\* For all formats with whole samples per millisecond, all files and all words:
\* an excerpt starts on a frame, and ends on one if the samples do
\* (sample_index_for_ms, audio_slice_for_time_range).
THEOREM ExcerptsAreOnFrames == Spec => []ExcerptOnFrames
<1>1. ExcerptInvariant => ExcerptOnFrames
  <2>1. SUFFICES ASSUME ExcerptInvariant, excerpt # {}, info.rate % 1000 = 0
                 PROVE  /\ Minimum(excerpt) % FrameSize(info) = 0
                        /\ Samples % FrameSize(info) = 0 =>
                              Cardinality(excerpt) % FrameSize(info) = 0
    BY DEF ExcerptOnFrames
  <2>2. PICK processed \in Nat : segment = SegmentOf(result, processed)
    BY <2>1 DEF ExcerptInvariant
  <2>3. segment.start \in Nat /\ segment.end \in Nat
    BY <2>1, <2>2, ResultsAreFinite, RangeHoldsWords
       DEF ExcerptInvariant, SegmentOf
  <2>4. /\ info \in [rate : Nat, channels : Nat, bits : Nat]
        /\ Samples \in Nat
    BY <2>1, SamplesAreCounted DEF ExcerptInvariant, DecoderInvariant,
       DecoderTypeOK
  <2>5. excerpt = AudioSlice(Samples, segment.start, segment.end, info)
    BY <2>1 DEF ExcerptInvariant, ExcerptOf
  <2>6. PICK from, to :
           /\ from = SampleIndex(segment.start, info)
           /\ to = SliceEnd(segment.end, Samples, info)
           /\ from \in Nat /\ to \in Nat /\ from < to
           /\ Minimum(excerpt) = from /\ Cardinality(excerpt) = to - from
    BY <2>1, <2>3, <2>4, <2>5, SliceIsInterval
  <2>7. PICK k \in Nat : from = k * FrameSize(info)
    BY <2>1, <2>3, <2>4, <2>6, TimesAreAtFrames
  <2>8. PICK l \in Nat : SampleIndex(segment.end, info) = l * FrameSize(info)
    BY <2>1, <2>3, <2>4, TimesAreAtFrames
  <2>9. FrameSize(info) \in Nat
    <3>1. info.channels \in Nat /\ info.bits \in Nat
      BY <2>4
    <3>2. info.bits \div 8 \in Nat
      BY <3>1
    <3>. QED  BY <3>1, <3>2 DEF FrameSize
  <2>10. FrameSize(info) # 0
    <3>1. SUFFICES ASSUME FrameSize(info) = 0 PROVE FALSE
      OBVIOUS
    <3>2. SampleIndex(segment.end, info) = 0
      BY <2>8, <3>1
    <3>3. to = 0
      BY <2>4, <2>6, <3>2 DEF SliceEnd
    <3>. QED  BY <2>6, <3>3
  <2>11. Minimum(excerpt) % FrameSize(info) = 0
    BY <2>6, <2>7, <2>9, <2>10, MultipleHasNoRemainder
  <2>12. ASSUME Samples % FrameSize(info) = 0
         PROVE  Cardinality(excerpt) % FrameSize(info) = 0
    <3>1. PICK s \in Nat : Samples = s * FrameSize(info)
      BY <2>4, <2>9, <2>10, <2>12, NoRemainderIsMultiple
    <3>2. PICK e \in Nat : to = e * FrameSize(info)
      <4>1. to = SampleIndex(segment.end, info) \/ to = Samples
        BY <2>6 DEF SliceEnd
      <4>. QED  BY <2>8, <3>1, <4>1
    <3>3. k * FrameSize(info) <= e * FrameSize(info)
      BY <2>6, <2>7, <3>2
    <3>4. (e * FrameSize(info) - k * FrameSize(info)) % FrameSize(info) = 0
      BY <2>9, <2>10, <3>3, DifferenceOfMultiples
    <3>. QED  BY <2>6, <2>7, <3>2, <3>4
  <2>. QED  BY <2>11, <2>12
<1>. QED  BY <1>1, ExcerptIsKept, PTL

-----------------------------------------------------------------------------
\* Every variable keeps its type; an excerpt holds bytes of the file only.
THEOREM ArchiveAudioTypes == Spec => []TypeOK
<1>1. ExcerptInvariant => TypeOK
  <2>1. SUFFICES ASSUME ExcerptInvariant PROVE TypeOK
    OBVIOUS
  <2>2. PICK processed \in Nat : segment = SegmentOf(result, processed)
    BY <2>1 DEF ExcerptInvariant
  <2>3. segment \in [tag : Nat, start : Nat, end : Nat]
    BY <2>1, <2>2, ResultsAreFinite, RangeHoldsWords, SpeakerTagIsNumber
       DEF ExcerptInvariant, SegmentOf
  <2>4. excerpt \subseteq 0..length
    <3>1. CASE excerpt = {}
      BY <3>1
    <3>2. CASE excerpt # {}
      <4>1. excerpt \subseteq 0..Samples
        BY <2>1, <3>2 DEF ExcerptInvariant, ExcerptOf, AudioSlice
      <4>2. Samples \in Nat /\ Samples <= length /\ length \in Nat
        BY <2>1, <3>2, SamplesAreCounted DEF ExcerptInvariant
      <4>. QED  BY <4>1, <4>2
    <3>. QED  BY <3>1, <3>2
  <2>5. Cardinality(fmt) <= 1 /\ Cardinality(data) <= 1
    BY <2>1, AtMostOneIsCounted DEF ExcerptInvariant, DecoderInvariant
  <2>. QED  BY <2>1, <2>3, <2>4, <2>5
            DEF TypeOK, ExcerptInvariant, DecoderInvariant, DecoderTypeOK
<1>. QED  BY <1>1, ExcerptIsKept, PTL

=============================================================================
