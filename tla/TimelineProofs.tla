---------------------------- MODULE TimelineProofs ----------------------------
(***************************************************************************)
(* Proofs about AudioTimeline, for every format and every sequence of       *)
(* chunk lengths: the type invariant, the bound on the drift, that no       *)
(* excerpt holds audio from after its end, and that one within a chunk of   *)
(* whole milliseconds is exact.                                             *)
(***************************************************************************)
EXTENDS AudioTimeline, TLAPS

\* The bytes of a second, a positive number.
B == BytesPerSecond(LiveInfo)

LEMMA PositiveRate == B \in Nat \ {0}
<1>1. /\ LiveInfo.rate \in Nat \ {0} /\ LiveInfo.channels \in Nat \ {0}
      /\ LiveInfo.bits \in {8, 16, 24, 32}
  BY LiveInfoAssumption DEF AudioInfo
<1>2. LiveInfo.bits \div 8 \in Nat \ {0}
  BY <1>1
<1>. QED  BY <1>1, <1>2 DEF B, BytesPerSecond

\* Division as multiplication: what SampleIndex and ChunkDuration compute.
LEMMA Quotient ==
  ASSUME NEW n \in Nat, NEW b \in Nat \ {0}
  PROVE  /\ n \div b \in Nat
         /\ (n \div b) * b <= n
         /\ n < (n \div b) * b + b
BY SMTT(30)

LEMMA Distribute ==
  ASSUME NEW x \in Nat, NEW y \in Nat, NEW b \in Nat
  PROVE  (x + y) * b = x * b + y * b
BY SMTT(30)

\* chunk_duration_ms: positive, long enough for the chunk, and less than a
\* millisecond longer, but for an empty chunk, which gets exactly one.
LEMMA DurationRoundsUp ==
  ASSUME NEW len \in Nat
  PROVE  LET d == ChunkDuration(len, LiveInfo) IN
         /\ d \in Nat \ {0}
         /\ len * 1000 <= d * B
         /\ d * B <= len * 1000 + B
<1>. DEFINE d == ChunkDuration(len, LiveInfo)
<1>1. CASE len = 0
  BY <1>1, PositiveRate DEF ChunkDuration
<1>2. CASE len # 0
  <2>1. d = (len * 1000 + B - 1) \div B
    BY <1>2 DEF ChunkDuration, B
  <2>2. len * 1000 + B - 1 \in Nat
    BY PositiveRate
  <2>3. d \in Nat /\ d * B <= len * 1000 + B - 1
                  /\ len * 1000 + B - 1 < d * B + B
    BY <2>1, <2>2, PositiveRate, Quotient
  <2>4. d # 0
    BY <1>2, <2>3, PositiveRate
  <2>5. d * B \in Nat
    BY <2>3, PositiveRate
  <2>. QED  BY <2>3, <2>4, <2>5, PositiveRate
<1>. QED  BY <1>1, <1>2

-----------------------------------------------------------------------------
\* Every entry starts, on the timeline, no earlier than its audio does.
EntriesAreNotEarly ==
    \A i \in DOMAIN entries : entries[i].from * 1000 <= entries[i].start * B

TimelineInvariant == TypeOK /\ DriftIsBounded /\ EntriesAreNotEarly

LEMMA TimelineInvariantInit == Init => TimelineInvariant
<1>. SUFFICES ASSUME Init PROVE TimelineInvariant
  OBVIOUS
<1>1. TypeOK /\ EntriesAreNotEarly
  BY DEF Init, TypeOK, EntriesAreNotEarly
<1>2. DriftIsBounded
  BY PositiveRate DEF Init, DriftIsBounded, B
<1>. QED  BY <1>1, <1>2 DEF TimelineInvariant

LEMMA TimelineInvariantNext ==
  TimelineInvariant /\ [Next]_timelineVars => TimelineInvariant'
<1>. SUFFICES ASSUME TimelineInvariant, [Next]_timelineVars
              PROVE  TimelineInvariant'
  OBVIOUS
<1>1. CASE UNCHANGED timelineVars
  BY <1>1 DEF timelineVars, TimelineInvariant, TypeOK, DriftIsBounded,
              EntriesAreNotEarly
<1>2. CASE Next
  <2>. PICK len \in ChunkLength : Push(len)
    BY <1>2 DEF Next
  <2>. DEFINE d     == ChunkDuration(len, LiveInfo)
              entry == [start |-> offset, duration |-> d, from |-> received,
                        len |-> len]
  <2>1. /\ len \in Nat /\ offset \in Nat /\ received \in Nat
        /\ entries \in Seq(Entry)
    BY ChunkLengthAssumption DEF TimelineInvariant, TypeOK
  <2>2. d \in Nat \ {0} /\ len * 1000 <= d * B /\ d * B <= len * 1000 + B
    BY <2>1, DurationRoundsUp
  <2>3. /\ entries' = Append(entries, entry)
        /\ offset' = offset + d
        /\ received' = received + len
    BY DEF Push
  <2>4. entry \in Entry
    BY <2>1, <2>2 DEF Entry
  <2>5. TypeOK'
    <3>. HIDE DEF d, entry
    <3>. QED  BY <2>1, <2>2, <2>3, <2>4 DEF TypeOK
  <2>6. DriftIsBounded'
    <3>. HIDE DEF d, entry
    <3>1. /\ received * 1000 <= offset * B
          /\ offset * B <= received * 1000 + Len(entries) * B
      BY DEF TimelineInvariant, DriftIsBounded, B
    <3>2. (offset + d) * B = offset * B + d * B
      BY <2>1, <2>2, PositiveRate, Distribute
    <3>3. Len(entries') = Len(entries) + 1 /\ Len(entries) \in Nat
      BY <2>1, <2>3
    <3>4. (Len(entries) + 1) * B = Len(entries) * B + 1 * B
      BY <3>3, PositiveRate, Distribute
    <3>5. /\ offset * B \in Nat /\ d * B \in Nat /\ Len(entries) * B \in Nat
          /\ B \in Nat
      BY <2>1, <2>2, <3>3, PositiveRate
    <3>6. /\ (received + len) * 1000 <= (offset + d) * B
          /\ (offset + d) * B
                <= (received + len) * 1000 + (Len(entries) + 1) * B
      <4>. DEFINE o == offset * B  e == d * B  l == Len(entries) * B
      <4>1. /\ received * 1000 <= o /\ o <= received * 1000 + l
            /\ len * 1000 <= e /\ e <= len * 1000 + B
            /\ o \in Nat /\ e \in Nat /\ l \in Nat /\ B \in Nat
        BY <2>2, <3>1, <3>5
      <4>2. (offset + d) * B = o + e /\ (Len(entries) + 1) * B = l + B
        BY <3>2, <3>4, <3>5
      <4>. HIDE DEF o, e, l
      <4>. QED  BY <2>1, <4>1, <4>2
    <3>. QED  BY <2>3, <3>3, <3>6 DEF DriftIsBounded, B
  <2>7. EntriesAreNotEarly'
    <3>1. entry.from * 1000 <= entry.start * B
      BY DEF TimelineInvariant, DriftIsBounded, B
    <3>. HIDE DEF entry
    <3>. SUFFICES ASSUME NEW i \in DOMAIN entries'
                  PROVE  entries'[i].from * 1000 <= entries'[i].start * B
      BY DEF EntriesAreNotEarly, B
    <3>2. CASE i = Len(entries) + 1
      <4>1. entries'[i] = entry
        BY <2>1, <2>3, <2>4, <3>2
      <4>. QED  BY <3>1, <4>1
    <3>3. CASE i # Len(entries) + 1
      <4>1. i \in DOMAIN entries /\ entries'[i] = entries[i]
        BY <2>1, <2>3, <2>4, <3>3
      <4>. QED  BY <4>1 DEF TimelineInvariant, EntriesAreNotEarly
    <3>. QED  BY <3>2, <3>3
  <2>. QED  BY <2>5, <2>6, <2>7 DEF TimelineInvariant
<1>. QED  BY <1>1, <1>2

\* The timeline keeps its type and runs ahead of the audio by at most a
\* millisecond per chunk, for every format and all chunks (push).
THEOREM DriftBound == Spec => [](TypeOK /\ DriftIsBounded)
<1>1. TimelineInvariant => TypeOK /\ DriftIsBounded
  BY DEF TimelineInvariant
<1>. QED
  BY <1>1, TimelineInvariantInit, TimelineInvariantNext, PTL DEF Spec

-----------------------------------------------------------------------------
LEMMA ExcerptsEndInTime == TimelineInvariant => NoLaterAudio
<1>. SUFFICES ASSUME TimelineInvariant,
                     NEW range \in Range,
                     NEW byte \in AudioForRange(range[1], range[2])
              PROVE  byte < SampleIndex(range[2], LiveInfo)
  BY DEF NoLaterAudio
<1>. DEFINE start == range[1]
            end   == range[2]
<1>1. start \in Nat /\ end \in Nat
  BY BoundsAssumption DEF Range
<1>2. PICK i \in DOMAIN entries :
        /\ Overlaps(entries[i], start, end)
        /\ byte \in {entries[i].from + x : x \in
               SliceStart(entries[i], start)..(SliceStop(entries[i], end) - 1)}
  BY DEF AudioForRange
<1>. DEFINE entry == entries[i]
            x     == byte - entry.from
            left  == end - entry.start
<1>3. entry \in Entry /\ entry.from * 1000 <= entry.start * B
  BY <1>2 DEF TimelineInvariant, TypeOK, EntriesAreNotEarly
<1>4. entry.from \in Nat /\ entry.start \in Nat /\ entry.start < end
  BY <1>2, <1>3 DEF Entry, Overlaps
<1>5. SliceStop(entry, end) = (left * B) \div 1000 /\ left \in Nat
  BY <1>1, <1>4 DEF SliceStop, Since, SampleIndex, B
<1>6. left * B \in Nat /\ end * B \in Nat /\ entry.start * B \in Nat
  BY <1>1, <1>4, <1>5, PositiveRate
<1>7. end * B = entry.start * B + left * B
  <2>1. end = entry.start + left
    BY <1>1, <1>4
  <2>. HIDE DEF left
  <2>. QED  BY <1>4, <1>5, <2>1, PositiveRate, Distribute
<1>8. SliceStop(entry, end) \in Nat /\ SliceStop(entry, end) * 1000 <= left * B
  BY <1>5, <1>6, Quotient
<1>9. SliceStart(entry, start) \in Nat
  <2>1. Since(start, entry) \in Nat
    BY <1>1, <1>4 DEF Since
  <2>2. Since(start, entry) * B \in Nat
    BY <2>1, PositiveRate
  <2>. QED  BY <2>2, Quotient DEF SliceStart, SampleIndex, B
<1>10. byte \in Nat /\ byte < entry.from + SliceStop(entry, end)
  BY <1>2, <1>4, <1>8, <1>9
<1>11. (entry.from + SliceStop(entry, end)) * 1000 <= end * B
  <2>. DEFINE f == entry.from  s == SliceStop(entry, end)
              st == entry.start * B  lf == left * B
  <2>1. /\ f \in Nat /\ s \in Nat /\ st \in Nat /\ lf \in Nat
        /\ f * 1000 <= st /\ s * 1000 <= lf /\ end * B = st + lf
    BY <1>3, <1>4, <1>6, <1>7, <1>8
  <2>. HIDE DEF f, s, st, lf
  <2>2. (f + s) * 1000 <= end * B
    BY <2>1
  <2>. QED  BY <2>2 DEF f, s
<1>12. SampleIndex(end, LiveInfo) = (end * B) \div 1000
  BY DEF SampleIndex, B
<1>13. /\ SampleIndex(end, LiveInfo) \in Nat
       /\ end * B < SampleIndex(end, LiveInfo) * 1000 + 1000
  BY <1>6, <1>12, Quotient
<1>. QED
  <2>. DEFINE q == SampleIndex(end, LiveInfo)  e == end * B
              f == entry.from + SliceStop(entry, end)
  <2>1. /\ q \in Nat /\ e \in Nat /\ f \in Nat /\ byte \in Nat
        /\ byte < f /\ f * 1000 <= e /\ e < q * 1000 + 1000
    BY <1>4, <1>6, <1>8, <1>10, <1>11, <1>13
  <2>. HIDE DEF q, e, f
  <2>2. byte < q
    BY <2>1
  <2>. QED  BY <2>2 DEF q

\* No excerpt of a segment holds audio from after the segment's end, for
\* every format, all chunks and every range (audio_for_range).
THEOREM ExcerptsHoldNoLaterAudio == Spec => []NoLaterAudio
BY ExcerptsEndInTime, TimelineInvariantInit, TimelineInvariantNext, PTL
   DEF Spec

-----------------------------------------------------------------------------
(* Excerpts from chunks of whole milliseconds *)

LEMMA TimesMonotone ==
  ASSUME NEW x \in Nat, NEW y \in Nat, NEW b \in Nat, x <= y
  PROVE  x * b <= y * b
<1>1. PICK z \in Nat : y = x + z
  <2>1. y - x \in Nat /\ y = x + (y - x)
    OBVIOUS
  <2>. QED  BY <2>1
<1>2. y * b = x * b + z * b
  BY <1>1, Distribute
<1>3. x * b \in Nat /\ z * b \in Nat
  OBVIOUS
<1>. QED  BY <1>2, <1>3

\* The duration of a chunk of whole milliseconds is exact.
LEMMA WholeDuration ==
  ASSUME NEW len \in Nat \ {0}, (len * 1000) % B = 0
  PROVE  ChunkDuration(len, LiveInfo) * B = len * 1000
<1>. PICK b \in Nat \ {0} : b = B
  BY PositiveRate
<1>. PICK n \in Nat : n = len * 1000
  OBVIOUS
<1>1. n % b = 0
  OBVIOUS
<1>2. n \div b \in Nat /\ n = (n \div b) * b + (n % b)
  BY SMTT(30)
<1>. PICK q \in Nat : q = n \div b
  BY <1>2
<1>3. n = q * b /\ q * b \in Nat
  BY <1>1, <1>2
<1>. PICK d \in Nat : d = (n + b - 1) \div b
  <2>1. n + b - 1 \in Nat
    OBVIOUS
  <2>. QED  BY <2>1, Quotient
<1>4. d * b <= n + b - 1 /\ n + b - 1 < d * b + b /\ d * b \in Nat
  <2>1. PICK m \in Nat : m = n + b - 1
    OBVIOUS
  <2>. QED  BY <2>1, Quotient
<1>5. d <= q
  <2>1. SUFFICES ASSUME q + 1 <= d PROVE FALSE
    OBVIOUS
  <2>2. (q + 1) * b <= d * b
    BY <2>1, TimesMonotone
  <2>3. (q + 1) * b = q * b + 1 * b /\ 1 * b = b
    BY Distribute
  <2>. QED  BY <1>3, <1>4, <2>2, <2>3
<1>6. q <= d
  <2>1. SUFFICES ASSUME d + 1 <= q PROVE FALSE
    OBVIOUS
  <2>2. (d + 1) * b <= q * b
    BY <2>1, TimesMonotone
  <2>3. (d + 1) * b = d * b + 1 * b /\ 1 * b = b
    BY Distribute
  <2>. QED  BY <1>3, <1>4, <2>2, <2>3
<1>7. d = q
  BY <1>5, <1>6
<1>8. ChunkDuration(len, LiveInfo) = d
  BY DEF ChunkDuration, B
<1>. QED  BY <1>3, <1>7, <1>8

\* The entries lie one after the other, up to the offset.
EntriesFollow ==
    \A i \in DOMAIN entries :
        /\ entries[i].start + entries[i].duration <= offset
        /\ \A j \in DOMAIN entries :
              i < j => entries[i].start + entries[i].duration <= entries[j].start

\* With chunks of whole milliseconds, times and bytes agree.
TimesAreExact ==
    WholeChunks =>
        /\ received * 1000 = offset * B
        /\ \A i \in DOMAIN entries :
              /\ entries[i].from * 1000 = entries[i].start * B
              /\ entries[i].len * 1000 = entries[i].duration * B

ExactInvariant == TimelineInvariant /\ EntriesFollow /\ TimesAreExact

LEMMA ExactInvariantInit == Init => ExactInvariant
<1>. SUFFICES ASSUME Init PROVE ExactInvariant
  OBVIOUS
<1>1. EntriesFollow
  BY DEF Init, EntriesFollow
<1>2. TimesAreExact
  BY PositiveRate DEF Init, TimesAreExact
<1>. QED  BY <1>1, <1>2, TimelineInvariantInit DEF ExactInvariant

LEMMA ExactInvariantNext == ExactInvariant /\ [Next]_timelineVars => ExactInvariant'
<1>. SUFFICES ASSUME ExactInvariant, [Next]_timelineVars
              PROVE  ExactInvariant'
  OBVIOUS
<1>1. TimelineInvariant'
  BY TimelineInvariantNext DEF ExactInvariant
<1>2. CASE UNCHANGED timelineVars
  BY <1>1, <1>2 DEF timelineVars, ExactInvariant, EntriesFollow,
                    TimesAreExact, WholeChunks
<1>3. CASE Next
  <2>. PICK len \in ChunkLength : Push(len)
    BY <1>3 DEF Next
  <2>. PICK d : d = ChunkDuration(len, LiveInfo)
    OBVIOUS
  <2>. PICK entry : entry = [start |-> offset, duration |-> d,
                             from |-> received, len |-> len]
    OBVIOUS
  <2>1. /\ len \in Nat /\ offset \in Nat /\ received \in Nat
        /\ entries \in Seq(Entry)
    BY ChunkLengthAssumption DEF ExactInvariant, TimelineInvariant, TypeOK
  <2>2. d \in Nat \ {0}
    BY <2>1, DurationRoundsUp
  <2>3. /\ entries' = Append(entries, entry)
        /\ offset' = offset + d
        /\ received' = received + len
    BY DEF Push
  <2>4. /\ entry \in Entry
        /\ entry.start = offset /\ entry.duration = d
        /\ entry.from = received /\ entry.len = len
    BY <2>1, <2>2 DEF Entry
  <2>5. PICK last \in Nat : last = Len(entries) + 1
    BY <2>1
  <2>6. /\ DOMAIN entries = 1..(last - 1)
        /\ DOMAIN entries' = 1..last
        /\ entries'[last] = entry
        /\ \A i \in 1..(last - 1) : entries'[i] = entries[i]
    BY <2>1, <2>3, <2>4, <2>5
  <2>7. \A i \in 1..(last - 1) :
           /\ entries[i].start \in Nat /\ entries[i].duration \in Nat
           /\ entries[i].start + entries[i].duration <= offset
    <3>1. \A i \in 1..(last - 1) : entries[i] \in Entry
      BY <2>1, <2>6
    <3>2. \A i \in 1..(last - 1) :
             entries[i].start + entries[i].duration <= offset
      BY <2>6 DEF ExactInvariant, EntriesFollow
    <3>. QED  BY <3>1, <3>2 DEF Entry
  <2>8. EntriesFollow'
    <3>1. SUFFICES ASSUME NEW i \in 1..last
                   PROVE  /\ entries'[i].start + entries'[i].duration <= offset'
                          /\ \A j \in 1..last :
                                i < j => entries'[i].start + entries'[i].duration
                                            <= entries'[j].start
      BY <2>6 DEF EntriesFollow
    <3>2. CASE i = last
      BY <2>1, <2>2, <2>3, <2>4, <2>6, <3>2
    <3>3. CASE i # last
      <4>1. i \in 1..(last - 1) /\ entries'[i] = entries[i]
        BY <2>6, <3>3
      <4>2. entries[i].start + entries[i].duration <= offset'
        <5>1. offset <= offset' /\ offset' \in Nat
          BY <2>1, <2>2, <2>3
        <5>2. /\ entries[i].start + entries[i].duration \in Nat
              /\ entries[i].start + entries[i].duration <= offset
          BY <2>7, <4>1
        <5>. QED  BY <2>1, <5>1, <5>2
      <4>3. ASSUME NEW j \in 1..last, i < j
            PROVE  entries[i].start + entries[i].duration <= entries'[j].start
        <5>1. CASE j = last
          BY <2>4, <2>6, <2>7, <4>1, <5>1
        <5>2. CASE j # last
          <6>1. j \in 1..(last - 1) /\ entries'[j] = entries[j]
            BY <2>6, <5>2
          <6>. QED  BY <2>6, <4>1, <4>3, <6>1 DEF ExactInvariant, EntriesFollow
        <5>. QED  BY <5>1, <5>2
      <4>. QED  BY <4>1, <4>2, <4>3
    <3>. QED  BY <3>2, <3>3
  <2>9. TimesAreExact'
    <3>1. SUFFICES ASSUME WholeChunks'
                   PROVE  /\ received' * 1000 = offset' * B
                          /\ \A i \in 1..last :
                                /\ entries'[i].from * 1000 = entries'[i].start * B
                                /\ entries'[i].len * 1000 = entries'[i].duration * B
      BY <2>6 DEF TimesAreExact, B
    <3>2. WholeChunks
      BY <2>6, <3>1 DEF WholeChunks
    <3>3. len > 0 /\ (len * 1000) % B = 0
      <4>1. last \in DOMAIN entries'
        BY <2>5, <2>6
      <4>2. entries'[last].len = len
        BY <2>4, <2>6
      <4>. QED  BY <3>1, <4>1, <4>2 DEF WholeChunks, B
    <3>4. d * B = len * 1000
      BY <2>1, <3>3, WholeDuration
    <3>5. received * 1000 = offset * B
      BY <3>2 DEF ExactInvariant, TimesAreExact
    <3>6. (offset + d) * B = offset * B + d * B
      BY <2>1, <2>2, PositiveRate, Distribute
    <3>7. (received + len) * 1000 = received * 1000 + len * 1000
      BY <2>1
    <3>8. received' * 1000 = offset' * B
      BY <2>3, <3>4, <3>5, <3>6, <3>7
    <3>9. ASSUME NEW i \in 1..last
          PROVE  /\ entries'[i].from * 1000 = entries'[i].start * B
                 /\ entries'[i].len * 1000 = entries'[i].duration * B
      <4>1. CASE i = last
        BY <2>4, <2>6, <3>4, <3>5, <4>1
      <4>2. CASE i # last
        <5>1. i \in 1..(last - 1) /\ entries'[i] = entries[i]
          BY <2>6, <4>2
        <5>. QED  BY <2>6, <3>2, <5>1 DEF ExactInvariant, TimesAreExact
      <4>. QED  BY <4>1, <4>2
    <3>. QED  BY <3>8, <3>9
  <2>. QED  BY <1>1, <2>8, <2>9 DEF ExactInvariant
<1>. QED  BY <1>2, <1>3

\* The byte of a time is counted from any earlier time that has a byte of its
\* own.
LEMMA IndexFrom ==
  ASSUME NEW start \in Nat, NEW from \in Nat, from * 1000 = start * B,
         NEW ms \in Nat, start <= ms
  PROVE  /\ SampleIndex(ms - start, LiveInfo) \in Nat
         /\ SampleIndex(ms, LiveInfo) = from + SampleIndex(ms - start, LiveInfo)
<1>. PICK b \in Nat : b = B
  BY PositiveRate
<1>. PICK since \in Nat : since = ms - start /\ ms = start + since
  <2>1. ms - start \in Nat /\ ms = start + (ms - start)
    OBVIOUS
  <2>. QED  BY <2>1
<1>1. ms * b = start * b + since * b
  BY Distribute
<1>. PICK n \in Nat : n = since * b
  OBVIOUS
<1>2. ms * b = from * 1000 + n
  BY <1>1
<1>3. n \div 1000 \in Nat /\ (from * 1000 + n) \div 1000 = from + (n \div 1000)
  OBVIOUS
<1>. QED  BY <1>2, <1>3 DEF SampleIndex, B

LEMMA ExcerptsInChunks == ExactInvariant => ExcerptInChunkIsExact
<1>. SUFFICES ASSUME ExactInvariant, WholeChunks,
                     NEW i \in DOMAIN entries, NEW range \in Range,
                     entries[i].start <= range[1],
                     range[2] <= entries[i].start + entries[i].duration
              PROVE  AudioForRange(range[1], range[2]) = Exactly(range)
  BY DEF ExcerptInChunkIsExact
<1>. PICK start, end :
        /\ start = range[1] /\ end = range[2]
        /\ start \in Nat /\ end \in Nat /\ start < end
  BY BoundsAssumption DEF Range
<1>. PICK entry : entry = entries[i]
  OBVIOUS
<1>1. entries \in Seq(Entry)
  BY DEF ExactInvariant, TimelineInvariant, TypeOK
<1>2. \A j \in DOMAIN entries :
         entries[j].start \in Nat /\ entries[j].duration \in Nat \ {0}
  <2>1. \A j \in DOMAIN entries : entries[j] \in Entry
    BY <1>1
  <2>. QED  BY <2>1 DEF Entry
<1>3. entry \in Entry
  BY <1>1
<1>4. /\ entry.start \in Nat /\ entry.duration \in Nat
      /\ entry.from \in Nat /\ entry.len \in Nat
  BY <1>3, ChunkLengthAssumption DEF Entry
<1>5. entry.start <= start /\ end <= entry.start + entry.duration
  OBVIOUS
<1>6. \A j \in DOMAIN entries : Overlaps(entries[j], start, end) <=> j = i
  <2>1. Overlaps(entries[i], start, end)
    BY <1>4, <1>5 DEF Overlaps
  <2>2. ASSUME NEW j \in DOMAIN entries, j # i, Overlaps(entries[j], start, end)
        PROVE  FALSE
    <3>1. i \in Nat /\ j \in Nat
      BY <1>1
    <3>2. CASE i < j
      <4>1. entry.start + entry.duration <= entries[j].start
        BY <3>2 DEF ExactInvariant, EntriesFollow
      <4>. QED  BY <1>2, <1>4, <1>5, <2>2, <4>1 DEF Overlaps
    <3>3. CASE j < i
      <4>1. entries[j].start + entries[j].duration <= entry.start
        BY <3>3 DEF ExactInvariant, EntriesFollow
      <4>. QED  BY <1>2, <1>4, <1>5, <2>2, <4>1 DEF Overlaps
    <3>. QED  BY <2>2, <3>1, <3>2, <3>3
  <2>. QED  BY <2>1, <2>2
<1>7. entry.from * 1000 = entry.start * B /\ entry.len * 1000 = entry.duration * B
  BY DEF ExactInvariant, TimesAreExact
<1>. PICK first, stop :
        /\ first = SliceStart(entry, start) /\ stop = SliceStop(entry, end)
        /\ first \in Nat /\ stop \in Nat
        /\ SampleIndex(start, LiveInfo) = entry.from + first
        /\ SampleIndex(end, LiveInfo) = entry.from + stop
  <2>1. Since(start, entry) = start - entry.start
    BY <1>4, <1>5 DEF Since
  <2>2. entry.start <= end
    BY <1>4, <1>5
  <2>3. Since(end, entry) = end - entry.start
    BY <1>4, <2>2 DEF Since
  <2>4. /\ SampleIndex(start - entry.start, LiveInfo) \in Nat
        /\ SampleIndex(start, LiveInfo)
              = entry.from + SampleIndex(start - entry.start, LiveInfo)
    BY <1>4, <1>5, <1>7, IndexFrom
  <2>5. /\ SampleIndex(end - entry.start, LiveInfo) \in Nat
        /\ SampleIndex(end, LiveInfo)
              = entry.from + SampleIndex(end - entry.start, LiveInfo)
    BY <1>4, <1>7, <2>2, IndexFrom
  <2>. QED  BY <2>1, <2>3, <2>4, <2>5 DEF SliceStart, SliceStop
<1>8. stop <= entry.len
  <2>1. PICK left \in Nat : left = end - entry.start
    BY <1>4, <1>5
  <2>2. left <= entry.duration
    BY <1>4, <1>5, <2>1
  <2>3. PICK b \in Nat : b = B
    BY PositiveRate
  <2>4. left * b <= entry.duration * b
    BY <1>4, <2>2, TimesMonotone
  <2>5. PICK n \in Nat : n = left * b
    OBVIOUS
  <2>6. n <= entry.len * 1000
    BY <1>4, <1>7, <2>3, <2>4, <2>5
  <2>7. Since(end, entry) = left
    BY <1>4, <1>5, <2>1 DEF Since
  <2>8. stop = n \div 1000
    BY <2>3, <2>5, <2>7 DEF SliceStop, SampleIndex, B
  <2>. QED  BY <1>4, <2>6, <2>8
<1>9. AudioForRange(start, end) =
         IF first < stop THEN {entry.from + byte : byte \in first..(stop - 1)}
                         ELSE {}
  <2>1. Fits(entry, start, end) <=> first < stop
    BY <1>8 DEF Fits
  <2>2. {j \in DOMAIN entries : /\ Overlaps(entries[j], start, end)
                                /\ Fits(entries[j], start, end)}
           = IF first < stop THEN {i} ELSE {}
    BY <1>6, <2>1
  <2>3. {entries[k] : k \in
            {j \in DOMAIN entries : /\ Overlaps(entries[j], start, end)
                                    /\ Fits(entries[j], start, end)}}
           = IF first < stop THEN {entry} ELSE {}
    BY <2>2
  <2>4. AudioForRange(start, end) =
           UNION {{e.from + byte : byte \in SliceStart(e, start)
                                            ..(SliceStop(e, end) - 1)} :
                  e \in IF first < stop THEN {entry} ELSE {}}
    BY <2>3, Zenon DEF AudioForRange
  <2>5. CASE first < stop
    <3>1. AudioForRange(start, end) =
             {entry.from + byte : byte \in SliceStart(entry, start)
                                           ..(SliceStop(entry, end) - 1)}
      BY <2>4, <2>5
    <3>. QED  BY <2>5, <3>1
  <2>6. CASE ~ (first < stop)
    BY <2>4, <2>6
  <2>. QED  BY <2>5, <2>6
<1>10. Exactly(range) = (entry.from + first)..(entry.from + stop - 1)
  <2>1. Exactly(range)
           = SampleIndex(start, LiveInfo)..(SampleIndex(end, LiveInfo) - 1)
    BY Zenon DEF Exactly
  <2>2. (entry.from + stop) - 1 = entry.from + stop - 1
    BY <1>4
  <2>. QED  BY <2>1, <2>2
<1>11. CASE first < stop
  <2>1. ASSUME NEW byte \in (entry.from + first)..(entry.from + stop - 1)
        PROVE  \E x \in first..(stop - 1) : byte = entry.from + x
    <3>1. byte - entry.from \in first..(stop - 1)
      BY <1>4, <2>1
    <3>2. byte = entry.from + (byte - entry.from)
      BY <1>4, <2>1
    <3>. QED  BY <3>1, <3>2
  <2>2. ASSUME NEW x \in first..(stop - 1)
        PROVE  entry.from + x \in (entry.from + first)..(entry.from + stop - 1)
    BY <1>4, <2>2
  <2>. QED  BY <1>9, <1>10, <1>11, <2>1, <2>2
<1>12. CASE ~ (first < stop)
  <2>1. (entry.from + first)..(entry.from + stop - 1) = {}
    BY <1>4, <1>12
  <2>. QED  BY <1>9, <1>10, <1>12, <2>1
<1>. QED  BY <1>11, <1>12

\* For every format and all chunks of whole milliseconds, a segment inside one
\* chunk gets exactly its own audio (push, audio_for_range).
THEOREM ExcerptsInChunksAreExact == Spec => []ExcerptInChunkIsExact
BY ExcerptsInChunks, ExactInvariantInit, ExactInvariantNext, PTL DEF Spec

=============================================================================
