--------------------------- MODULE LiveAudioProofs ----------------------------
(***************************************************************************)
(* Theorems about LiveAudio, for any chunks, utterances, sizes of channel   *)
(* and window and number of failures: its types, that no segment is         *)
(* published twice, and that every segment has its own audio.               *)
(***************************************************************************)
EXTENDS LiveAudio, TLAPS

-----------------------------------------------------------------------------
(* Where chunks and utterances are *)

NoRepeat(list) == \A i, j \in DOMAIN list : list[i] = list[j] => i = j

Apart(one, two) == one \cap two = {}

\* A chunk is received, taken and sent at most once.
ChunkInvariant ==
    /\ NoRepeat(inbox)
    /\ Apart(ToSet(inbox), chunk)
    /\ Apart(ToSet(inbox), sent)
    /\ Apart(chunk, sent)
    /\ NoRepeat(requests)
    /\ ToSet(requests) \subseteq sent

\* Riva heard it.
Arrived(utterance) ==
    \E message \in sent \ ToSet(requests) :
        utterance \in ToSet(UtterancesOf[message])

\* What a sequence of replies holds, and that it holds nothing twice.
Contents(lists) == UNION {ToSet(lists[r]) : r \in DOMAIN lists}

NothingTwice(lists) ==
    /\ \A r \in DOMAIN lists : NoRepeat(lists[r])
    /\ \A r, s \in DOMAIN lists :
          r # s => Apart(ToSet(lists[r]), ToSet(lists[s]))

Reported == Contents(replies)

Transcribed == {published[i].utterance : i \in DOMAIN published}

\* An utterance is in one place of the way from Riva to the stream.
UtteranceInvariant ==
    /\ NoRepeat(heard)
    /\ NothingTwice(replies)
    /\ Apart(ToSet(heard), Reported)
    /\ Apart(ToSet(heard), ToSet(found))
    /\ Apart(ToSet(heard), Transcribed)
    /\ Apart(Reported, ToSet(found))
    /\ Apart(Reported, Transcribed)
    /\ Apart(ToSet(found), Transcribed)
    /\ PublishedOnce
    /\ \A utterance \in ToSet(heard) \union Reported \union ToSet(found)
                            \union Transcribed : Arrived(utterance)

\* In a session the timeline holds what was sent, and the chunk in hand.
InStep ==
    lw \notin {"down", "open"} =>
        \/ chunk \subseteq EmptyChunk /\ timeline = spoken
        \/ \E message \in Chunk \ EmptyChunk :
              chunk = {message} /\ timeline = Append(spoken, message)

\* What is on the way was sent in this session.
TimelineInvariant ==
    /\ InStep
    /\ ToSet(requests) \subseteq ToSet(spoken)
    /\ \A utterance \in ToSet(heard) \union Reported \union ToSet(found) :
          Heard(utterance) \subseteq ToSet(spoken)
    /\ SegmentsAreAcoustic

-----------------------------------------------------------------------------
(* Sequences *)

\* The empty sequence.
LEMMA Empty ==
    ASSUME NEW S
    PROVE  /\ <<>> \in Seq(S) /\ Len(<<>>) = 0
           /\ ToSet(<<>>) = {} /\ NoRepeat(<<>>)
<1>1. <<>> \in Seq(S) /\ Len(<<>>) = 0 /\ DOMAIN <<>> = {}
  OBVIOUS
<1>. QED  BY <1>1 DEF ToSet, NoRepeat

\* Taking a sequence apart at its head.
LEMMA HeadAndTail ==
    ASSUME NEW S, NEW list \in Seq(S), list # <<>>
    PROVE  /\ Head(list) \in ToSet(list) /\ Head(list) \in S
           /\ Tail(list) \in Seq(S)
           /\ ToSet(list) = ToSet(Tail(list)) \union {Head(list)}
           /\ Len(Tail(list)) < Len(list)
           /\ NoRepeat(list) => /\ NoRepeat(Tail(list))
                                /\ Head(list) \notin ToSet(Tail(list))
<1>0. Tail(list) \in Seq(S)
  OBVIOUS
<1>. PICK rest \in Seq(S) : rest = Tail(list)
  BY <1>0
<1>1. /\ DOMAIN list = 1..Len(list) /\ Len(list) \in Nat \ {0}
      /\ DOMAIN rest = 1..(Len(list) - 1) /\ Len(rest) = Len(list) - 1
      /\ \A i \in DOMAIN rest : i + 1 \in DOMAIN list /\ rest[i] = list[i + 1]
      /\ Head(list) = list[1] /\ 1 \in DOMAIN list
  OBVIOUS
<1>2. \A i \in DOMAIN list : i = 1 \/ i - 1 \in DOMAIN rest
  BY <1>1
<1>3. \A i \in DOMAIN list : i = 1 \/ list[i] = rest[i - 1]
  BY <1>1, <1>2
<1>4. ToSet(list) = ToSet(rest) \union {Head(list)}
  <2>1. ToSet(list) \subseteq ToSet(rest) \union {Head(list)}
    BY <1>1, <1>2, <1>3 DEF ToSet
  <2>2. ToSet(rest) \union {Head(list)} \subseteq ToSet(list)
    BY <1>1 DEF ToSet
  <2>. QED  BY <2>1, <2>2
<1>5. ASSUME NoRepeat(list)
      PROVE  NoRepeat(rest) /\ Head(list) \notin ToSet(rest)
  <2>1. NoRepeat(rest)
    BY <1>1, <1>5 DEF NoRepeat
  <2>2. \A i \in DOMAIN rest : rest[i] # list[1]
    BY <1>1, <1>5 DEF NoRepeat
  <2>. QED  BY <1>1, <2>1, <2>2 DEF ToSet
<1>. QED  BY <1>1, <1>4, <1>5

\* One more element.
LEMMA OneMore ==
    ASSUME NEW S, NEW list \in Seq(S), NEW element \in S
    PROVE  /\ Append(list, element) \in Seq(S)
           /\ Len(Append(list, element)) = Len(list) + 1
           /\ DOMAIN Append(list, element) = DOMAIN list \union {Len(list) + 1}
           /\ \A i \in DOMAIN list : Append(list, element)[i] = list[i]
           /\ Append(list, element)[Len(list) + 1] = element
           /\ ToSet(Append(list, element)) = ToSet(list) \union {element}
           /\ NoRepeat(list) /\ element \notin ToSet(list)
                  => NoRepeat(Append(list, element))
<1>. PICK longer : longer = Append(list, element)
  OBVIOUS
<1>1. /\ longer \in Seq(S) /\ Len(longer) = Len(list) + 1
      /\ DOMAIN longer = DOMAIN list \union {Len(list) + 1}
      /\ \A i \in DOMAIN list : longer[i] = list[i]
      /\ longer[Len(list) + 1] = element
  OBVIOUS
<1>2. ToSet(longer) = ToSet(list) \union {element}
  BY <1>1 DEF ToSet
<1>3. NoRepeat(list) /\ element \notin ToSet(list) => NoRepeat(longer)
  BY <1>1 DEF NoRepeat, ToSet
<1>. QED  BY <1>1, <1>2, <1>3

\* Putting two sequences together.
LEMMA Together ==
    ASSUME NEW S, NEW one \in Seq(S), NEW two \in Seq(S)
    PROVE  /\ one \o two \in Seq(S)
           /\ ToSet(one \o two) = ToSet(one) \union ToSet(two)
           /\ NoRepeat(one) /\ NoRepeat(two) /\ Apart(ToSet(one), ToSet(two))
                  => NoRepeat(one \o two)
<1>. PICK both : both = one \o two
  OBVIOUS
<1>1. /\ both \in Seq(S)
      /\ Len(one) \in Nat /\ Len(two) \in Nat
      /\ DOMAIN one = 1..Len(one) /\ DOMAIN two = 1..Len(two)
      /\ DOMAIN both = 1..(Len(one) + Len(two))
      /\ \A i \in DOMAIN one : i \in DOMAIN both /\ both[i] = one[i]
      /\ \A i \in DOMAIN both : i \in DOMAIN one \/ i - Len(one) \in DOMAIN two
  OBVIOUS
<1>2. \A i \in DOMAIN two :
          i + Len(one) \in DOMAIN both /\ both[i + Len(one)] = two[i]
  OBVIOUS
<1>3. \A i \in DOMAIN both :
          i \in DOMAIN one \/ both[i] = two[i - Len(one)]
  OBVIOUS
<1>4. ToSet(both) = ToSet(one) \union ToSet(two)
  <2>1. ToSet(both) \subseteq ToSet(one) \union ToSet(two)
    BY <1>1, <1>3 DEF ToSet
  <2>2. ToSet(one) \union ToSet(two) \subseteq ToSet(both)
    BY <1>1, <1>2 DEF ToSet
  <2>. QED  BY <2>1, <2>2
<1>5. ASSUME NoRepeat(one), NoRepeat(two), Apart(ToSet(one), ToSet(two)),
             NEW i \in DOMAIN both, NEW j \in DOMAIN both, both[i] = both[j]
      PROVE  i = j
  <2>1. CASE i \in DOMAIN one /\ j \in DOMAIN one
    BY <1>1, <1>5, <2>1 DEF NoRepeat
  <2>2. CASE i \notin DOMAIN one /\ j \notin DOMAIN one
    BY <1>1, <1>3, <1>5, <2>2 DEF NoRepeat
  <2>3. CASE i \in DOMAIN one /\ j \notin DOMAIN one
    BY <1>1, <1>3, <1>5, <2>3 DEF Apart, ToSet
  <2>4. CASE i \notin DOMAIN one /\ j \in DOMAIN one
    BY <1>1, <1>3, <1>5, <2>4 DEF Apart, ToSet
  <2>. QED  BY <2>1, <2>2, <2>3, <2>4
<1>. QED  BY <1>1, <1>4, <1>5 DEF NoRepeat

\* Cutting a sequence in two.
LEMMA CutInTwo ==
    ASSUME NEW S, NEW list \in Seq(S), NEW count \in 1..Len(list)
    PROVE  LET one == SubSeq(list, 1, count)
               two == SubSeq(list, count + 1, Len(list)) IN
           /\ one \in Seq(S) /\ two \in Seq(S)
           /\ ToSet(list) = ToSet(one) \union ToSet(two)
           /\ NoRepeat(list) => /\ NoRepeat(one) /\ NoRepeat(two)
                                /\ Apart(ToSet(one), ToSet(two))
<1>. PICK one, two : /\ one = SubSeq(list, 1, count)
                     /\ two = SubSeq(list, count + 1, Len(list))
  OBVIOUS
<1>1. /\ one \in Seq(S) /\ two \in Seq(S)
      /\ Len(list) \in Nat /\ count \in Nat /\ count <= Len(list)
      /\ DOMAIN list = 1..Len(list)
      /\ DOMAIN one = 1..count /\ DOMAIN two = 1..(Len(list) - count)
      /\ \A i \in DOMAIN one : i \in DOMAIN list /\ one[i] = list[i]
      /\ \A i \in DOMAIN list : i \in DOMAIN one \/ i - count \in DOMAIN two
  OBVIOUS
<1>2. \A i \in DOMAIN two : i + count \in DOMAIN list /\ two[i] = list[i + count]
  OBVIOUS
<1>3. \A i \in DOMAIN list : i \in DOMAIN one \/ two[i - count] = list[i]
  BY <1>1, <1>2
<1>4. ToSet(list) = ToSet(one) \union ToSet(two)
  <2>1. ToSet(list) \subseteq ToSet(one) \union ToSet(two)
    BY <1>1, <1>3 DEF ToSet
  <2>2. ToSet(one) \union ToSet(two) \subseteq ToSet(list)
    BY <1>1, <1>2 DEF ToSet
  <2>. QED  BY <2>1, <2>2
<1>5. ASSUME NoRepeat(list)
      PROVE  NoRepeat(one) /\ NoRepeat(two) /\ Apart(ToSet(one), ToSet(two))
  <2>1. NoRepeat(one)
    BY <1>1, <1>5 DEF NoRepeat
  <2>2. NoRepeat(two)
    BY <1>1, <1>2, <1>5 DEF NoRepeat
  <2>3. \A i \in DOMAIN one, j \in DOMAIN two : one[i] # two[j]
    BY <1>1, <1>2, <1>5 DEF NoRepeat
  <2>. QED  BY <2>1, <2>2, <2>3 DEF Apart, ToSet
<1>. QED  BY <1>1, <1>4, <1>5

\* One more reply.
LEMMA OneMoreReply ==
    ASSUME NEW S, NEW lists \in Seq(Seq(S)), NEW list \in Seq(S)
    PROVE  /\ Contents(Append(lists, list)) = Contents(lists) \union ToSet(list)
           /\ NothingTwice(lists) /\ NoRepeat(list)
                /\ Apart(Contents(lists), ToSet(list))
                  => NothingTwice(Append(lists, list))
<1>. PICK more : more = Append(lists, list)
  OBVIOUS
<1>1. /\ DOMAIN more = DOMAIN lists \union {Len(lists) + 1}
      /\ \A r \in DOMAIN lists : more[r] = lists[r]
      /\ more[Len(lists) + 1] = list
  BY OneMore
<1>2. Contents(more) = Contents(lists) \union ToSet(list)
  BY <1>1 DEF Contents
<1>3. ASSUME NothingTwice(lists), NoRepeat(list),
             Apart(Contents(lists), ToSet(list))
      PROVE  NothingTwice(more)
  <2>1. \A r \in DOMAIN more : NoRepeat(more[r])
    BY <1>1, <1>3 DEF NothingTwice
  <2>2. \A r \in DOMAIN lists : Apart(ToSet(lists[r]), ToSet(list))
    BY <1>3 DEF Contents, Apart
  <2>3. \A r, s \in DOMAIN more :
            r # s => Apart(ToSet(more[r]), ToSet(more[s]))
    BY <1>1, <1>3, <2>2 DEF NothingTwice, Apart
  <2>. QED  BY <2>1, <2>3 DEF NothingTwice
<1>. QED  BY <1>2, <1>3

\* Without the first reply.
LEMMA FirstReply ==
    ASSUME NEW S, NEW lists \in Seq(Seq(S)), lists # <<>>, NothingTwice(lists)
    PROVE  /\ Contents(lists) = Contents(Tail(lists)) \union ToSet(Head(lists))
           /\ NothingTwice(Tail(lists))
           /\ Apart(Contents(Tail(lists)), ToSet(Head(lists)))
<1>0. Tail(lists) \in Seq(Seq(S))
  OBVIOUS
<1>. PICK rest \in Seq(Seq(S)) : rest = Tail(lists)
  BY <1>0
<1>1. /\ DOMAIN lists = 1..Len(lists) /\ Len(lists) \in Nat \ {0}
      /\ DOMAIN rest = 1..(Len(lists) - 1)
      /\ \A r \in DOMAIN rest : r + 1 \in DOMAIN lists /\ rest[r] = lists[r + 1]
      /\ Head(lists) = lists[1] /\ 1 \in DOMAIN lists
  OBVIOUS
<1>2. \A r \in DOMAIN lists :
          r = 1 \/ (r - 1 \in DOMAIN rest /\ lists[r] = rest[r - 1])
  BY <1>1
<1>3. Contents(lists) = Contents(rest) \union ToSet(Head(lists))
  <2>1. Contents(lists) \subseteq Contents(rest) \union ToSet(Head(lists))
    BY <1>1, <1>2 DEF Contents
  <2>2. Contents(rest) \union ToSet(Head(lists)) \subseteq Contents(lists)
    BY <1>1 DEF Contents
  <2>. QED  BY <2>1, <2>2
<1>4. NothingTwice(rest)
  <2>1. \A r \in DOMAIN rest : NoRepeat(rest[r])
    BY <1>1 DEF NothingTwice
  <2>2. \A r, s \in DOMAIN rest : r # s => r + 1 # s + 1
    BY <1>1
  <2>3. \A r, s \in DOMAIN rest :
            r # s => Apart(ToSet(rest[r]), ToSet(rest[s]))
    BY <1>1, <2>2 DEF NothingTwice
  <2>. QED  BY <2>1, <2>3 DEF NothingTwice
<1>5. Apart(Contents(rest), ToSet(Head(lists)))
  <2>1. \A r \in DOMAIN rest : r + 1 # 1
    BY <1>1
  <2>2. \A r \in DOMAIN rest : Apart(ToSet(rest[r]), ToSet(lists[1]))
    BY <1>1, <2>1 DEF NothingTwice
  <2>. QED  BY <1>1, <2>2 DEF Contents, Apart
<1>. QED  BY <1>3, <1>4, <1>5

-----------------------------------------------------------------------------
(* Type correctness *)

\* Failures are counted up to their bound.
LEMMA FaultsCounted ==
    ASSUME TypeOK, Fault
    PROVE  faults' \in 0..MaxFaults
BY SizeAssumption DEF Fault, TypeOK, SessionTypeOK

\* The session's variables keep their types over a step of Riva.
LEMMA RivaKeepsTypes ==
    ASSUME TypeOK, RivaStep
    PROVE  TypeOK'
<1>. USE DEF sessionVars, workerVars, history
<1>1. CASE RivaHears
  <2>1. /\ requests # <<>> /\ Head(requests) \in Chunk
        /\ requests' \in Seq(Chunk) /\ Len(requests') <= ChannelCapacity
    BY <1>1, HeadAndTail, SizeAssumption
       DEF RivaHears, TypeOK, SessionTypeOK
  <2>2. heard' \in Seq(Utterance)
    BY <1>1, <2>1, Together, ChunkAssumption
       DEF RivaHears, TypeOK, SessionTypeOK
  <2>3. replies' \in Seq(Seq(Utterance)) /\ Len(replies') <= ReplyWindow
    <3>1. replies \in Seq(Seq(Utterance)) /\ <<>> \in Seq(Utterance)
      BY DEF TypeOK, SessionTypeOK
    <3>2. Len(replies) < ReplyWindow
      BY <1>1 DEF RivaHears, MayReply
    <3>3. CASE replies' = replies
      BY <3>1, <3>3 DEF TypeOK, SessionTypeOK
    <3>4. CASE replies' = Append(replies, <<>>)
      <4>1. replies' \in Seq(Seq(Utterance)) /\ Len(replies') = Len(replies) + 1
        BY <3>1, <3>4, OneMore
      <4>. QED  BY <3>1, <3>2, <4>1, SizeAssumption
    <3>. QED  BY <1>1, <3>3, <3>4 DEF RivaHears
  <2>. QED  BY <1>1, <2>1, <2>2, <2>3
            DEF RivaHears, RivaStep, TypeOK, SessionTypeOK
<1>2. CASE RivaReports
  <2>1. PICK count \in 1..Len(heard) :
          /\ replies' = Append(replies, SubSeq(heard, 1, count))
          /\ heard' = SubSeq(heard, count + 1, Len(heard))
    <3>1. PICK count \in 1..MaxResults :
            /\ count <= Len(heard)
            /\ replies' = Append(replies, SubSeq(heard, 1, count))
            /\ heard' = SubSeq(heard, count + 1, Len(heard))
      BY <1>2 DEF RivaReports
    <3>2. Len(heard) \in Nat
      BY DEF TypeOK, SessionTypeOK
    <3>3. count \in 1..Len(heard)
      BY <3>1, <3>2, SizeAssumption
    <3>. QED  BY <3>1, <3>3
  <2>2. heard' \in Seq(Utterance) /\ SubSeq(heard, 1, count) \in Seq(Utterance)
    BY <2>1, CutInTwo DEF TypeOK, SessionTypeOK
  <2>3. replies' \in Seq(Seq(Utterance)) /\ Len(replies') <= ReplyWindow
    <3>1. replies \in Seq(Seq(Utterance)) /\ Len(replies) < ReplyWindow
      BY <1>2 DEF RivaReports, MayReply, TypeOK, SessionTypeOK
    <3>2. /\ replies' \in Seq(Seq(Utterance))
          /\ Len(replies') = Len(replies) + 1
      BY <2>1, <2>2, <3>1, OneMore
    <3>. QED  BY <3>1, <3>2, SizeAssumption
  <2>. QED  BY <1>2, <2>2, <2>3 DEF RivaReports, RivaStep, TypeOK, SessionTypeOK
<1>3. CASE RivaEnds \/ RivaFails
  <2>1. SessionTypeOK'
    BY <1>3, SizeAssumption
       DEF RivaEnds, RivaFails, Fault, TypeOK, SessionTypeOK
  <2>. QED  BY <2>1 DEF RivaStep, TypeOK
<1>. QED  BY <1>1, <1>2, <1>3 DEF RivaStep

\* A dropped session and a fresh one are typed.
LEMMA EmptySession ==
    ASSUME TypeOK, DropSession \/ OpenStream, faults' \in 0..MaxFaults
    PROVE  SessionTypeOK'
<1>1. /\ requests' = <<>> /\ heard' = <<>> /\ replies' = <<>>
      /\ senderOpen' \in BOOLEAN /\ reply' \in {"open", "ended", "failed"}
  BY DEF DropSession, OpenStream
<1>2. requests' \in Seq(Chunk) /\ Len(requests') <= ChannelCapacity
  BY <1>1, Empty, SizeAssumption
<1>3. replies' \in Seq(Seq(Utterance)) /\ Len(replies') <= ReplyWindow
  BY <1>1, Empty, SizeAssumption
<1>4. heard' \in Seq(Utterance)
  BY <1>1, Empty
<1>. QED  BY <1>1, <1>2, <1>3, <1>4 DEF SessionTypeOK

\* What a result becomes is a segment of its utterance.
LEMMA BridgedType ==
    ASSUME TypeOK, NEW utterance \in Utterance
    PROVE  /\ Bridged(utterance) \in Segment
           /\ Bridged(utterance).utterance = utterance
           /\ Bridged(utterance).audio = AudioOf(utterance)
<1>1. \A k \in DOMAIN timeline : timeline[k] \in Chunk
  BY DEF TypeOK
<1>2. AudioOf(utterance) \subseteq Chunk
  BY <1>1 DEF AudioOf
<1>. QED  BY <1>2 DEF Bridged, Segment

\* What is published is a segment.
LEMMA XAddType ==
    ASSUME TypeOK, found # <<>>, XAdd
    PROVE  published' \in Seq(Segment)
<1>1. Head(found) \in Utterance
  BY HeadAndTail DEF TypeOK
<1>2. Bridged(Head(found)) \in Segment
  BY <1>1, BridgedType
<1>. QED  BY <1>2, OneMore DEF XAdd, TypeOK

\* Every variable keeps its type over a step of the worker.
LEMMA WorkerKeepsTypes ==
    ASSUME TypeOK, WorkerStep \/ CallFails \/ Disconnect
    PROVE  TypeOK'
<1>. USE DEF sessionVars, workerVars, history
<1>0. /\ inbox \in Seq(aired) /\ chunk \subseteq aired /\ aired \subseteq Chunk
      /\ sent \subseteq aired /\ timeline \in Seq(Chunk)
      /\ spoken \in Seq(Chunk)
      /\ requests \in Seq(Chunk) /\ replies \in Seq(Seq(Utterance))
  BY DEF TypeOK, SessionTypeOK
<1>1. CASE Subscribe
  BY <1>1 DEF Subscribe, TypeOK, SessionTypeOK
<1>2. CASE OpenSession
  <2>1. SessionTypeOK'
    BY <1>2, EmptySession DEF OpenSession, TypeOK, SessionTypeOK
  <2>2. timeline' \in Seq(Chunk) /\ spoken' \in Seq(Chunk)
    BY <1>2, Empty DEF OpenSession, NewTimeline
  <2>. QED  BY <1>2, <2>1, <2>2 DEF OpenSession, TypeOK
<1>3. CASE NextMessage
  <2>1. inbox # <<>> /\ chunk' = {Head(inbox)} /\ inbox' = Tail(inbox)
        /\ Push(Head(inbox))
    BY <1>3 DEF NextMessage
  <2>2. Head(inbox) \in aired /\ inbox' \in Seq(aired)
    BY <1>0, <2>1, HeadAndTail
  <2>3. timeline' \in Seq(Chunk)
    BY <1>0, <2>1, <2>2, OneMore DEF Push
  <2>. QED  BY <1>3, <2>1, <2>2, <2>3 DEF NextMessage, TypeOK, SessionTypeOK
<1>4. CASE SendChunk
  <2>1. CASE UNCHANGED <<sessionVars, history>>
    BY <1>4, <2>1 DEF SendChunk, TypeOK, SessionTypeOK
  <2>2. ASSUME NEW message \in chunk, Send(message),
               sent' = sent \union {message}, spoken' = Append(spoken, message)
        PROVE  TypeOK'
    <3>1. /\ requests' \in Seq(Chunk) /\ Len(requests') <= ChannelCapacity
          /\ spoken' \in Seq(Chunk)
      BY <1>0, <2>2, OneMore, SizeAssumption DEF Send
    <3>. QED  BY <1>0, <1>4, <2>2, <3>1
              DEF SendChunk, Send, TypeOK, SessionTypeOK
  <2>. QED  BY <1>4, <2>1, <2>2 DEF SendChunk
<1>5. CASE RecvNext
  <2>1. /\ replies # <<>> /\ replies' = Tail(replies)
        /\ UNCHANGED <<requests, senderOpen, heard, reply, faults>>
    BY <1>5 DEF RecvNext, FromReply, ReadReply
  <2>2. /\ Head(replies) \in Seq(Utterance)
        /\ replies' \in Seq(Seq(Utterance)) /\ Len(replies') <= ReplyWindow
    BY <1>0, <2>1, HeadAndTail, SizeAssumption DEF TypeOK, SessionTypeOK
  <2>3. SessionTypeOK'
    BY <2>1, <2>2 DEF TypeOK, SessionTypeOK
  <2>4. \/ UNCHANGED <<lw, found>>
        \/ lw' = "publish" /\ found' \in Seq(Utterance) /\ found' # <<>>
    <3>1. CASE Head(replies) # <<>>
      <4>1. Head(Head(replies)) \in Utterance
        BY <2>2, <3>1, HeadAndTail
      <4>2. lw' = "publish" /\ found' = <<Head(Head(replies))>>
        BY <1>5, <3>1 DEF RecvNext
      <4>. QED  BY <4>1, <4>2
    <3>2. CASE Head(replies) = <<>>
      BY <1>5, <3>2 DEF RecvNext
    <3>. QED  BY <3>1, <3>2
  <2>5. lw = "recv"
    BY <1>5 DEF RecvNext, FromReply
  <2>. QED  BY <1>5, <2>3, <2>4, <2>5 DEF RecvNext, TypeOK
<1>6. CASE RecvNone \/ CloseDone \/ Finish
  BY <1>6 DEF RecvNone, CloseDone, Finish, TypeOK, SessionTypeOK
<1>7. CASE PublishSegment
  <2>1. found # <<>>
    BY <1>7 DEF PublishSegment, TypeOK
  <2>2. published' \in Seq(Segment)
    BY <1>7, <2>1, XAddType DEF PublishSegment
  <2>. QED  BY <1>7, <2>2 DEF PublishSegment, TypeOK, SessionTypeOK
<1>8. CASE CloseStream
  BY <1>8 DEF CloseStream, DropSender, TypeOK, SessionTypeOK
<1>9. ASSUME Leave, faults' \in 0..MaxFaults, published' \in Seq(Segment)
      PROVE  TypeOK'
  <2>1. SessionTypeOK'
    BY <1>9, EmptySession DEF Leave
  <2>2. inbox' \in Seq(aired') /\ found' \in Seq(Utterance) /\ found' = <<>>
    BY <1>9, Empty DEF Leave
  <2>. QED  BY <1>0, <1>9, <2>1, <2>2 DEF Leave, TypeOK
<1>10. CASE SessionFails
  BY <1>9, <1>10 DEF SessionFails, TypeOK, SessionTypeOK
<1>11. CASE CallFails
  <2>1. faults' \in 0..MaxFaults
    BY <1>11, FaultsCounted DEF CallFails
  <2>2. published' \in Seq(Segment)
    BY <1>11, XAddType DEF CallFails, TypeOK
  <2>. QED  BY <1>9, <1>11, <2>1, <2>2 DEF CallFails
<1>12. CASE Disconnect
  <2>1. faults' \in 0..MaxFaults
    BY <1>12, FaultsCounted DEF Disconnect
  <2>2. SessionTypeOK'
    BY <1>12, <2>1 DEF Disconnect, TypeOK, SessionTypeOK
  <2>. QED  BY <1>12, <2>2 DEF Disconnect, TypeOK
<1>. QED  BY <1>1, <1>2, <1>3, <1>4, <1>5, <1>6, <1>7, <1>8, <1>10, <1>11,
             <1>12 DEF WorkerStep

LEMMA NextKeepsTypes == TypeOK /\ [Next]_vars => TypeOK'
<1>. SUFFICES ASSUME TypeOK, [Next]_vars PROVE TypeOK'
  OBVIOUS
<1>1. ASSUME NEW message \in Chunk, Air(message)
      PROVE  TypeOK'
  <2>1. inbox' \in Seq(aired')
    <3>1. inbox \in Seq(aired') /\ message \in aired'
      <4>1. aired \subseteq aired' /\ message \in aired' /\ inbox \in Seq(aired)
        BY <1>1 DEF Air, TypeOK
      <4>. QED  BY <4>1
    <3>. QED  BY <1>1, <3>1, OneMore DEF Air
  <2>. QED  BY <1>1, <2>1
            DEF Air, TypeOK, SessionTypeOK, sessionVars, workerVars, history
<1>2. CASE RivaStep
  BY <1>2, RivaKeepsTypes
<1>3. CASE WorkerStep \/ CallFails \/ Disconnect
  BY <1>3, WorkerKeepsTypes
<1>4. CASE UNCHANGED vars
  BY <1>4 DEF vars, TypeOK, SessionTypeOK
<1>. QED  BY <1>1, <1>2, <1>3, <1>4 DEF Next

\* The initial state is typed.
LEMMA InitTyped == Init => TypeOK
<1>. SUFFICES ASSUME Init PROVE TypeOK
  OBVIOUS
<1>1. requests = <<>> /\ heard = <<>> /\ replies = <<>> /\ faults = 0
  BY DEF Init, Closed
<1>2. requests \in Seq(Chunk) /\ Len(requests) <= ChannelCapacity
  BY <1>1, Empty, SizeAssumption
<1>3. replies \in Seq(Seq(Utterance)) /\ Len(replies) <= ReplyWindow
  BY <1>1, Empty, SizeAssumption
<1>4. heard \in Seq(Utterance) /\ faults \in 0..MaxFaults
  BY <1>1, Empty, SizeAssumption
<1>5. SessionTypeOK
  BY <1>2, <1>3, <1>4 DEF Init, Closed, SessionTypeOK
<1>6. inbox \in Seq(aired) /\ found \in Seq(Utterance)
      /\ published \in Seq(Segment) /\ found = <<>>
      /\ timeline \in Seq(Chunk) /\ spoken \in Seq(Chunk)
  BY Empty DEF Init
<1>. QED  BY <1>5, <1>6 DEF Init, TypeOK

\* Every variable has its type in every reachable state: in particular the
\* channel and the window of replies keep their bounds, only messages that
\* were aired are received, and the task has segments in hand exactly when it
\* publishes (run_live_connected).
THEOREM TypeCorrect == Spec => []TypeOK
BY InitTyped, NextKeepsTypes, PTL DEF Spec

-----------------------------------------------------------------------------
(* Chunks *)

\* What waits was aired.
LEMMA WaitingWasAired ==
    ASSUME TypeOK
    PROVE  ToSet(inbox) \subseteq aired
<1>1. inbox \in Seq(aired)
  BY DEF TypeOK
<1>. QED  BY <1>1 DEF ToSet

\* A message is received, taken and sent once: Air never repeats one, and
\* each step hands it on.
LEMMA NextKeepsChunks == TypeOK /\ ChunkInvariant /\ [Next]_vars => ChunkInvariant'
<1>. SUFFICES ASSUME TypeOK, ChunkInvariant, [Next]_vars PROVE ChunkInvariant'
  OBVIOUS
<1>. USE DEF sessionVars, workerVars, history
<1>0. /\ inbox \in Seq(aired) /\ chunk \subseteq aired /\ sent \subseteq aired
      /\ ToSet(inbox) \subseteq aired /\ requests \in Seq(Chunk)
      /\ aired \subseteq Chunk
  BY WaitingWasAired DEF TypeOK, SessionTypeOK
<1>1. CASE UNCHANGED <<requests, inbox, chunk, sent>>
  BY <1>1 DEF ChunkInvariant
<1>2. ASSUME inbox' = <<>> \/ UNCHANGED inbox,
             requests' = <<>> \/ UNCHANGED requests,
             chunk' = {} \/ UNCHANGED chunk, UNCHANGED sent
      PROVE  ChunkInvariant'
  BY <1>2, Empty DEF ChunkInvariant, Apart
<1>3. ASSUME NEW message \in Chunk, Air(message)
      PROVE  ChunkInvariant'
  <2>1. message \notin aired /\ UNCHANGED <<requests, chunk, sent>>
    BY <1>3 DEF Air
  <2>2. CASE UNCHANGED inbox
    BY <1>1, <2>1, <2>2
  <2>3. CASE inbox' = Append(inbox, message)
    <3>1. inbox \in Seq(Chunk)
      BY <1>0
    <3>2. /\ ToSet(inbox') = ToSet(inbox) \union {message}
          /\ message \notin ToSet(inbox) => (NoRepeat(inbox) => NoRepeat(inbox'))
      BY <2>3, <3>1, OneMore
    <3>. QED  BY <1>0, <2>1, <3>2 DEF ChunkInvariant, Apart
  <2>. QED  BY <1>3, <2>2, <2>3 DEF Air
<1>4. CASE NextMessage
  <2>1. /\ inbox # <<>> /\ chunk' = {Head(inbox)} /\ inbox' = Tail(inbox)
        /\ UNCHANGED <<requests, sent>>
    BY <1>4 DEF NextMessage
  <2>2. /\ Head(inbox) \in ToSet(inbox)
        /\ ToSet(inbox) = ToSet(inbox') \union {Head(inbox)}
        /\ NoRepeat(inbox')
        /\ Head(inbox) \notin ToSet(inbox')
    BY <1>0, <2>1, HeadAndTail DEF ChunkInvariant
  <2>. QED  BY <2>1, <2>2 DEF ChunkInvariant, Apart
<1>5. CASE SendChunk
  <2>1. chunk' = {} /\ UNCHANGED inbox
    BY <1>5 DEF SendChunk
  <2>2. CASE UNCHANGED <<sessionVars, history>>
    BY <1>2, <2>1, <2>2
  <2>3. ASSUME NEW message \in chunk, Send(message),
               sent' = sent \union {message}
        PROVE  ChunkInvariant'
    <3>1. requests' = Append(requests, message) /\ message \in Chunk
      BY <1>0, <2>3 DEF Send
    <3>2. /\ ToSet(requests') = ToSet(requests) \union {message}
          /\ message \notin ToSet(requests)
                => (NoRepeat(requests) => NoRepeat(requests'))
      BY <1>0, <3>1, OneMore
    <3>. QED  BY <2>1, <2>3, <3>2 DEF ChunkInvariant, Apart
  <2>. QED  BY <1>5, <2>2, <2>3 DEF SendChunk
<1>6. CASE RivaHears /\ RivaStep
  <2>1. /\ requests # <<>> /\ requests' = Tail(requests)
        /\ UNCHANGED <<inbox, chunk, sent>>
    BY <1>6 DEF RivaHears, RivaStep
  <2>2. /\ ToSet(requests) = ToSet(requests') \union {Head(requests)}
        /\ NoRepeat(requests')
    BY <1>0, <2>1, HeadAndTail DEF ChunkInvariant
  <2>. QED  BY <2>1, <2>2 DEF ChunkInvariant
<1>7. CASE (RivaReports \/ RivaEnds \/ RivaFails) /\ RivaStep
  BY <1>1, <1>7 DEF RivaReports, RivaEnds, RivaFails, RivaStep
<1>8. CASE Subscribe \/ OpenSession \/ SessionFails \/ CallFails
  BY <1>2, <1>8 DEF Subscribe, OpenSession, OpenStream, SessionFails, CallFails,
                    Leave, DropSession
<1>9. CASE RecvNext \/ RecvNone \/ PublishSegment \/ CloseStream \/ CloseDone
             \/ Finish \/ Disconnect
  BY <1>1, <1>9 DEF RecvNext, FromReply, ReadReply, RecvNone, PublishSegment,
                    CloseStream, DropSender, CloseDone, Finish, Disconnect
<1>10. CASE UNCHANGED vars
  BY <1>1, <1>10 DEF vars
<1>. QED  BY <1>3, <1>4, <1>5, <1>6, <1>7, <1>8, <1>9, <1>10
          DEF Next, WorkerStep, RivaStep

-----------------------------------------------------------------------------
(* Utterances *)

\* What Riva heard stays heard.
LEMMA ArrivedStays ==
    ASSUME sent \ ToSet(requests) \subseteq sent' \ ToSet(requests)',
           NEW utterance, Arrived(utterance)
    PROVE  Arrived(utterance)'
BY DEF Arrived

\* What the head of the channel says is said nowhere else.
LEMMA SaidOnce ==
    ASSUME TypeOK, ChunkInvariant, requests # <<>>,
           NEW utterance \in ToSet(UtterancesOf[Head(requests)])
    PROVE  /\ Heard(utterance) = {Head(requests)}
           /\ ~Arrived(utterance)
<1>1. /\ Head(requests) \in Chunk /\ Head(requests) \in ToSet(requests)
      /\ sent \subseteq Chunk
  BY HeadAndTail DEF TypeOK, SessionTypeOK
<1>2. ASSUME NEW message \in Chunk, utterance \in ToSet(UtterancesOf[message])
      PROVE  message = Head(requests)
  <2>1. PICK i \in DOMAIN UtterancesOf[message] :
          UtterancesOf[message][i] = utterance
    BY <1>2 DEF ToSet
  <2>2. PICK j \in DOMAIN UtterancesOf[Head(requests)] :
          UtterancesOf[Head(requests)][j] = utterance
    BY DEF ToSet
  <2>. QED  BY <1>1, <2>1, <2>2, UtteranceAssumption
<1>. QED  BY <1>1, <1>2 DEF Heard, Arrived

\* A chunk says nothing twice.
LEMMA SaidInOrder ==
    ASSUME NEW message \in Chunk
    PROVE  /\ NoRepeat(UtterancesOf[message])
           /\ UtterancesOf[message] \in Seq(Utterance)
BY UtteranceAssumption, ChunkAssumption DEF NoRepeat

\* Publishing the segment in hand.
LEMMA XAddPublishes ==
    ASSUME TypeOK, UtteranceInvariant, found # <<>>, XAdd
    PROVE  /\ PublishedOnce'
           /\ Transcribed' = Transcribed \union {Head(found)}
           /\ Head(found) \in ToSet(found)
<1>1. Head(found) \in ToSet(found) /\ Head(found) \in Utterance
  BY HeadAndTail DEF TypeOK
<1>2. Head(found) \notin Transcribed
  BY <1>1 DEF UtteranceInvariant, Apart
<1>3. /\ Bridged(Head(found)) \in Segment
      /\ Bridged(Head(found)).utterance = Head(found)
  BY <1>1, BridgedType
<1>4. PICK one : one = Bridged(Head(found))
  OBVIOUS
<1>5. /\ DOMAIN published' = DOMAIN published \union {Len(published) + 1}
      /\ \A i \in DOMAIN published : published'[i] = published[i]
      /\ published'[Len(published) + 1] = one
  BY <1>3, <1>4, OneMore DEF XAdd, TypeOK
<1>6. one.utterance = Head(found)
  BY <1>3, <1>4
<1>7. \A i \in DOMAIN published : published[i].utterance # Head(found)
  BY <1>2 DEF Transcribed
<1>8. PublishedOnce'
  BY <1>5, <1>6, <1>7 DEF UtteranceInvariant, PublishedOnce
<1>9. Transcribed' = Transcribed \union {Head(found)}
  BY <1>5, <1>6 DEF Transcribed
<1>. QED  BY <1>1, <1>8, <1>9

\* The steps that move no utterance.
LEMMA NoUtteranceMoves ==
    ASSUME UtteranceInvariant, UNCHANGED <<heard, replies, found, published>>,
           sent \ ToSet(requests) \subseteq sent' \ ToSet(requests)'
    PROVE  UtteranceInvariant'
<1>1. /\ ToSet(heard)' = ToSet(heard) /\ ToSet(found)' = ToSet(found)
      /\ Reported' = Reported /\ Transcribed' = Transcribed
  BY DEF Reported, Transcribed
<1>2. \A utterance : Arrived(utterance) => Arrived(utterance)'
  BY ArrivedStays
<1>. QED  BY <1>1, <1>2 DEF UtteranceInvariant, PublishedOnce

\* The steps that drop the session with what is on the way.
LEMMA OnTheWayIsDropped ==
    ASSUME TypeOK, UtteranceInvariant, ToSet(requests)' = {}, UNCHANGED sent,
           heard' = <<>>, replies' = <<>>, found' = <<>>,
           \/ UNCHANGED published
           \/ found # <<>> /\ XAdd
    PROVE  UtteranceInvariant'
<1>1. ToSet(heard)' = {} /\ ToSet(found)' = {} /\ NoRepeat(heard)'
  BY Empty
<1>2. DOMAIN replies' = {}
  OBVIOUS
<1>3. Reported' = {} /\ NothingTwice(replies)'
  BY <1>2 DEF Reported, Contents, NothingTwice
<1>4. \A utterance : Arrived(utterance) => Arrived(utterance)'
  BY ArrivedStays
<1>5. PublishedOnce' /\ Transcribed' \subseteq Transcribed \union ToSet(found)
  <2>1. CASE UNCHANGED published
    BY <2>1 DEF UtteranceInvariant, PublishedOnce, Transcribed
  <2>2. CASE found # <<>> /\ XAdd
    BY <2>2, XAddPublishes
  <2>. QED  BY <2>1, <2>2
<1>6. \A utterance \in Transcribed' : Arrived(utterance)'
  BY <1>4, <1>5 DEF UtteranceInvariant
<1>. QED  BY <1>1, <1>3, <1>5, <1>6 DEF UtteranceInvariant, Apart

\* Riva hears what nobody heard before.
LEMMA HearingIsNew ==
    ASSUME TypeOK, ChunkInvariant, UtteranceInvariant, RivaHears, RivaStep
    PROVE  UtteranceInvariant'
<1>. USE DEF workerVars, history
<1>. PICK message : message = Head(requests)
  OBVIOUS
<1>. PICK new : new = UtterancesOf[message]
  OBVIOUS
<1>1. /\ requests # <<>> /\ requests' = Tail(requests) /\ heard' = heard \o new
      /\ UNCHANGED <<found, published, sent>>
  BY DEF RivaHears, RivaStep
<1>2. /\ message \in Chunk /\ message \in sent /\ message \notin ToSet(requests')
      /\ ToSet(requests') \subseteq ToSet(requests)
  BY <1>1, HeadAndTail DEF TypeOK, SessionTypeOK, ChunkInvariant
<1>3. new \in Seq(Utterance) /\ NoRepeat(new)
  BY <1>2, SaidInOrder
<1>4. \A utterance \in ToSet(new) :
          ~Arrived(utterance) /\ Arrived(utterance)'
  <2>1. \A utterance \in ToSet(new) : ~Arrived(utterance)
    BY <1>1, SaidOnce
  <2>. QED  BY <1>1, <1>2, <2>1 DEF Arrived
<1>5. Apart(ToSet(new), ToSet(heard) \union Reported \union ToSet(found)
                            \union Transcribed)
  BY <1>4 DEF UtteranceInvariant, Apart
<1>6. NoRepeat(heard') /\ ToSet(heard') = ToSet(heard) \union ToSet(new)
  <2>1. heard \in Seq(Utterance) /\ Apart(ToSet(heard), ToSet(new))
    BY <1>5 DEF Apart, TypeOK, SessionTypeOK
  <2>. QED  BY <1>1, <1>3, <2>1, Together DEF UtteranceInvariant
<1>7. NothingTwice(replies') /\ Contents(replies') = Contents(replies)
  <2>1. CASE replies' = replies
    BY <2>1 DEF UtteranceInvariant
  <2>2. CASE replies' = Append(replies, <<>>)
    BY <2>2, OneMoreReply, Empty
       DEF UtteranceInvariant, Apart, TypeOK, SessionTypeOK
  <2>. QED  BY <2>1, <2>2 DEF RivaHears
<1>8. \A utterance : Arrived(utterance) => Arrived(utterance)'
  BY <1>1, <1>2, ArrivedStays
<1>9. /\ Reported' = Reported /\ Transcribed' = Transcribed
      /\ ToSet(found') = ToSet(found) /\ PublishedOnce'
  BY <1>1, <1>7 DEF Reported, Transcribed, UtteranceInvariant, PublishedOnce
<1>. QED  BY <1>4, <1>5, <1>6, <1>7, <1>8, <1>9 DEF UtteranceInvariant, Apart

\* Riva puts the oldest utterances it heard into a reply.
LEMMA ReportingMoves ==
    ASSUME TypeOK, UtteranceInvariant, RivaReports, RivaStep
    PROVE  UtteranceInvariant'
<1>. USE DEF workerVars, history
<1>1. /\ heard \in Seq(Utterance) /\ replies \in Seq(Seq(Utterance))
      /\ UNCHANGED <<requests, found, published, sent>>
  BY DEF RivaReports, RivaStep, TypeOK, SessionTypeOK
<1>2. PICK count \in 1..Len(heard) :
        /\ replies' = Append(replies, SubSeq(heard, 1, count))
        /\ heard' = SubSeq(heard, count + 1, Len(heard))
  <2>1. PICK count \in 1..MaxResults :
          /\ count <= Len(heard)
          /\ replies' = Append(replies, SubSeq(heard, 1, count))
          /\ heard' = SubSeq(heard, count + 1, Len(heard))
    BY DEF RivaReports
  <2>2. count \in 1..Len(heard)
    BY <1>1, <2>1, SizeAssumption
  <2>. QED  BY <2>1, <2>2
<1>. PICK one : one = SubSeq(heard, 1, count)
  OBVIOUS
<1>3. /\ one \in Seq(Utterance)
      /\ ToSet(heard) = ToSet(one) \union ToSet(heard')
      /\ NoRepeat(one) /\ NoRepeat(heard') /\ Apart(ToSet(one), ToSet(heard'))
  BY <1>1, <1>2, CutInTwo DEF UtteranceInvariant
<1>4. Apart(Contents(replies), ToSet(one))
  BY <1>3 DEF UtteranceInvariant, Reported, Apart
<1>5. /\ NothingTwice(replies')
      /\ Contents(replies') = Contents(replies) \union ToSet(one)
  BY <1>1, <1>2, <1>3, <1>4, OneMoreReply DEF UtteranceInvariant
<1>6. \A utterance : Arrived(utterance) => Arrived(utterance)'
  BY <1>1, ArrivedStays
<1>7. /\ Reported' = Reported \union ToSet(one) /\ Transcribed' = Transcribed
      /\ ToSet(found') = ToSet(found) /\ PublishedOnce'
  BY <1>1, <1>5 DEF Reported, Transcribed, UtteranceInvariant, PublishedOnce
<1>. QED  BY <1>3, <1>5, <1>6, <1>7 DEF UtteranceInvariant, Apart

\* The worker takes a reply, and of it the first result.
LEMMA ReadingMoves ==
    ASSUME TypeOK, UtteranceInvariant, RecvNext
    PROVE  UtteranceInvariant'
<1>1. /\ replies # <<>> /\ replies' = Tail(replies)
      /\ replies \in Seq(Seq(Utterance))
      /\ UNCHANGED <<requests, heard, published, sent>>
  BY DEF RecvNext, FromReply, ReadReply, TypeOK, SessionTypeOK, history
<1>. PICK one : one = Head(replies)
  OBVIOUS
<1>2. /\ one \in Seq(Utterance)
      /\ Contents(replies) = Contents(replies') \union ToSet(one)
      /\ NothingTwice(replies') /\ Apart(Contents(replies'), ToSet(one))
  BY <1>1, FirstReply, HeadAndTail DEF UtteranceInvariant
<1>3. \/ UNCHANGED found
      \/ ToSet(found') \subseteq ToSet(one)
  <2>1. CASE one = <<>>
    BY <2>1 DEF RecvNext
  <2>2. CASE one # <<>>
    <3>1. found' = <<Head(one)>> /\ Head(one) \in ToSet(one)
      BY <1>2, <2>2, HeadAndTail DEF RecvNext
    <3>2. ToSet(<<Head(one)>>) = {Head(one)}
      BY DEF ToSet
    <3>. QED  BY <3>1, <3>2
  <2>. QED  BY <2>1, <2>2
<1>4. /\ Reported' \subseteq Reported /\ ToSet(one) \subseteq Reported
      /\ Apart(Reported', ToSet(one))
      /\ Transcribed' = Transcribed /\ ToSet(heard') = ToSet(heard)
      /\ PublishedOnce' /\ NoRepeat(heard')
  BY <1>1, <1>2 DEF Reported, Transcribed, UtteranceInvariant, PublishedOnce
<1>5. \A utterance : Arrived(utterance) => Arrived(utterance)'
  BY <1>1, ArrivedStays
<1>6. ToSet(found)' = ToSet(found')
  OBVIOUS
<1>7. CASE UNCHANGED found
  BY <1>2, <1>4, <1>5, <1>6, <1>7 DEF UtteranceInvariant, Apart
<1>8. CASE ToSet(found') \subseteq ToSet(one)
  BY <1>2, <1>4, <1>5, <1>6, <1>8 DEF UtteranceInvariant, Apart
<1>. QED  BY <1>3, <1>7, <1>8

\* An utterance is in one place: each step moves it on or drops it.
LEMMA NextKeepsUtterances ==
    TypeOK /\ ChunkInvariant /\ UtteranceInvariant /\ [Next]_vars
        => UtteranceInvariant'
<1>. SUFFICES ASSUME TypeOK, ChunkInvariant, UtteranceInvariant, [Next]_vars
              PROVE  UtteranceInvariant'
  OBVIOUS
<1>. USE DEF sessionVars, workerVars, history
<1>1. CASE (\E message \in Chunk : Air(message)) \/ Subscribe \/ NextMessage
             \/ RecvNone \/ CloseStream \/ CloseDone \/ Finish \/ Disconnect
             \/ UNCHANGED vars
  <2>1. UNCHANGED <<heard, replies, found, published, sent, requests>>
    BY <1>1 DEF Air, Subscribe, NextMessage, RecvNone, CloseStream, DropSender,
                CloseDone, Finish, Disconnect, vars
  <2>. QED  BY <2>1, NoUtteranceMoves
<1>2. CASE OpenSession
  <2>1. /\ requests' = <<>> /\ heard' = <<>> /\ replies' = <<>>
        /\ UNCHANGED <<found, published, sent>> /\ found = <<>>
    BY <1>2 DEF OpenSession, OpenStream, TypeOK
  <2>2. ToSet(requests)' = {}
    BY <2>1, Empty
  <2>. QED  BY <2>1, <2>2, OnTheWayIsDropped
<1>3. CASE SendChunk
  <2>1. UNCHANGED <<heard, replies, found, published>>
    BY <1>3 DEF SendChunk, Send
  <2>2. CASE UNCHANGED <<sessionVars, history>>
    BY <2>1, <2>2, NoUtteranceMoves
  <2>3. ASSUME NEW message \in chunk, Send(message),
               sent' = sent \union {message}
        PROVE  UtteranceInvariant'
    <3>1. /\ requests' = Append(requests, message) /\ message \in Chunk
          /\ message \notin sent
      BY <2>3 DEF Send, TypeOK, ChunkInvariant, Apart
    <3>2. ToSet(requests)' = ToSet(requests) \union {message}
      BY <3>1, OneMore DEF TypeOK, SessionTypeOK
    <3>3. sent \ ToSet(requests) \subseteq sent' \ ToSet(requests)'
      BY <2>3, <3>1, <3>2
    <3>. QED  BY <2>1, <3>3, NoUtteranceMoves
  <2>. QED  BY <1>3, <2>2, <2>3 DEF SendChunk
<1>4. CASE RecvNext
  BY <1>4, ReadingMoves
<1>5. CASE PublishSegment
  <2>1. found # <<>> /\ XAdd /\ found' = <<>>
        /\ UNCHANGED <<requests, heard, replies, sent>>
    BY <1>5 DEF PublishSegment, TypeOK
  <2>2. /\ PublishedOnce' /\ Transcribed' = Transcribed \union {Head(found)}
        /\ Head(found) \in ToSet(found)
    BY <2>1, XAddPublishes
  <2>3. /\ ToSet(heard)' = ToSet(heard) /\ Reported' = Reported
        /\ ToSet(found)' = {} /\ NothingTwice(replies') /\ NoRepeat(heard')
    BY <2>1, Empty DEF Reported, UtteranceInvariant
  <2>4. \A utterance : Arrived(utterance) => Arrived(utterance)'
    BY <2>1, ArrivedStays
  <2>. QED  BY <2>2, <2>3, <2>4 DEF UtteranceInvariant, Apart
<1>6. CASE SessionFails \/ CallFails
  <2>1. /\ requests' = <<>> /\ heard' = <<>> /\ replies' = <<>> /\ found' = <<>>
        /\ UNCHANGED sent
    BY <1>6 DEF SessionFails, CallFails, Leave, DropSession
  <2>2. UNCHANGED published \/ (found # <<>> /\ XAdd)
    BY <1>6 DEF SessionFails, CallFails, TypeOK
  <2>3. ToSet(requests)' = {}
    BY <2>1, Empty
  <2>. QED  BY <2>1, <2>2, <2>3, OnTheWayIsDropped
<1>7. CASE RivaHears /\ RivaStep
  BY <1>7, HearingIsNew
<1>8. CASE RivaReports /\ RivaStep
  BY <1>8, ReportingMoves
<1>9. CASE (RivaEnds \/ RivaFails) /\ RivaStep
  <2>1. UNCHANGED <<heard, replies, found, published, sent, requests>>
    BY <1>9 DEF RivaEnds, RivaFails, RivaStep
  <2>. QED  BY <2>1, NoUtteranceMoves
<1>. QED  BY <1>1, <1>2, <1>3, <1>4, <1>5, <1>6, <1>7, <1>8, <1>9
          DEF Next, WorkerStep, RivaStep

-----------------------------------------------------------------------------
(* The timeline *)

\* Where the timeline is in step and holds the utterance's chunk, that chunk
\* is what is found on it.
LEMMA InStepFindsAudio ==
    ASSUME timeline = spoken, NEW utterance, Heard(utterance) \subseteq ToSet(spoken)
    PROVE  AudioOf(utterance) = Heard(utterance)
<1>1. AudioOf(utterance) \subseteq Heard(utterance)
  BY DEF AudioOf
<1>2. ASSUME NEW message \in Heard(utterance)
      PROVE  message \in AudioOf(utterance)
  <2>1. PICK k \in DOMAIN spoken : spoken[k] = message
    BY <1>2 DEF ToSet
  <2>. QED  BY <1>2, <2>1 DEF AudioOf
<1>. QED  BY <1>1, <1>2

\* The step that publishes asks the timeline of the session it came from.
LEMMA XAddIsAcoustic ==
    ASSUME TypeOK, TimelineInvariant, lw = "publish", XAdd
    PROVE  SegmentsAreAcoustic'
<1>1. /\ found # <<>> /\ chunk = {}
      /\ Head(found) \in ToSet(found) /\ Head(found) \in Utterance
  BY HeadAndTail DEF TypeOK
<1>2. timeline = spoken /\ Heard(Head(found)) \subseteq ToSet(spoken)
  BY <1>1 DEF TimelineInvariant, InStep
<1>. PICK one : one = Bridged(Head(found))
  OBVIOUS
<1>3. /\ one \in Segment /\ one.utterance = Head(found)
      /\ one.audio = Heard(Head(found))
  BY <1>1, <1>2, BridgedType, InStepFindsAudio
<1>4. /\ DOMAIN published' = DOMAIN published \union {Len(published) + 1}
      /\ \A i \in DOMAIN published : published'[i] = published[i]
      /\ published'[Len(published) + 1] = one
  BY <1>3, OneMore DEF XAdd, TypeOK
<1>5. \A utterance : Heard(utterance)' = Heard(utterance)
  BY DEF Heard
<1>. QED  BY <1>3, <1>4, <1>5 DEF TimelineInvariant, SegmentsAreAcoustic

\* A step that publishes nothing and sends nothing, where what is on the way
\* was on the way before.
LEMMA OnTheWayStays ==
    ASSUME TimelineInvariant, InStep', UNCHANGED <<published, spoken>>,
           ToSet(requests)' \subseteq ToSet(requests),
           \A utterance \in (ToSet(heard) \union Reported \union ToSet(found))' :
              \/ utterance \in ToSet(heard) \union Reported \union ToSet(found)
              \/ Heard(utterance) \subseteq ToSet(spoken)
    PROVE  TimelineInvariant'
<1>1. \A utterance : Heard(utterance)' = Heard(utterance)
  BY DEF Heard
<1>2. ToSet(spoken)' = ToSet(spoken)
  OBVIOUS
<1>3. SegmentsAreAcoustic'
  BY <1>1 DEF TimelineInvariant, SegmentsAreAcoustic
<1>. QED  BY <1>1, <1>2, <1>3 DEF TimelineInvariant

\* A step that leaves nothing on the way.
LEMMA NothingOnTheWay ==
    ASSUME TimelineInvariant, InStep', SegmentsAreAcoustic',
           requests' = <<>>, heard' = <<>>, replies' = <<>>, found' = <<>>
    PROVE  TimelineInvariant'
<1>1. /\ ToSet(requests)' = {} /\ ToSet(heard)' = {} /\ ToSet(found)' = {}
      /\ DOMAIN replies' = {}
  BY Empty
<1>2. Reported' = {}
  BY <1>1 DEF Reported, Contents
<1>. QED  BY <1>1, <1>2 DEF TimelineInvariant

\* The timeline starts with the session, a chunk is on it before it is sent,
\* and every chunk on it is sent next.
LEMMA NextKeepsTimeline ==
    TypeOK /\ ChunkInvariant /\ TimelineInvariant /\ [Next]_vars
        => TimelineInvariant'
<1>. SUFFICES ASSUME TypeOK, ChunkInvariant, TimelineInvariant, [Next]_vars
              PROVE  TimelineInvariant'
  OBVIOUS
<1>. USE DEF sessionVars, workerVars, history
<1>0. /\ chunk # {} <=> lw = "send"
      /\ replies \in Seq(Seq(Utterance)) /\ heard \in Seq(Utterance)
      /\ requests \in Seq(Chunk) /\ spoken \in Seq(Chunk)
  BY DEF TypeOK, SessionTypeOK
<1>1. CASE \/ \E message \in Chunk : Air(message)
           \/ Subscribe \/ RecvNone \/ CloseStream \/ CloseDone \/ Finish
           \/ Disconnect \/ UNCHANGED vars
           \/ (RivaEnds \/ RivaFails) /\ RivaStep
  <2>1. UNCHANGED <<chunk, timeline, requests, heard, replies, found,
                    published, spoken>>
    BY <1>1 DEF Air, Subscribe, RecvNone, CloseStream, DropSender, CloseDone,
                Finish, Disconnect, vars, RivaEnds, RivaFails, RivaStep
  <2>2. lw' \in {"down", "open"} \/ lw \notin {"down", "open"} \/ lw' = lw
    BY <1>1 DEF Air, Subscribe, RecvNone, CloseStream, CloseDone, Finish,
                Disconnect, vars, RivaStep
  <2>3. InStep'
    BY <2>1, <2>2 DEF TimelineInvariant, InStep
  <2>4. /\ ToSet(requests)' = ToSet(requests) /\ ToSet(heard)' = ToSet(heard)
        /\ ToSet(found)' = ToSet(found) /\ Reported' = Reported
    BY <2>1 DEF Reported
  <2>. QED  BY <2>1, <2>3, <2>4, OnTheWayStays
<1>2. CASE OpenSession
  <2>1. /\ requests' = <<>> /\ heard' = <<>> /\ replies' = <<>> /\ found' = <<>>
        /\ chunk' = {} /\ timeline' = <<>> /\ spoken' = <<>>
        /\ UNCHANGED published
    BY <1>2 DEF OpenSession, OpenStream, NewTimeline, TypeOK
  <2>2. InStep'
    BY <2>1 DEF InStep
  <2>3. SegmentsAreAcoustic'
    BY <2>1 DEF TimelineInvariant, SegmentsAreAcoustic, Heard
  <2>. QED  BY <2>1, <2>2, <2>3, NothingOnTheWay
<1>3. CASE SessionFails \/ CallFails
  <2>1. /\ requests' = <<>> /\ heard' = <<>> /\ replies' = <<>> /\ found' = <<>>
        /\ lw' = "down"
    BY <1>3 DEF SessionFails, CallFails, Leave, DropSession
  <2>2. InStep'
    BY <2>1 DEF InStep
  <2>3. SegmentsAreAcoustic'
    <3>1. CASE UNCHANGED published
      BY <3>1 DEF TimelineInvariant, SegmentsAreAcoustic, Heard
    <3>2. CASE lw = "publish" /\ XAdd
      BY <3>2, XAddIsAcoustic
    <3>. QED  BY <1>3, <3>1, <3>2 DEF SessionFails, CallFails
  <2>. QED  BY <2>1, <2>2, <2>3, NothingOnTheWay
<1>4. CASE NextMessage
  <2>1. /\ lw = "next" /\ inbox # <<>> /\ chunk' = {Head(inbox)}
        /\ Push(Head(inbox))
        /\ UNCHANGED <<requests, heard, replies, found, published, spoken>>
    BY <1>4 DEF NextMessage
  <2>2. timeline = spoken
    BY <1>0, <2>1 DEF TimelineInvariant, InStep
  <2>3. InStep'
    <3>1. Head(inbox) \in Chunk
      BY <2>1, HeadAndTail DEF TypeOK
    <3>. QED  BY <2>1, <2>2, <3>1 DEF Push, InStep
  <2>4. /\ ToSet(requests)' = ToSet(requests) /\ ToSet(heard)' = ToSet(heard)
        /\ ToSet(found)' = ToSet(found) /\ Reported' = Reported
    BY <2>1 DEF Reported
  <2>. QED  BY <2>1, <2>3, <2>4, OnTheWayStays
<1>5. CASE SendChunk
  <2>1. /\ lw = "send" /\ lw' = "recv" /\ chunk' = {}
        /\ UNCHANGED <<timeline, heard, replies, found, published>>
    BY <1>5 DEF SendChunk, Send
  <2>2. /\ ToSet(heard)' = ToSet(heard) /\ ToSet(found)' = ToSet(found)
        /\ Reported' = Reported
    BY <2>1 DEF Reported
  <2>4. PICK message \in chunk :
          \/ message \in EmptyChunk /\ UNCHANGED <<sessionVars, history>>
          \/ /\ message \notin EmptyChunk /\ Send(message)
             /\ spoken' = Append(spoken, message)
    BY <1>5 DEF SendChunk
  <2>5. CASE message \in EmptyChunk /\ UNCHANGED <<sessionVars, history>>
    <3>1. timeline = spoken
      BY <2>1, <2>5 DEF TimelineInvariant, InStep
    <3>2. InStep' /\ UNCHANGED <<requests, spoken>>
      BY <2>1, <2>5, <3>1 DEF InStep
    <3>3. ToSet(requests)' = ToSet(requests)
      BY <3>2
    <3>. QED  BY <2>1, <2>2, <3>2, <3>3, OnTheWayStays
  <2>6. CASE /\ message \notin EmptyChunk /\ Send(message)
             /\ spoken' = Append(spoken, message)
    <3>1. timeline = spoken'
      BY <2>1, <2>6 DEF TimelineInvariant, InStep
    <3>2. InStep'
      BY <2>1, <3>1 DEF InStep
    <3>3. requests' = Append(requests, message) /\ message \in Chunk
      BY <2>6 DEF Send, TypeOK
    <3>4. /\ ToSet(requests)' = ToSet(requests) \union {message}
          /\ ToSet(spoken)' = ToSet(spoken) \union {message}
      BY <1>0, <2>6, <3>3, OneMore
    <3>5. \A utterance : Heard(utterance)' = Heard(utterance)
      BY DEF Heard
    <3>6. SegmentsAreAcoustic'
      BY <2>1, <3>5 DEF TimelineInvariant, SegmentsAreAcoustic
    <3>. QED  BY <2>2, <3>2, <3>4, <3>5, <3>6 DEF TimelineInvariant
  <2>. QED  BY <2>4, <2>5, <2>6
<1>6. CASE RecvNext
  <2>1. /\ UNCHANGED <<chunk, timeline, requests, heard, published, spoken>>
        /\ replies # <<>> /\ replies' = Tail(replies) /\ lw = "recv"
    BY <1>6 DEF RecvNext, FromReply, ReadReply
  <2>2. Reported' \subseteq Reported /\ ToSet(Head(replies)) \subseteq Reported
        /\ Head(replies) \in Seq(Utterance)
    <3>1. /\ Head(replies) \in ToSet(replies)
          /\ Head(replies) \in Seq(Utterance)
          /\ ToSet(replies) = ToSet(replies') \union {Head(replies)}
      BY <1>0, <2>1, HeadAndTail
    <3>2. /\ Reported = UNION {ToSet(list) : list \in ToSet(replies)}
          /\ Reported' = UNION {ToSet(list) : list \in ToSet(replies')}
      BY DEF Reported, Contents, ToSet
    <3>. QED  BY <3>1, <3>2
  <2>3. UNCHANGED found \/ ToSet(found)' \subseteq ToSet(Head(replies))
    <3>1. CASE Head(replies) # <<>>
      <4>1. /\ found' = <<Head(Head(replies))>>
            /\ Head(Head(replies)) \in ToSet(Head(replies))
        BY <1>6, <2>2, <3>1, HeadAndTail DEF RecvNext
      <4>2. ToSet(<<Head(Head(replies))>>) = {Head(Head(replies))}
        BY DEF ToSet
      <4>. QED  BY <4>1, <4>2
    <3>. QED  BY <1>6, <3>1 DEF RecvNext
  <2>4. ToSet(heard)' = ToSet(heard) /\ ToSet(requests)' = ToSet(requests)
        /\ (ToSet(found)' \subseteq ToSet(found) \union Reported)
    BY <2>1, <2>2, <2>3
  <2>5. InStep'
    BY <2>1 DEF TimelineInvariant, InStep
  <2>. QED  BY <2>1, <2>2, <2>4, <2>5, OnTheWayStays
<1>7. CASE PublishSegment
  <2>1. /\ UNCHANGED <<chunk, timeline, requests, heard, replies, spoken>>
        /\ lw = "publish" /\ found' = <<>> /\ XAdd
    BY <1>7 DEF PublishSegment
  <2>2. SegmentsAreAcoustic'
    BY <2>1, XAddIsAcoustic
  <2>3. /\ ToSet(heard)' = ToSet(heard) /\ ToSet(requests)' = ToSet(requests)
        /\ Reported' = Reported /\ ToSet(found)' = {}
        /\ ToSet(spoken)' = ToSet(spoken)
    BY <2>1, Empty DEF Reported
  <2>4. InStep'
    BY <2>1 DEF TimelineInvariant, InStep
  <2>. QED  BY <2>2, <2>3, <2>4 DEF TimelineInvariant, Heard
<1>8. CASE RivaHears /\ RivaStep
  <2>1. /\ requests # <<>> /\ requests' = Tail(requests)
        /\ heard' = heard \o UtterancesOf[Head(requests)]
        /\ UNCHANGED <<lw, chunk, timeline, found, published, spoken>>
    BY <1>8 DEF RivaHears, RivaStep
  <2>2. /\ Head(requests) \in Chunk /\ Head(requests) \in ToSet(requests)
        /\ ToSet(requests)' \subseteq ToSet(requests)
    BY <1>0, <2>1, HeadAndTail
  <2>3. ToSet(heard)' = ToSet(heard) \union ToSet(UtterancesOf[Head(requests)])
    BY <1>0, <2>1, <2>2, Together, ChunkAssumption
  <2>4. \A utterance \in ToSet(UtterancesOf[Head(requests)]) :
            Heard(utterance) \subseteq ToSet(spoken)
    BY <2>1, <2>2, SaidOnce DEF TimelineInvariant
  <2>5. Reported' = Reported
    <3>1. CASE replies' = replies
      BY <3>1 DEF Reported
    <3>2. CASE replies' = Append(replies, <<>>)
      <4>1. <<>> \in Seq(Utterance) /\ ToSet(<<>>) = {}
        BY Empty
      <4>2. Contents(replies') = Contents(replies) \union ToSet(<<>>)
        BY <1>0, <3>2, <4>1, OneMoreReply
      <4>. QED  BY <4>1, <4>2 DEF Reported
    <3>. QED  BY <1>8, <3>1, <3>2 DEF RivaHears
  <2>6. InStep' /\ ToSet(found)' = ToSet(found)
    BY <2>1 DEF TimelineInvariant, InStep
  <2>. QED  BY <2>1, <2>2, <2>3, <2>4, <2>5, <2>6, OnTheWayStays
<1>9. CASE RivaReports /\ RivaStep
  <2>1. UNCHANGED <<lw, chunk, timeline, requests, found, published, spoken>>
    BY <1>9 DEF RivaReports, RivaStep
  <2>2. PICK count \in 1..MaxResults :
          /\ count <= Len(heard)
          /\ replies' = Append(replies, SubSeq(heard, 1, count))
          /\ heard' = SubSeq(heard, count + 1, Len(heard))
    BY <1>9 DEF RivaReports
  <2>3. count \in 1..Len(heard)
    BY <1>0, <2>2, SizeAssumption
  <2>4. /\ SubSeq(heard, 1, count) \in Seq(Utterance)
        /\ ToSet(heard) = ToSet(SubSeq(heard, 1, count)) \union ToSet(heard')
    BY <1>0, <2>2, <2>3, CutInTwo
  <2>5. Reported' = Reported \union ToSet(SubSeq(heard, 1, count))
    BY <1>0, <2>2, <2>4, OneMoreReply DEF Reported
  <2>6. InStep' /\ ToSet(found)' = ToSet(found) /\ ToSet(requests)' = ToSet(requests)
    BY <2>1 DEF TimelineInvariant, InStep
  <2>7. ToSet(heard)' \subseteq ToSet(heard) /\ Reported' \subseteq Reported \union ToSet(heard)
    BY <2>4, <2>5
  <2>. QED  BY <2>1, <2>6, <2>7, OnTheWayStays
<1>. QED  BY <1>1, <1>2, <1>3, <1>4, <1>5, <1>6, <1>7, <1>8, <1>9
          DEF Next, WorkerStep, RivaStep

-----------------------------------------------------------------------------
(* The theorems *)

IInv == TypeOK /\ ChunkInvariant /\ UtteranceInvariant /\ TimelineInvariant

LEMMA InvariantHolds == Spec => []IInv
<1>1. Init => IInv
  <2>. SUFFICES ASSUME Init PROVE IInv
    OBVIOUS
  <2>1. TypeOK
    BY InitTyped
  <2>2. /\ requests = <<>> /\ heard = <<>> /\ replies = <<>> /\ inbox = <<>>
        /\ found = <<>> /\ published = <<>> /\ chunk = {} /\ sent = {}
    BY DEF Init, Closed
  <2>3. /\ ToSet(requests) = {} /\ ToSet(heard) = {} /\ ToSet(inbox) = {}
        /\ ToSet(found) = {} /\ NoRepeat(heard) /\ NoRepeat(inbox)
        /\ NoRepeat(requests)
    BY <2>2, Empty
  <2>4. DOMAIN replies = {} /\ DOMAIN published = {}
    BY <2>2
  <2>5. Reported = {} /\ Transcribed = {} /\ NothingTwice(replies)
    BY <2>4 DEF Reported, Transcribed, Contents, NothingTwice
  <2>6. PublishedOnce /\ SegmentsAreAcoustic
    BY <2>4 DEF PublishedOnce, SegmentsAreAcoustic
  <2>7. InStep
    BY DEF Init, InStep
  <2>. QED  BY <2>1, <2>2, <2>3, <2>5, <2>6, <2>7
            DEF IInv, ChunkInvariant, UtteranceInvariant, TimelineInvariant, Apart
<1>2. IInv /\ [Next]_vars => IInv'
  BY NextKeepsTypes, NextKeepsChunks, NextKeepsUtterances, NextKeepsTimeline
     DEF IInv
<1>. QED  BY <1>1, <1>2, PTL DEF Spec

\* No segment is published twice, for any chunks, replies and failures: what
\* Riva heard is in exactly one of its memory, a reply, the worker's hands and
\* the transcription stream, and a failed session takes what is on the way
\* with it (recv_next, publish_segment).
THEOREM NothingIsPublishedTwice == Spec => []PublishedOnce
<1>1. IInv => PublishedOnce
  BY DEF IInv, UtteranceInvariant
<1>. QED  BY <1>1, InvariantHolds, PTL

\* Every published segment has its fingerprint from the chunk it was said in:
\* a chunk is on the timeline before it is sent, and the timeline starts anew
\* with each session, so that the two agree on where each chunk is, over any
\* number of lost sessions (run_live_connected).
THEOREM AudioIsAtHand == Spec => []SegmentsAreAcoustic
<1>1. IInv => SegmentsAreAcoustic
  BY DEF IInv, TimelineInvariant
<1>. QED  BY <1>1, InvariantHolds, PTL

=============================================================================
