------------------------- MODULE IdentityLoopProofs --------------------------
(***************************************************************************)
(* Theorems about IdentityLoop, for any segments, sessions, answers, batch *)
(* size, request threshold and number of faults: its types; where the      *)
(* names on the live channel come from (buffered segments can be named and *)
(* replayed, a shown name was stored before); and that the loop implements *)
(* TranscriptDelivery.  HandlingProofs has what becomes of each entry.     *)
(***************************************************************************)
EXTENDS IdentityLoop, TLAPS

-----------------------------------------------------------------------------
(* The operators on Redis lists and on a session's entry *)

\* A pop of a non-empty list returns an element and leaves a list.
LEMMA PopType ==
    ASSUME NEW S, NEW list \in Seq(S), list # <<>>
    PROVE  Popped(list) \in S /\ AfterPop(list) \in Seq(S)
BY DEF Popped, AfterPop, Last, Front

\* Both pushes keep a list of the same type of payloads.
LEMMA PushType ==
    ASSUME NEW S, NEW list \in Seq(S), NEW payload \in S
    PROVE  RPush(list, payload) \in Seq(S) /\ LPush(list, payload) \in Seq(S)
BY DEF RPush, LPush, Cons

\* NoEntry is an entry.
LEMMA NoEntryType == NoEntry \in PendingSession
BY DEF NoEntry, PendingSession, MaybeVoice

\* buffer_unknown_segment keeps an entry well formed, marked or not, and
\* the request it derives from the entry is a request.
LEMMA WithSegmentType ==
    ASSUME NEW entry \in PendingSession, NEW segment \in Segment
    PROVE  /\ WithSegment(entry, segment) \in PendingSession
           /\ MarkRequested(WithSegment(entry, segment)) \in PendingSession
<1> DEFINE tag == TagOf[segment]
           prints == [entry.prints EXCEPT ![tag] =
                         IF @ = NoVoice THEN VoiceOf[segment] ELSE @]
<1>1. Append(entry.segments, segment) \in Seq(Segment)
  BY DEF PendingSession
<1>2. prints \in [Tag -> MaybeVoice]
  <2>1. entry.prints \in [Tag -> MaybeVoice]
    BY DEF PendingSession
  <2>2. VoiceOf[segment] \in MaybeVoice
    BY SegmentAssumption
  <2>. QED  BY <2>1, <2>2
<1>3. entry.requested \in BOOLEAN
  BY DEF PendingSession
<1>. QED  BY <1>1, <1>2, <1>3 DEF WithSegment, MarkRequested, PendingSession

LEMMA RequestsType ==
    ASSUME NEW entry \in PendingSession, NEW session \in Session
    PROVE  Requests(session, Fingerprinted(entry)) \in BrainRequest
BY DEF Requests, Fingerprinted, BrainRequest

\* Showing a segment under a name or under none keeps the records typed.
LEMMA ShowType ==
    ASSUME shown \subseteq Shown, showings \in [Segment -> Nat],
           announced \subseteq Announced,
           NEW segment \in Segment, NEW name \in MaybeName,
           Show(segment, name)
    PROVE  /\ shown' \subseteq Shown
           /\ showings' \in [Segment -> Nat]
           /\ announced' \subseteq Announced
BY DEF Show, Shown

\* The id being handled is a position of the stream.
LEMMA CurrentType ==
    ASSUME TypeOK, NEW id \in batch
    PROVE  /\ id \in pel /\ id \in 1..cursor /\ id \in DOMAIN stream
           /\ stream[id] \in Segment
           /\ SessionOf[stream[id]] \in Session
           /\ TagOf[stream[id]] \in Tag
           /\ VoiceOf[stream[id]] \in MaybeVoice
BY SegmentAssumption DEF TypeOK

\* A new entry leaves the entries of the reply at hand as they are.
LEMMA PublishKeepsEntries ==
    ASSUME TypeOK, NEW segment \in Segment, Publish(segment)
    PROVE  \A id \in batch : stream'[id] = stream[id]
BY DEF TypeOK, Publish

\* The entry a segment is buffered in, the entry marked as requested, and
\* the queue with the request added, have their types.
LEMMA BufferType ==
    ASSUME TypeOK, NEW id \in batch
    PROVE  LET segment == stream[id]
               session == SessionOf[segment]
               entry   == WithSegment(pending[session], segment) IN
           /\ segment \in Segment
           /\ session \in Session
           /\ entry \in PendingSession
           /\ MarkRequested(entry) \in PendingSession
           /\ RPush(brainQueue, Requests(session, Fingerprinted(entry)))
                  \in Seq(BrainRequest)
<1> DEFINE segment == stream[id]
           session == SessionOf[segment]
           entry   == WithSegment(pending[session], segment)
<1>1. segment \in Segment /\ session \in Session
  BY CurrentType
<1>2. pending[session] \in PendingSession
  BY <1>1 DEF TypeOK
<1>3. entry \in PendingSession /\ MarkRequested(entry) \in PendingSession
  BY <1>1, <1>2, WithSegmentType
<1>4. Requests(session, Fingerprinted(entry)) \in BrainRequest
  BY <1>1, <1>3, RequestsType
<1>5. RPush(brainQueue, Requests(session, Fingerprinted(entry)))
          \in Seq(BrainRequest)
  BY <1>4, PushType DEF TypeOK
<1>. QED  BY <1>1, <1>3, <1>5

-----------------------------------------------------------------------------
(* Type correctness *)

\* Every variable keeps its type over a step of the stream listener.
LEMMA ListenerKeepsTypes ==
    ASSUME TypeOK, ListenerStep \/ ListenerFault
    PROVE  TypeOK'
<1>. USE DEF redisVars, listenerVars, resolverVars, liveVars
<1>1. CASE ReadPending
  <2>1. batch' \subseteq pel
    BY <1>1 DEF ReadPending, Oldest
  <2>. QED  BY <1>1, <2>1 DEF ReadPending, TypeOK
<1>2. ASSUME DeliverNew
      PROVE  /\ cursor' \in 0..Len(stream)
             /\ pel' = (cursor + 1)..cursor'
             /\ pel' \subseteq 1..cursor'
             /\ (cursor + 1)..AfterRead = pel'
  <2>1. AfterRead \in 0..Len(stream)
    BY <1>2, ConfigAssumption DEF AfterRead, TypeOK, DeliverNew
  <2>2. cursor \in Nat
    BY DEF TypeOK
  <2>. QED  BY <1>2, <2>1, <2>2 DEF DeliverNew
<1>3. CASE ReadNew
  BY <1>2, <1>3 DEF ReadNew, DeliverNew, TypeOK
<1>4. CASE DecodeFails
  BY <1>4 DEF DecodeFails, BackToPoll, TypeOK, MaybeName
<1>5. CASE MatchVoice
  <2>1. named' \in MaybeName
    BY <1>5 DEF MatchVoice, Matches, TypeOK, Point, MaybeName
  <2>. QED  BY <1>5, <2>1 DEF MatchVoice, TypeOK
<1>6. CASE EmitFinalTranscript
  <2>1. PICK id \in batch : Show(stream[id], named)
    BY <1>6 DEF EmitFinalTranscript
  <2>2. /\ shown' \subseteq Shown
        /\ showings' \in [Segment -> Nat]
        /\ announced' \subseteq Announced
    BY <2>1, CurrentType, ShowType DEF TypeOK
  <2>. QED  BY <1>6, <2>2 DEF EmitFinalTranscript, TypeOK, MaybeName
<1>7. CASE BufferUnknownSegment
  <2>1. PICK id \in batch :
          LET segment == stream[id]
              session == SessionOf[segment]
              entry   == WithSegment(pending[session], segment) IN
          /\ buffered' = buffered \union {segment}
          /\ \/ /\ pending' = [pending EXCEPT ![session] = entry]
                /\ UNCHANGED brainQueue
             \/ /\ pending' = [pending EXCEPT
                                  ![session] = MarkRequested(entry)]
                /\ brainQueue' = RPush(brainQueue,
                                     Requests(session, Fingerprinted(entry)))
    BY <1>7 DEF BufferUnknownSegment
  <2>2. /\ pending' \in [Session -> PendingSession]
        /\ brainQueue' \in Seq(BrainRequest)
        /\ buffered' \subseteq Segment
    BY <2>1, BufferType DEF TypeOK
  <2>. QED  BY <1>7, <2>2 DEF BufferUnknownSegment, TypeOK
<1>8. CASE Acknowledge
  BY <1>8 DEF Acknowledge, TypeOK
<1>9. ASSUME Fault PROVE faults' \in 0..MaxFaults
  BY <1>9, MaxFaultsAssumption DEF Fault, TypeOK
<1>10. CASE ListenerCallFails
  BY <1>9, <1>10 DEF ListenerCallFails, BackToPoll, TypeOK, MaybeName
<1>11. CASE ReadReplyLost
  BY <1>2, <1>9, <1>11 DEF ReadReplyLost, DeliverNew, TypeOK
<1>12. CASE EmitReplyLost
  <2>1. PICK id \in batch : Show(stream[id], named)
    BY <1>12 DEF EmitReplyLost
  <2>2. /\ shown' \subseteq Shown
        /\ showings' \in [Segment -> Nat]
        /\ announced' \subseteq Announced
    BY <2>1, CurrentType, ShowType DEF TypeOK
  <2>. QED  BY <1>9, <1>12, <2>2 DEF EmitReplyLost, BackToPoll, TypeOK, MaybeName
<1>13. CASE DispatchFails
  <2>1. PICK id \in batch :
          LET segment == stream[id]
              session == SessionOf[segment]
              entry   == WithSegment(pending[session], segment) IN
          /\ pending' = [pending EXCEPT ![session] = entry]
          /\ buffered' = buffered \union {segment}
          /\ \/ UNCHANGED brainQueue
             \/ brainQueue' = RPush(brainQueue,
                                    Requests(session, Fingerprinted(entry)))
    BY <1>13 DEF DispatchFails
  <2>2. /\ pending' \in [Session -> PendingSession]
        /\ brainQueue' \in Seq(BrainRequest)
        /\ buffered' \subseteq Segment
    BY <2>1, BufferType DEF TypeOK
  <2>. QED  BY <1>9, <1>13, <2>2 DEF DispatchFails, BackToPoll, TypeOK, MaybeName
<1>14. CASE AckReplyLost
  BY <1>9, <1>14 DEF AckReplyLost, BackToPoll, TypeOK, MaybeName
<1>. QED  BY <1>1, <1>3, <1>4, <1>5, <1>6, <1>7, <1>8, <1>10, <1>11, <1>12,
             <1>13, <1>14 DEF ListenerStep, ListenerFault

\* What the resolver holds while it is not idle, spelled out.
LEMMA HandType ==
    ASSUME TypeOK, rpc # "idle"
    PROVE  /\ hand \in Hand
           /\ hand.session \in Session
           /\ hand.entry \in PendingSession
           /\ hand.entry.segments \in Seq(Segment)
           /\ hand.entry.prints \in [Tag -> MaybeVoice]
           /\ hand.names \in [Tag -> MaybeName]
           /\ hand.todo \subseteq Tag
           /\ hand.left \subseteq Nat
BY DEF TypeOK, Hand, PendingSession

\* The resolver works on tags it was given a name for, and replays positions
\* of the entry's segments.
HandOK ==
    rpc # "idle" =>
        /\ \A tag \in hand.todo : hand.names[tag] \in Name
        /\ hand.left \subseteq DOMAIN hand.entry.segments
        /\ rpc # "upsert" => hand.todo # {}

\* Storing a voice keeps the collection and the history typed.
LEMMA UpsertType ==
    ASSUME TypeOK, HandOK, rpc # "idle", NEW tag \in hand.todo, Upsert(tag)
    PROVE  memory' \in [PointId -> Point] /\ upserted' \subseteq Upserted
<1>1. /\ hand.session \in Session
      /\ tag \in Tag
      /\ hand.entry.prints[tag] \in Voice
      /\ hand.names[tag] \in Name
  BY HandType DEF HandOK, Upsert, MaybeVoice
<1>. QED  BY <1>1 DEF Upsert, TypeOK, PointId, Point, Upserted, MaybeVoice, MaybeName

\* Announcing a name the resolver still has to apply.
LEMMA AnnounceType ==
    ASSUME TypeOK, HandOK, rpc # "idle", NEW tag \in hand.todo, Announce(tag)
    PROVE  announced' \subseteq Announced /\ UNCHANGED <<shown, showings>>
<1>1. /\ hand.session \in Session
      /\ tag \in Tag
      /\ hand.names[tag] \in Name
  BY HandType DEF HandOK
<1>. QED  BY <1>1 DEF Announce, TypeOK, Announced

\* Replaying a position of the entry in hand.
LEMMA ReplayType ==
    ASSUME TypeOK, HandOK, rpc # "idle", NEW i \in hand.left, Replay(i)
    PROVE  /\ shown' \subseteq Shown
           /\ showings' \in [Segment -> Nat]
           /\ announced' \subseteq Announced
<1>1. PICK tag \in hand.todo : Show(hand.entry.segments[i], hand.names[tag])
  BY DEF Replay
<1>2. hand.entry.segments[i] \in Segment /\ hand.names[tag] \in MaybeName
  BY HandType DEF HandOK, MaybeName
<1>. QED  BY <1>1, <1>2, ShowType DEF TypeOK

\* Every variable keeps its type over a step of the resolution listener.
LEMMA ResolverKeepsTypes ==
    ASSUME TypeOK, HandOK, ResolverStep \/ ResolverFault
    PROVE  TypeOK' /\ HandOK'
<1>. USE DEF redisVars, listenerVars, resolverVars, liveVars
<1>1. CASE TakeResolution
  <2> DEFINE response == Popped(resolutions)
             entry    == pending[response.session]
  <2>1. /\ response \in BrainResponse
        /\ resolutions' \in Seq(BrainResponse)
    BY <1>1, PopType DEF TakeResolution, TypeOK
  <2>2. /\ response.session \in Session
        /\ response.names \in [Tag -> MaybeName]
        /\ entry \in PendingSession
    BY <2>1 DEF BrainResponse, TypeOK
  <2>3. pending' \in [Session -> PendingSession]
    BY <1>1, <2>2, NoEntryType DEF TakeResolution, TypeOK
  <2>4. \/ UNCHANGED resolverVars
        \/ /\ rpc' = "upsert"
           /\ hand' = [session |-> response.session, entry |-> entry,
                       names |-> response.names,
                       todo |-> NamedBy(response.names), left |-> {}]
    BY <1>1 DEF TakeResolution
  <2>5. /\ IF rpc' = "idle" THEN hand' = NoHand ELSE hand' \in Hand
        /\ rpc' \in {"idle", "upsert", "announce", "replay"}
        /\ HandOK'
    <3>1. CASE UNCHANGED resolverVars
      BY <3>1 DEF TypeOK, HandOK
    <3>2. CASE /\ rpc' = "upsert"
               /\ hand' = [session |-> response.session, entry |-> entry,
                           names |-> response.names,
                           todo |-> NamedBy(response.names), left |-> {}]
      BY <3>2, <2>2 DEF Hand, HandOK, NamedBy, MaybeName
    <3>. QED  BY <2>4, <3>1, <3>2
  <2>. HIDE DEF response, entry
  <2>. QED  BY <1>1, <2>1, <2>3, <2>5 DEF TakeResolution, TypeOK
<1>2. CASE SkipUnprinted
  BY <1>2, HandType DEF SkipUnprinted, TypeOK, Hand, HandOK
<1>3. CASE UpsertVoiceIdentity
  <2>1. PICK tag \in hand.todo : Upsert(tag)
    BY <1>3 DEF UpsertVoiceIdentity
  <2>2. memory' \in [PointId -> Point] /\ upserted' \subseteq Upserted
    BY <1>3, <2>1, UpsertType DEF UpsertVoiceIdentity
  <2>. QED  BY <1>3, <2>1, <2>2 DEF UpsertVoiceIdentity, TypeOK, HandOK
<1>4. CASE EmitIdentityResolved
  <2>1. PICK tag \in hand.todo :
          /\ Announce(tag)
          /\ hand' = [hand EXCEPT !.left =
                {i \in DOMAIN hand.entry.segments :
                    TagOf[hand.entry.segments[i]] = tag}]
    BY <1>4 DEF EmitIdentityResolved
  <2>2. announced' \subseteq Announced /\ UNCHANGED <<shown, showings>>
    BY <1>4, <2>1, AnnounceType DEF EmitIdentityResolved
  <2>3. hand' \in Hand /\ HandOK'
    BY <1>4, <2>1, HandType DEF EmitIdentityResolved, Hand, HandOK
  <2>. QED  BY <1>4, <2>2, <2>3 DEF EmitIdentityResolved, TypeOK
<1>5. CASE ReplayBufferedSegment
  <2>1. PICK i \in hand.left :
          Replay(i) /\ hand' = [hand EXCEPT !.left = @ \ {i}]
    BY <1>5 DEF ReplayBufferedSegment
  <2>2. /\ shown' \subseteq Shown
        /\ showings' \in [Segment -> Nat]
        /\ announced' \subseteq Announced
    BY <1>5, <2>1, ReplayType DEF ReplayBufferedSegment
  <2>3. hand' \in Hand /\ HandOK'
    BY <1>5, <2>1, HandType DEF ReplayBufferedSegment, Hand, HandOK
  <2>. QED  BY <1>5, <2>2, <2>3 DEF ReplayBufferedSegment, TypeOK
<1>6. CASE ReplayDone
  BY <1>6, HandType DEF ReplayDone, TypeOK, Hand, HandOK
<1>7. CASE UpsertRefused \/ ResolutionApplied
  BY <1>7 DEF UpsertRefused, ResolutionApplied, BackToIdle, TypeOK, HandOK
<1>8. ASSUME Fault PROVE faults' \in 0..MaxFaults
  BY <1>8, MaxFaultsAssumption DEF Fault, TypeOK
<1>9. CASE ResolutionLost
  <2>1. resolutions' \in Seq(BrainResponse)
    BY <1>9, PopType DEF ResolutionLost, TypeOK
  <2>. QED  BY <1>8, <1>9, <2>1 DEF ResolutionLost, TypeOK, HandOK
<1>10. CASE ResolverCallFails
  BY <1>8, <1>10 DEF ResolverCallFails, BackToIdle, TypeOK, HandOK
<1>11. CASE ResolverReplyLost
  <2>1. rpc # "idle"
    BY <1>11 DEF ResolverReplyLost
  <2>2. /\ memory' \in [PointId -> Point]
        /\ upserted' \subseteq Upserted
        /\ shown' \subseteq Shown
        /\ showings' \in [Segment -> Nat]
        /\ announced' \subseteq Announced
    <3>1. CASE /\ \E tag \in hand.todo : Applying(tag) /\ Upsert(tag)
               /\ UNCHANGED liveVars
      BY <3>1, <2>1, UpsertType DEF TypeOK
    <3>2. CASE /\ \E tag \in hand.todo : Applying(tag) /\ Announce(tag)
               /\ UNCHANGED <<memory, upserted>>
      BY <3>2, <2>1, AnnounceType DEF TypeOK
    <3>3. CASE /\ \E i \in hand.left : IsLeast(i, hand.left) /\ Replay(i)
               /\ UNCHANGED <<memory, upserted>>
      BY <3>3, <2>1, ReplayType DEF TypeOK
    <3>. QED  BY <1>11, <3>1, <3>2, <3>3 DEF ResolverReplyLost
  <2>. QED  BY <1>8, <1>11, <2>2 DEF ResolverReplyLost, BackToIdle, TypeOK, HandOK
<1>. QED  BY <1>1, <1>2, <1>3, <1>4, <1>5, <1>6, <1>7, <1>9, <1>10, <1>11
          DEF ResolverStep, ResolverFault

\* Every variable keeps its type over a step of the brain.
LEMMA BrainKeepsTypes ==
    ASSUME TypeOK, BrainStep \/ BrainFault
    PROVE  TypeOK'
<1>. USE DEF redisVars, listenerVars, resolverVars, liveVars
<1>1. CASE TakeRequest
  <2>1. brainJob' \in BrainRequest /\ brainQueue' \in Seq(BrainRequest)
    BY <1>1, PopType DEF TakeRequest, TypeOK
  <2>. QED  BY <1>1, <2>1 DEF TakeRequest, TypeOK
<1>2. CASE AnswerRequest
  <2>1. PICK response \in MayAnswer(brainJob) :
          resolutions' = LPush(resolutions, response)
    BY <1>2 DEF AnswerRequest
  <2>2. response \in BrainResponse
    BY AnswersAssumption DEF MayAnswer, BrainResponse
  <2>3. resolutions' \in Seq(BrainResponse)
    BY <2>1, <2>2, PushType DEF TypeOK
  <2>. QED  BY <1>2, <2>3 DEF AnswerRequest, TypeOK
<1>3. CASE BrainFault
  BY <1>3, MaxFaultsAssumption DEF BrainFault, Fault, TypeOK
<1>. QED  BY <1>1, <1>2, <1>3 DEF BrainStep, BrainFault

\* Type correctness of the identity loop, with what the resolver holds.
TypeInvariant == TypeOK /\ HandOK

LEMMA InitTypes == Init => TypeInvariant
<1>1. [session \in Session |-> NoEntry] \in [Session -> PendingSession]
  BY NoEntryType
<1>2. NoPoint \in Point
  BY DEF NoPoint, Point, MaybeVoice, MaybeName
<1>. QED  BY <1>1, <1>2, MaxFaultsAssumption
          DEF Init, StateInit, TypeInvariant, TypeOK, HandOK, MaybeName

LEMMA NextKeepsTypes == TypeInvariant /\ [Next]_vars => TypeInvariant'
<1>. SUFFICES ASSUME TypeOK, HandOK, [Next]_vars
              PROVE  TypeOK' /\ HandOK'
  BY DEF TypeInvariant
<1>1. ASSUME NEW segment \in Segment, Publish(segment)
      PROVE  TypeOK' /\ HandOK'
  <2>1. /\ stream' \in Seq(Segment)
        /\ Len(stream') = Len(stream) + 1
        /\ cursor \in 0..Len(stream')
    BY <1>1 DEF Publish, TypeOK
  <2>. QED  BY <1>1, <2>1
            DEF Publish, TypeOK, HandOK, listenerVars, resolverVars, liveVars
<1>2. CASE ListenerStep \/ ListenerFault
  <2>1. TypeOK'
    BY <1>2, ListenerKeepsTypes
  <2>2. UNCHANGED resolverVars
    BY <1>2 DEF ListenerStep, ListenerFault, ReadPending, ReadNew, DeliverNew,
         DecodeFails, MatchVoice, EmitFinalTranscript, BufferUnknownSegment,
         Acknowledge, ListenerCallFails, ReadReplyLost, EmitReplyLost,
         DispatchFails, AckReplyLost
  <2>. QED  BY <2>1, <2>2 DEF HandOK, resolverVars
<1>3. CASE ResolverStep \/ ResolverFault
  BY <1>3, ResolverKeepsTypes
<1>4. CASE BrainStep \/ BrainFault
  <2>1. TypeOK'
    BY <1>4, BrainKeepsTypes
  <2>2. UNCHANGED resolverVars
    BY <1>4 DEF BrainStep, TakeRequest, AnswerRequest, BrainFault
  <2>. QED  BY <2>1, <2>2 DEF HandOK, resolverVars
<1>5. CASE ControllerRestarts
  <2>1. [session \in Session |-> NoEntry] \in [Session -> PendingSession]
    BY NoEntryType
  <2>. QED  BY <1>5, <2>1, MaxFaultsAssumption
            DEF ControllerRestarts, Fault, BackToPoll, BackToIdle, TypeOK,
                HandOK, MaybeName, redisVars, liveVars
<1>6. CASE UNCHANGED vars
  BY <1>6 DEF vars, TypeOK, HandOK
<1>. QED  BY <1>1, <1>2, <1>3, <1>4, <1>5, <1>6 DEF Next

LEMMA TypesHold == Spec => []TypeInvariant
BY InitTypes, NextKeepsTypes, PTL DEF Spec

\* Every variable has its type in every reachable state, whatever fails: in
\* particular a reply only holds ids that are delivered and unacknowledged,
\* and the task that waits for a reply holds none (run_connected).
THEOREM TypeCorrect == Spec => []TypeOK
<1>1. TypeInvariant => TypeOK
  BY DEF TypeInvariant
<1>. QED  BY <1>1, TypesHold, PTL

-----------------------------------------------------------------------------
(* Buffered segments are covered by fingerprints *)

\* Only a segment with a voice is about to be buffered.
BufferedHasVoice ==
    lpc = "buffer" =>
        \A id \in batch : Current(id) => VoiceOf[stream[id]] \in Voice

PublishedIn(entry) ==
    \A i \in DOMAIN entry.segments : entry.segments[i] \in ToSet(stream)

EntriesPublished ==
    /\ \A session \in Session : PublishedIn(pending[session])
    /\ rpc # "idle" => PublishedIn(hand.entry)

CoverInvariant ==
    FingerprintsCoverSegments /\ BufferedHasVoice /\ EntriesPublished

\* An entry without segments is covered by any prints.
LEMMA NoEntryCovered ==
    ASSUME NEW session
    PROVE  CoveredBy(NoEntry, session) /\ PublishedIn(NoEntry)
BY DEF CoveredBy, PublishedIn, NoEntry, Fingerprinted

\* One more segment leaves a covered entry covered: or_insert adds its own
\* voice for a new speaker and keeps the one a known speaker has.
LEMMA WithSegmentCovered ==
    ASSUME NEW entry \in PendingSession, NEW segment \in Segment,
           CoveredBy(entry, SessionOf[segment]), VoiceOf[segment] \in Voice
    PROVE  CoveredBy(WithSegment(entry, segment), SessionOf[segment])
<1> DEFINE with == WithSegment(entry, segment)
<1>1. /\ entry.segments \in Seq(Segment)
      /\ entry.prints \in [Tag -> MaybeVoice]
      /\ TagOf \in [Segment -> Tag]
  BY SegmentAssumption DEF PendingSession
<1>2. /\ with.segments = Append(entry.segments, segment)
      /\ with.prints = [entry.prints EXCEPT ![TagOf[segment]] =
                           IF @ = NoVoice THEN VoiceOf[segment] ELSE @]
      /\ TagOf[segment] \in Tag
  BY <1>1 DEF WithSegment
<1>. HIDE DEF with
<1>3. /\ DOMAIN with.segments = DOMAIN entry.segments \union {Len(entry.segments) + 1}
      /\ \A i \in DOMAIN entry.segments : with.segments[i] = entry.segments[i]
      /\ with.segments[Len(entry.segments) + 1] = segment
  BY <1>1, <1>2
<1>4. /\ \A tag \in Tag \ {TagOf[segment]} : with.prints[tag] = entry.prints[tag]
      /\ with.prints[TagOf[segment]] =
            IF entry.prints[TagOf[segment]] = NoVoice THEN VoiceOf[segment]
            ELSE entry.prints[TagOf[segment]]
  BY <1>1, <1>2
<1>5. Fingerprinted(with) = Fingerprinted(entry) \union {TagOf[segment]}
  BY <1>2, <1>4, NoVoiceAssumption DEF Fingerprinted
<1>6. /\ \A tag \in Tag : HeardFrom(entry, tag) \subseteq HeardFrom(with, tag)
      /\ VoiceOf[segment] \in HeardFrom(with, TagOf[segment])
  BY <1>3 DEF HeardFrom
<1>7. ASSUME NEW i \in DOMAIN with.segments
      PROVE  /\ SessionOf[with.segments[i]] = SessionOf[segment]
             /\ TagOf[with.segments[i]] \in Fingerprinted(with)
  BY <1>3, <1>5 DEF CoveredBy
<1>8. ASSUME NEW tag \in Fingerprinted(with)
      PROVE  with.prints[tag] \in HeardFrom(with, tag)
  <2>1. tag \in Tag
    BY DEF Fingerprinted
  <2>2. CASE tag \in Fingerprinted(entry)
    <3>1. entry.prints[tag] # NoVoice /\ entry.prints[tag] \in HeardFrom(entry, tag)
      BY <2>2 DEF CoveredBy, Fingerprinted
    <3>2. with.prints[tag] = entry.prints[tag]
      BY <1>4, <2>1, <3>1
    <3>. QED  BY <1>6, <2>1, <3>1, <3>2
  <2>3. CASE tag \notin Fingerprinted(entry)
    <3>1. tag = TagOf[segment] /\ entry.prints[tag] = NoVoice
      BY <1>5, <2>1, <2>3 DEF Fingerprinted
    <3>. QED  BY <1>4, <1>6, <3>1
  <2>. QED  BY <2>2, <2>3
<1>9. CoveredBy(with, SessionOf[segment])
  BY <1>7, <1>8 DEF CoveredBy
<1>. QED  BY <1>9 DEF with

\* Nor does it bring in a segment that was not published.
LEMMA WithSegmentPublished ==
    ASSUME NEW entry \in PendingSession, NEW segment \in Segment,
           PublishedIn(entry), segment \in ToSet(stream)
    PROVE  PublishedIn(WithSegment(entry, segment))
<1>1. entry.segments \in Seq(Segment)
  BY DEF PendingSession
<1>2. WithSegment(entry, segment).segments = Append(entry.segments, segment)
  BY DEF WithSegment
<1>. QED  BY <1>1, <1>2 DEF PublishedIn

\* The mark changes neither segments nor fingerprints.
LEMMA MarkCovered ==
    ASSUME NEW entry \in PendingSession, NEW session
    PROVE  /\ CoveredBy(entry, session) =>
                  CoveredBy(MarkRequested(entry), session)
           /\ PublishedIn(entry) => PublishedIn(MarkRequested(entry))
<1>1. /\ MarkRequested(entry).segments = entry.segments
      /\ MarkRequested(entry).prints = entry.prints
  BY DEF MarkRequested, PendingSession
<1>. QED  BY <1>1 DEF CoveredBy, PublishedIn, Fingerprinted, HeardFrom

\* The property in the next state, said of the next state's values.
LEMMA CoverAfter ==
    ASSUME \A session \in Session : CoveredBy(pending'[session], session),
           rpc' # "idle" => CoveredBy(hand'.entry, hand'.session)
    PROVE  FingerprintsCoverSegments'
<1>1. /\ \A session \in Session : CoveredBy(pending[session], session)'
      /\ (rpc # "idle")' => CoveredBy(hand.entry, hand.session)'
  BY Zenon DEF CoveredBy, Fingerprinted, HeardFrom
<1>. QED  BY <1>1, Zenon DEF FingerprintsCoverSegments

\* Buffering the current segment, with or without the mark.
LEMMA BufferingCovered ==
    ASSUME TypeOK, CoverInvariant, lpc = "buffer",
           NEW id \in batch, Current(id),
           NEW entry \in {WithSegment(pending[SessionOf[stream[id]]], stream[id]),
               MarkRequested(WithSegment(pending[SessionOf[stream[id]]], stream[id]))},
           pending' = [pending EXCEPT ![SessionOf[stream[id]]] = entry],
           UNCHANGED <<stream, resolverVars>>, lpc' # "buffer"
    PROVE  CoverInvariant'
<1> DEFINE segment == stream[id]
           session == SessionOf[segment]
           with    == WithSegment(pending[session], segment)
<1>1. /\ segment \in Segment /\ session \in Session
      /\ pending[session] \in PendingSession
      /\ with \in PendingSession
      /\ segment \in ToSet(stream)
  BY CurrentType, BufferType DEF TypeOK, ToSet
<1>2. /\ CoveredBy(pending[session], session)
      /\ PublishedIn(pending[session])
      /\ VoiceOf[segment] \in Voice
  BY <1>1 DEF CoverInvariant, FingerprintsCoverSegments, EntriesPublished,
              BufferedHasVoice
<1>3. CoveredBy(with, session) /\ PublishedIn(with)
  BY <1>1, <1>2, WithSegmentCovered, WithSegmentPublished
<1>4. CoveredBy(entry, session) /\ PublishedIn(entry)
  BY <1>1, <1>3, MarkCovered
<1>5. /\ \A other \in Session : CoveredBy(pending'[other], other)
      /\ \A other \in Session : PublishedIn(pending'[other])
  <2>. SUFFICES ASSUME NEW other \in Session
                PROVE  /\ CoveredBy(pending'[other], other)
                       /\ PublishedIn(pending'[other])
    OBVIOUS
  <2>1. pending'[other] = IF other = session THEN entry ELSE pending[other]
    BY <1>1 DEF TypeOK
  <2>. QED  BY <1>4, <2>1
            DEF CoverInvariant, FingerprintsCoverSegments, EntriesPublished
<1>6. rpc' = rpc /\ hand' = hand /\ stream' = stream
  BY DEF resolverVars
<1>7. /\ rpc # "idle" => CoveredBy(hand.entry, hand.session)
      /\ rpc # "idle" => PublishedIn(hand.entry)
  BY DEF CoverInvariant, FingerprintsCoverSegments, EntriesPublished
<1>8. FingerprintsCoverSegments'
  BY <1>5, <1>6, <1>7, CoverAfter
<1>9. EntriesPublished'
  BY <1>5, <1>6, <1>7 DEF EntriesPublished, PublishedIn
<1>10. BufferedHasVoice'
  BY DEF BufferedHasVoice
<1>. QED  BY <1>8, <1>9, <1>10 DEF CoverInvariant

\* A sequence with one more element.
LEMMA AppendShape ==
    ASSUME NEW S, NEW list \in Seq(S), NEW element \in S
    PROVE  /\ DOMAIN Append(list, element)
                  = DOMAIN list \union {Len(list) + 1}
           /\ \A i \in DOMAIN list : Append(list, element)[i] = list[i]
           /\ Append(list, element)[Len(list) + 1] = element
           /\ Len(list) + 1 \notin DOMAIN list
OBVIOUS

LEMMA AppendToSet ==
    ASSUME NEW S, NEW list \in Seq(S), NEW element \in S
    PROVE  ToSet(Append(list, element)) = ToSet(list) \union {element}
<1>. PICK longer : longer = Append(list, element)
  OBVIOUS
<1>1. /\ DOMAIN longer = DOMAIN list \union {Len(list) + 1}
      /\ \A i \in DOMAIN list : longer[i] = list[i]
      /\ longer[Len(list) + 1] = element
  BY AppendShape
<1>. QED  BY <1>1 DEF ToSet

LEMMA NextKeepsCover ==
    TypeInvariant /\ CoverInvariant /\ [Next]_vars => CoverInvariant'
<1>. SUFFICES ASSUME TypeInvariant, CoverInvariant, [Next]_vars
              PROVE  CoverInvariant'
  OBVIOUS
<1>. USE DEF redisVars, listenerVars, resolverVars, liveVars
<1>0. TypeOK
  BY DEF TypeInvariant
<1>1. ASSUME UNCHANGED <<stream, pending>>,
             rpc' # "idle" => /\ rpc # "idle"
                              /\ hand'.session = hand.session
                              /\ hand'.entry = hand.entry
      PROVE  /\ FingerprintsCoverSegments'
             /\ EntriesPublished'
  <2>1. FingerprintsCoverSegments'
    <3>1. \A session \in Session : CoveredBy(pending'[session], session)
      BY <1>1 DEF CoverInvariant, FingerprintsCoverSegments
    <3>2. rpc' # "idle" => CoveredBy(hand'.entry, hand'.session)
      BY <1>1 DEF CoverInvariant, FingerprintsCoverSegments
    <3>. QED  BY <3>1, <3>2, CoverAfter
  <2>2. EntriesPublished'
    BY <1>1 DEF CoverInvariant, EntriesPublished, PublishedIn
  <2>. QED  BY <2>1, <2>2
<1>2. ASSUME UNCHANGED <<stream, pending, rpc, hand>>, lpc' # "buffer"
      PROVE  CoverInvariant'
  BY <1>1, <1>2 DEF CoverInvariant, BufferedHasVoice
<1>3. CASE \/ ReadPending \/ ReadNew \/ DecodeFails \/ EmitFinalTranscript
           \/ Acknowledge \/ ListenerCallFails \/ ReadReplyLost
           \/ EmitReplyLost \/ AckReplyLost
  BY <1>2, <1>3
     DEF ReadPending, ReadNew, DeliverNew, DecodeFails, EmitFinalTranscript,
         Acknowledge, ListenerCallFails, ReadReplyLost, EmitReplyLost,
         AckReplyLost, BackToPoll
<1>4. CASE MatchVoice
  <2>1. BufferedHasVoice'
    <3>. SUFFICES ASSUME lpc' = "buffer", NEW id \in batch, Current(id)
                  PROVE  VoiceOf[stream[id]] \in Voice
      BY <1>4 DEF MatchVoice, BufferedHasVoice, Current
    <3>1. PICK k \in batch : Current(k) /\ VoiceOf[stream[k]] # NoVoice
      BY <1>4 DEF MatchVoice
    <3>2. id = k
      BY <1>0, <3>1 DEF Current, IsLeast, TypeOK
    <3>. QED  BY <1>0, <3>1, <3>2, CurrentType DEF MaybeVoice
  <2>. QED  BY <1>1, <1>4, <2>1 DEF MatchVoice, CoverInvariant
<1>5. CASE BufferUnknownSegment
  <2>1. PICK id \in batch :
          LET segment == stream[id]
              session == SessionOf[segment]
              entry   == WithSegment(pending[session], segment) IN
          /\ Current(id)
          /\ \/ pending' = [pending EXCEPT ![session] = entry]
             \/ pending' = [pending EXCEPT ![session] = MarkRequested(entry)]
    BY <1>5 DEF BufferUnknownSegment
  <2>. QED  BY <1>0, <1>5, <2>1, BufferingCovered DEF BufferUnknownSegment
<1>6. CASE DispatchFails
  <2>1. PICK id \in batch :
          /\ Current(id)
          /\ pending' = [pending EXCEPT ![SessionOf[stream[id]]] =
                WithSegment(pending[SessionOf[stream[id]]], stream[id])]
    BY <1>6 DEF DispatchFails
  <2>. QED  BY <1>0, <1>6, <2>1, BufferingCovered DEF DispatchFails, BackToPoll
<1>7. CASE TakeResolution
  <2> DEFINE session == Popped(resolutions).session
  <2>1. session \in Session
    <3>1. Popped(resolutions) \in BrainResponse
      BY <1>0, <1>7, PopType DEF TakeResolution, TypeOK
    <3>. QED  BY <3>1 DEF BrainResponse
  <2>2. pending' = [pending EXCEPT ![session] = NoEntry]
    BY <1>7 DEF TakeResolution
  <2>3. \A other \in Session :
          CoveredBy(pending'[other], other) /\ PublishedIn(pending'[other])
    <3>. SUFFICES ASSUME NEW other \in Session
                  PROVE  /\ CoveredBy(pending'[other], other)
                         /\ PublishedIn(pending'[other])
      OBVIOUS
    <3>1. pending'[other] = IF other = session THEN NoEntry ELSE pending[other]
      BY <1>0, <2>1, <2>2 DEF TypeOK
    <3>. QED  BY <3>1, NoEntryCovered
              DEF CoverInvariant, FingerprintsCoverSegments, EntriesPublished
  <2>4. rpc' # "idle" =>
          CoveredBy(hand'.entry, hand'.session) /\ PublishedIn(hand'.entry)
    BY <1>7, <2>1 DEF TakeResolution, CoverInvariant, FingerprintsCoverSegments,
                      EntriesPublished
  <2>5. BufferedHasVoice'
    BY <1>7 DEF TakeResolution, CoverInvariant, BufferedHasVoice, Current
  <2>6. stream' = stream
    BY <1>7 DEF TakeResolution
  <2>7. FingerprintsCoverSegments'
    BY <2>3, <2>4, CoverAfter
  <2>8. EntriesPublished'
    BY <2>3, <2>4, <2>6 DEF EntriesPublished, PublishedIn
  <2>. QED  BY <2>5, <2>7, <2>8 DEF CoverInvariant
<1>8. ASSUME UNCHANGED <<stream, lpc, batch>>
      PROVE  BufferedHasVoice'
  BY <1>8 DEF CoverInvariant, BufferedHasVoice, Current
<1>9. CASE \/ SkipUnprinted \/ UpsertVoiceIdentity \/ EmitIdentityResolved
           \/ ReplayBufferedSegment \/ ReplayDone
  <2>1. /\ hand'.session = hand.session
        /\ hand'.entry = hand.entry
        /\ UNCHANGED <<stream, pending, lpc, batch>>
        /\ rpc # "idle"
    BY <1>0, <1>9, HandType
       DEF SkipUnprinted, UpsertVoiceIdentity, EmitIdentityResolved,
           ReplayBufferedSegment, ReplayDone, Hand
  <2>. QED  BY <1>1, <1>8, <2>1 DEF CoverInvariant
<1>10. CASE \/ UpsertRefused \/ ResolutionApplied \/ ResolverCallFails
            \/ ResolverReplyLost
  BY <1>1, <1>8, <1>10 DEF UpsertRefused, ResolutionApplied, ResolverCallFails,
      ResolverReplyLost, BackToIdle, CoverInvariant
<1>11. CASE ResolutionLost
  BY <1>1, <1>8, <1>11 DEF ResolutionLost, CoverInvariant
<1>12. CASE BrainStep \/ BrainFault
  BY <1>1, <1>8, <1>12
     DEF BrainStep, TakeRequest, AnswerRequest, BrainFault, CoverInvariant
<1>13. CASE ControllerRestarts
  <2>1. /\ \A session \in Session : pending'[session] = NoEntry
        /\ rpc' = "idle"
        /\ lpc' # "buffer"
    BY <1>13 DEF ControllerRestarts, BackToPoll, BackToIdle
  <2>2. \A session \in Session : CoveredBy(pending'[session], session)
    BY <2>1, NoEntryCovered
  <2>3. FingerprintsCoverSegments'
    BY <2>1, <2>2, CoverAfter
  <2>4. EntriesPublished'
    BY <2>1 DEF EntriesPublished, PublishedIn, NoEntry
  <2>5. BufferedHasVoice'
    BY <2>1 DEF BufferedHasVoice
  <2>. QED  BY <2>3, <2>4, <2>5 DEF CoverInvariant
<1>14. ASSUME NEW segment \in Segment, Publish(segment)
       PROVE  CoverInvariant'
  <2>1. ToSet(stream) \subseteq ToSet(stream')
    BY <1>0, <1>14, AppendToSet DEF Publish, TypeOK
  <2>2. \A id \in batch : stream'[id] = stream[id]
    BY <1>0, <1>14, PublishKeepsEntries
  <2>3. EntriesPublished'
    BY <1>14, <2>1 DEF Publish, CoverInvariant, EntriesPublished, PublishedIn
  <2>4. BufferedHasVoice'
    BY <1>14, <2>2 DEF Publish, CoverInvariant, BufferedHasVoice, Current
  <2>. QED  BY <1>14, <2>3, <2>4
            DEF Publish, CoverInvariant, FingerprintsCoverSegments, CoveredBy,
                Fingerprinted, HeardFrom
<1>15. CASE UNCHANGED vars
  BY <1>1, <1>8, <1>15 DEF vars, CoverInvariant
<1>. QED  BY <1>3, <1>4, <1>5, <1>6, <1>7, <1>9, <1>10, <1>11, <1>12, <1>13,
             <1>14, <1>15
          DEF Next, ListenerStep, ListenerFault, ResolverStep, ResolverFault

LEMMA CoverHolds == Spec => []CoverInvariant
<1>1. Init => CoverInvariant
  BY NoEntryCovered
     DEF Init, StateInit, CoverInvariant, FingerprintsCoverSegments,
         EntriesPublished, BufferedHasVoice
<1>. QED  BY <1>1, NextKeepsCover, TypesHold, PTL DEF Spec

\* Whatever fails, a buffered segment is in its own session's entry, its
\* speaker has a fingerprint there, and every fingerprint is the voice of a
\* segment of that speaker in the entry: what is stored under a name is a
\* voice of the speaker named (buffer_unknown_segment).
THEOREM BufferedSegmentsAreCovered == Spec => []FingerprintsCoverSegments
<1>1. CoverInvariant => FingerprintsCoverSegments
  BY DEF CoverInvariant
<1>. QED  BY <1>1, CoverHolds, PTL

-----------------------------------------------------------------------------
(* A shown name was learned before *)

FactOf(session, tag, point) ==
    [session |-> session, tag |-> tag, voice |-> point.voice,
     name |-> point.name]

\* Every voice Qdrant holds was stored by the resolver.
MemoryLearned ==
    \A session \in Session, tag \in Tag :
        memory[<<session, tag>>].voice # NoVoice =>
            FactOf(session, tag, memory[<<session, tag>>]) \in upserted

\* What may be shown of a segment.
Justified(segment, name) ==
    IF name = NoName THEN VoiceOf[segment] = NoVoice
                     ELSE LearnedFor(segment, name)

EmitJustified ==
    lpc = "emit" =>
        \A id \in batch : Current(id) => Justified(stream[id], named)

\* The name being announced or replayed was stored for its speaker, and the
\* positions still to replay are that speaker's.
FactInHand(tag) ==
    [session |-> hand.session, tag |-> tag, voice |-> hand.entry.prints[tag],
     name |-> hand.names[tag]]

HandLearned ==
    /\ rpc \in {"announce", "replay"} =>
          \A tag \in hand.todo : Applying(tag) => FactInHand(tag) \in upserted
    /\ rpc = "replay" =>
          \A tag \in hand.todo : Applying(tag) =>
              \A i \in hand.left : TagOf[hand.entry.segments[i]] = tag

NamingInvariant ==
    NamesWereLearned /\ MemoryLearned /\ EmitJustified /\ HandLearned

\* The shared hypothesis of the lemmas below.
InvariantsHold == TypeInvariant /\ CoverInvariant /\ NamingInvariant

\* A justification does not go away: facts are never unlearned.
LEMMA JustifiedIsStable ==
    ASSUME upserted \subseteq upserted', NEW segment, NEW name,
           Justified(segment, name)
    PROVE  Justified(segment, name)'
BY DEF Justified, LearnedFor

\* What the listener is about to emit is justified.
LEMMA EmittedIsJustified ==
    ASSUME InvariantsHold, lpc = "emit", NEW id \in batch, Current(id)
    PROVE  /\ stream[id] \in ToSet(stream)
           /\ stream[id] \in Segment
           /\ Justified(stream[id], named)
BY CurrentType
   DEF InvariantsHold, TypeInvariant, NamingInvariant, EmitJustified, ToSet

\* What the resolver is about to replay is justified.
LEMMA ReplayedIsJustified ==
    ASSUME InvariantsHold, rpc = "replay",
           NEW i \in hand.left, NEW tag \in hand.todo, Applying(tag)
    PROVE  /\ hand.entry.segments[i] \in ToSet(stream)
           /\ hand.entry.segments[i] \in Segment
           /\ Justified(hand.entry.segments[i], hand.names[tag])
<1>1. /\ i \in DOMAIN hand.entry.segments
      /\ hand.entry.segments[i] \in Segment
      /\ hand.names[tag] \in Name
  BY HandType DEF InvariantsHold, TypeInvariant, HandOK
<1>2. /\ SessionOf[hand.entry.segments[i]] = hand.session
      /\ hand.entry.segments[i] \in ToSet(stream)
  BY <1>1 DEF InvariantsHold, CoverInvariant, FingerprintsCoverSegments,
              CoveredBy, EntriesPublished, PublishedIn
<1>3. /\ TagOf[hand.entry.segments[i]] = tag
      /\ FactInHand(tag) \in upserted
  BY DEF InvariantsHold, NamingInvariant, HandLearned
<1>4. LearnedFor(hand.entry.segments[i], hand.names[tag])
  BY <1>2, <1>3 DEF LearnedFor, FactInHand
<1>. QED  BY <1>1, <1>2, <1>4, NoNameAssumption DEF Justified

\* Showing what is justified keeps every shown name learned.
LEMMA ShowKeepsLearned ==
    ASSUME NamesWereLearned, NEW segment, NEW name, Justified(segment, name),
           Show(segment, name), UNCHANGED upserted
    PROVE  NamesWereLearned'
BY DEF NamesWereLearned, Show, Justified, LearnedFor

\* An upsert adds the fact about the point it writes.
LEMMA UpsertKeepsLearned ==
    ASSUME InvariantsHold, rpc = "upsert",
           NEW tag \in hand.todo, Applying(tag), Upsert(tag)
    PROVE  /\ upserted' = upserted \union {FactInHand(tag)}
           /\ MemoryLearned'
           /\ hand.entry.prints[tag] \in Voice
           /\ FactInHand(tag) \in Upserted
<1>1. /\ hand.session \in Session /\ tag \in Tag
      /\ hand.entry.prints[tag] \in Voice
      /\ hand.names[tag] \in Name
  BY HandType DEF InvariantsHold, TypeInvariant, HandOK, Upsert, MaybeVoice
<1>2. upserted' = upserted \union {FactInHand(tag)}
  BY DEF Upsert, FactInHand
<1>3. MemoryLearned'
  <2>. SUFFICES ASSUME NEW session \in Session, NEW other \in Tag,
                       memory'[<<session, other>>].voice # NoVoice
                PROVE  FactOf(session, other, memory'[<<session, other>>])
                           \in upserted'
    BY DEF MemoryLearned
  <2>1. memory \in [PointId -> Point] /\ <<session, other>> \in PointId
    BY DEF InvariantsHold, TypeInvariant, TypeOK, PointId
  <2>2. CASE session = hand.session /\ other = tag
    BY <1>2, <2>1, <2>2 DEF Upsert, FactOf, FactInHand
  <2>3. CASE ~(session = hand.session /\ other = tag)
    <3>1. memory'[<<session, other>>] = memory[<<session, other>>]
      BY <2>1, <2>3 DEF Upsert
    <3>. QED  BY <1>2, <3>1 DEF InvariantsHold, NamingInvariant, MemoryLearned
  <2>. QED  BY <2>2, <2>3
<1>. QED  BY <1>1, <1>2, <1>3 DEF FactInHand, Upserted

\* The name a match gives was stored with the segment's voice.
LEMMA MatchIsLearned ==
    ASSUME InvariantsHold, NEW segment \in Segment, VoiceOf[segment] # NoVoice,
           NEW point \in Matches(VoiceOf[segment])
    PROVE  Justified(segment, memory[point].name)
<1>1. PICK session \in Session, tag \in Tag : point = <<session, tag>>
  BY DEF Matches, PointId
<1>2. FactOf(session, tag, memory[point]) \in upserted
  BY <1>1 DEF Matches, InvariantsHold, NamingInvariant, MemoryLearned
<1>3. memory[point].voice = VoiceOf[segment]
  BY DEF Matches
<1>4. upserted \subseteq Upserted
  BY DEF InvariantsHold, TypeInvariant, TypeOK
<1>5. memory[point].name \in Name
  BY <1>2, <1>4 DEF FactOf, Upserted
<1>. QED  BY <1>2, <1>3, <1>5, NoNameAssumption DEF Justified, LearnedFor, FactOf

LEMMA NextKeepsNaming == InvariantsHold /\ [Next]_vars => NamingInvariant'
<1>. SUFFICES ASSUME InvariantsHold, [Next]_vars
              PROVE  NamingInvariant'
  OBVIOUS
<1>. USE DEF redisVars, listenerVars, resolverVars, liveVars
<1>0. TypeOK /\ NamingInvariant
  BY DEF InvariantsHold, TypeInvariant
<1>1. ASSUME UNCHANGED <<shown, upserted>>
      PROVE  NamesWereLearned'
  BY <1>0, <1>1 DEF NamingInvariant, NamesWereLearned, LearnedFor
<1>2. ASSUME UNCHANGED <<memory, upserted>>
      PROVE  MemoryLearned'
  BY <1>0, <1>2 DEF NamingInvariant, MemoryLearned
<1>3. ASSUME UNCHANGED <<stream, lpc, batch, named>>, upserted \subseteq upserted'
      PROVE  EmitJustified'
  BY <1>0, <1>3, JustifiedIsStable DEF NamingInvariant, EmitJustified, Current
<1>4. ASSUME UNCHANGED <<rpc, hand, upserted>>
      PROVE  HandLearned'
  BY <1>0, <1>4 DEF NamingInvariant, HandLearned, FactInHand, Applying
<1>5. ASSUME rpc' \in {"idle", "upsert"}
      PROVE  HandLearned'
  BY <1>5 DEF HandLearned
<1>6. ASSUME lpc' # "emit"
      PROVE  EmitJustified'
  BY <1>6 DEF EmitJustified
<1>7. ASSUME upserted \subseteq upserted', UNCHANGED shown
      PROVE  NamesWereLearned'
  BY <1>0, <1>7 DEF NamingInvariant, NamesWereLearned, LearnedFor
<1>8. CASE \/ ReadPending \/ ReadNew \/ DecodeFails \/ BufferUnknownSegment
           \/ Acknowledge \/ ListenerCallFails \/ ReadReplyLost
           \/ DispatchFails \/ AckReplyLost
  <2>1. UNCHANGED <<shown, upserted, memory, rpc, hand>> /\ lpc' # "emit"
    BY <1>8
       DEF ReadPending, ReadNew, DeliverNew, DecodeFails, BufferUnknownSegment,
           Acknowledge, ListenerCallFails, ReadReplyLost, DispatchFails,
           AckReplyLost, BackToPoll
  <2>. QED  BY <1>1, <1>2, <1>4, <1>6, <2>1 DEF NamingInvariant
<1>9. CASE MatchVoice
  <2>1. EmitJustified'
    <3>. SUFFICES ASSUME lpc' = "emit", NEW id \in batch, Current(id)
                  PROVE  Justified(stream[id], named)'
      BY <1>9 DEF MatchVoice, EmitJustified, Current
    <3>1. PICK k \in batch :
            /\ Current(k)
            /\ \/ VoiceOf[stream[k]] = NoVoice /\ named' = NoName
               \/ /\ VoiceOf[stream[k]] # NoVoice
                  /\ \E point \in Matches(VoiceOf[stream[k]]) :
                        named' = memory[point].name
      BY <1>9 DEF MatchVoice
    <3>2. id = k /\ stream[k] \in Segment
      BY <1>0, <3>1, CurrentType DEF Current, IsLeast, TypeOK
    <3>3. Justified(stream[id], named')
      BY <3>1, <3>2, MatchIsLearned DEF Justified
    <3>. QED  BY <1>9, <3>3 DEF MatchVoice, Justified, LearnedFor
  <2>. QED  BY <1>1, <1>2, <1>4, <1>9, <2>1 DEF MatchVoice, NamingInvariant
<1>10. CASE EmitFinalTranscript \/ EmitReplyLost
  <2>1. PICK id \in batch : Current(id) /\ Show(stream[id], named)
    BY <1>10 DEF EmitFinalTranscript, EmitReplyLost
  <2>2. /\ lpc = "emit" /\ lpc' # "emit"
        /\ UNCHANGED <<memory, upserted, rpc, hand>>
    BY <1>10 DEF EmitFinalTranscript, EmitReplyLost, BackToPoll
  <2>3. NamesWereLearned'
    BY <1>0, <2>1, <2>2, EmittedIsJustified, ShowKeepsLearned DEF NamingInvariant
  <2>. QED  BY <1>2, <1>4, <1>6, <2>2, <2>3 DEF NamingInvariant
<1>11. CASE TakeResolution
  <2>1. /\ UNCHANGED <<stream, lpc, batch, named, memory, upserted, shown>>
        /\ UNCHANGED <<rpc, hand>> \/ rpc' = "upsert"
    BY <1>11 DEF TakeResolution
  <2>2. HandLearned'
    BY <1>4, <1>5, <2>1
  <2>. QED  BY <1>1, <1>2, <1>3, <2>1, <2>2 DEF NamingInvariant
<1>12. CASE UpsertVoiceIdentity
  <2>1. PICK tag \in hand.todo : Applying(tag) /\ Upsert(tag)
    BY <1>12 DEF UpsertVoiceIdentity
  <2>2. /\ UNCHANGED <<stream, lpc, batch, named, hand, shown>>
        /\ rpc = "upsert" /\ rpc' = "announce"
    BY <1>12 DEF UpsertVoiceIdentity
  <2>3. upserted' = upserted \union {FactInHand(tag)} /\ MemoryLearned'
    BY <2>1, <2>2, UpsertKeepsLearned
  <2>4. HandLearned'
    <3>. SUFFICES ASSUME NEW other \in hand.todo, Applying(other)
                  PROVE  FactInHand(other) \in upserted'
      BY <2>2 DEF HandLearned, FactInHand, Applying
    <3>1. tag \in Nat /\ other \in Nat
      BY <1>0, <2>2, HandType, TagAssumption
    <3>2. other = tag
      BY <2>1, <3>1 DEF Applying, IsLeast
    <3>. QED  BY <2>3, <3>2
  <2>. QED  BY <1>3, <1>7, <2>2, <2>3, <2>4 DEF NamingInvariant
<1>13. CASE EmitIdentityResolved
  <2>1. PICK tag \in hand.todo :
          /\ Applying(tag)
          /\ UNCHANGED <<shown, showings>>
          /\ hand' = [hand EXCEPT !.left =
                {i \in DOMAIN hand.entry.segments :
                    TagOf[hand.entry.segments[i]] = tag}]
    BY <1>13 DEF EmitIdentityResolved, Announce
  <2>2. /\ UNCHANGED <<stream, lpc, batch, named, memory, upserted>>
        /\ rpc = "announce"
    BY <1>13 DEF EmitIdentityResolved
  <2>3. /\ hand'.session = hand.session /\ hand'.entry = hand.entry
        /\ hand'.names = hand.names /\ hand'.todo = hand.todo
        /\ hand'.left = {i \in DOMAIN hand.entry.segments :
                            TagOf[hand.entry.segments[i]] = tag}
    BY <1>0, <2>1, <2>2, HandType DEF Hand
  <2>4. HandLearned'
    <3>. SUFFICES ASSUME NEW other \in hand.todo, Applying(other)
                  PROVE  /\ FactInHand(other) \in upserted
                         /\ \A i \in hand'.left :
                                TagOf[hand.entry.segments[i]] = other
      BY <2>2, <2>3 DEF HandLearned, FactInHand, Applying
    <3>1. tag \in Nat /\ other \in Nat
      BY <1>0, <2>2, HandType, TagAssumption
    <3>2. other = tag
      BY <2>1, <3>1 DEF Applying, IsLeast
    <3>. QED  BY <1>0, <2>2, <2>3, <3>2 DEF NamingInvariant, HandLearned
  <2>. QED  BY <1>1, <1>2, <1>3, <2>1, <2>2, <2>4 DEF NamingInvariant
<1>14. CASE ReplayBufferedSegment
  <2>1. PICK i \in hand.left, tag \in hand.todo :
          /\ Applying(tag)
          /\ Show(hand.entry.segments[i], hand.names[tag])
          /\ hand' = [hand EXCEPT !.left = @ \ {i}]
    BY <1>14 DEF ReplayBufferedSegment, Replay
  <2>2. /\ UNCHANGED <<stream, lpc, batch, named, memory, upserted>>
        /\ rpc = "replay"
    BY <1>14 DEF ReplayBufferedSegment
  <2>3. /\ hand'.session = hand.session /\ hand'.entry = hand.entry
        /\ hand'.names = hand.names /\ hand'.todo = hand.todo
        /\ hand'.left \subseteq hand.left
    BY <1>0, <2>1, <2>2, HandType DEF Hand
  <2>4. HandLearned'
    BY <1>0, <2>2, <2>3 DEF NamingInvariant, HandLearned, FactInHand, Applying
  <2>5. NamesWereLearned'
    BY <1>0, <2>1, <2>2, ReplayedIsJustified, ShowKeepsLearned
       DEF NamingInvariant
  <2>. QED  BY <1>2, <1>3, <2>2, <2>4, <2>5 DEF NamingInvariant
<1>15. CASE \/ SkipUnprinted \/ UpsertRefused \/ ReplayDone
            \/ ResolutionApplied \/ ResolutionLost \/ ResolverCallFails
  <2>1. /\ UNCHANGED <<stream, lpc, batch, named, memory, upserted, shown>>
        /\ rpc' \in {"idle", "upsert"}
    BY <1>15 DEF SkipUnprinted, UpsertRefused, ReplayDone, ResolutionApplied,
                 ResolutionLost, ResolverCallFails, BackToIdle
  <2>. QED  BY <1>1, <1>2, <1>3, <1>5, <2>1 DEF NamingInvariant
<1>16. CASE ResolverReplyLost
  <2>1. UNCHANGED <<stream, lpc, batch, named>> /\ rpc' = "idle"
    BY <1>16 DEF ResolverReplyLost, BackToIdle
  <2>2. CASE rpc = "upsert"
    <3>1. PICK tag \in hand.todo : Applying(tag) /\ Upsert(tag)
      BY <1>16, <2>2 DEF ResolverReplyLost
    <3>2. UNCHANGED shown
      BY <1>16, <2>2 DEF ResolverReplyLost
    <3>3. upserted \subseteq upserted' /\ MemoryLearned'
      BY <2>2, <3>1, UpsertKeepsLearned
    <3>. QED  BY <1>3, <1>5, <1>7, <2>1, <3>2, <3>3 DEF NamingInvariant
  <2>3. CASE rpc = "announce"
    <3>1. UNCHANGED <<shown, memory, upserted>>
      BY <1>16, <2>3 DEF ResolverReplyLost, Announce
    <3>. QED  BY <1>1, <1>2, <1>3, <1>5, <2>1, <3>1 DEF NamingInvariant
  <2>4. CASE rpc = "replay"
    <3>1. PICK i \in hand.left, tag \in hand.todo :
            /\ Applying(tag)
            /\ Show(hand.entry.segments[i], hand.names[tag])
      BY <1>16, <2>4 DEF ResolverReplyLost, Replay
    <3>2. UNCHANGED <<memory, upserted>>
      BY <1>16, <2>4 DEF ResolverReplyLost
    <3>3. NamesWereLearned'
      BY <1>0, <2>4, <3>1, <3>2, ReplayedIsJustified, ShowKeepsLearned
         DEF NamingInvariant
    <3>. QED  BY <1>2, <1>3, <1>5, <2>1, <3>2, <3>3 DEF NamingInvariant
  <2>. QED  BY <1>16, <2>2, <2>3, <2>4 DEF ResolverReplyLost
<1>17. CASE BrainStep \/ BrainFault
  BY <1>1, <1>2, <1>3, <1>4, <1>17
     DEF BrainStep, TakeRequest, AnswerRequest, BrainFault, NamingInvariant
<1>18. CASE ControllerRestarts
  <2>1. /\ UNCHANGED <<memory, upserted, shown>>
        /\ lpc' # "emit" /\ rpc' = "idle"
    BY <1>18 DEF ControllerRestarts, BackToPoll, BackToIdle
  <2>. QED  BY <1>1, <1>2, <1>5, <1>6, <2>1 DEF NamingInvariant
<1>19. ASSUME NEW segment \in Segment, Publish(segment)
       PROVE  NamingInvariant'
  <2>1. \A id \in batch : stream'[id] = stream[id]
    BY <1>0, <1>19, PublishKeepsEntries
  <2>2. EmitJustified'
    <3>. SUFFICES ASSUME lpc = "emit", NEW id \in batch, Current(id)
                  PROVE  Justified(stream[id], named)'
      BY <1>19 DEF Publish, EmitJustified, Current
    <3>1. Justified(stream[id], named)
      BY EmittedIsJustified
    <3>. QED  BY <1>19, <2>1, <3>1 DEF Publish, Justified, LearnedFor
  <2>. QED  BY <1>1, <1>2, <1>4, <1>19, <2>2 DEF Publish, NamingInvariant
<1>20. CASE UNCHANGED vars
  BY <1>1, <1>2, <1>3, <1>4, <1>20 DEF vars, NamingInvariant
<1>. QED  BY <1>8, <1>9, <1>10, <1>11, <1>12, <1>13, <1>14, <1>15, <1>16,
             <1>17, <1>18, <1>19, <1>20
          DEF Next, ListenerStep, ListenerFault, ResolverStep, ResolverFault

LEMMA NamingHolds == Spec => []InvariantsHold
<1>1. Init => NamingInvariant
  BY DEF Init, StateInit, NamingInvariant, NamesWereLearned, MemoryLearned,
         EmitJustified, HandLearned, PointId, NoPoint
<1>2. TypeInvariant /\ CoverInvariant /\ NamingInvariant /\ [Next]_vars
          => NamingInvariant'
  BY NextKeepsNaming DEF InvariantsHold
<1>3. TypeInvariant /\ CoverInvariant /\ NamingInvariant => InvariantsHold
  BY DEF InvariantsHold
<1>. QED  BY <1>1, <1>2, <1>3, TypesHold, CoverHolds, PTL DEF Spec

\* Every name on the live channel was stored before for that speaker of that
\* session or for that voice, and a segment with a voice is never shown
\* nameless: over failed calls, restarts, overwritten points and a command
\* backend that answers for another session (process_segment,
\* replay_buffered_segments).
THEOREM ShownNamesWereLearned == Spec => []NamesWereLearned
<1>1. InvariantsHold => NamesWereLearned
  BY DEF InvariantsHold, NamingInvariant
<1>. QED  BY <1>1, NamingHolds, PTL

-----------------------------------------------------------------------------
(* The identity loop implements TranscriptDelivery *)

\* Showing a justified segment is a step of the abstract specification.
LEMMA ShowIsAbstractShow ==
    ASSUME NEW segment \in Segment, NEW name, segment \in ToSet(stream),
           Justified(segment, name), Show(segment, name),
           UNCHANGED <<stream, upserted>>
    PROVE  TD!Next
<1>1. /\ ToSet(stream)' = ToSet(stream)
      /\ UNCHANGED <<upserted, announced>>
      /\ shown' = shown \union {[segment |-> segment, name |-> name]}
  BY DEF Show, ToSet
<1>2. \/ VoiceOf[segment] = NoVoice /\ name = NoName
      \/ \E fact \in upserted :
            TD!IsAbout(fact, segment) /\ fact.name = name
  BY DEF Justified, LearnedFor, TD!IsAbout
<1>3. TD!Show(segment)
  BY <1>1, <1>2 DEF TD!Show
<1>. QED  BY <1>3 DEF TD!Next

\* Storing a voice is a step of the abstract specification.
LEMMA UpsertIsAbstractLearn ==
    ASSUME InvariantsHold, rpc = "upsert",
           NEW tag \in hand.todo, Applying(tag), Upsert(tag),
           UNCHANGED <<stream, shown, announced>>
    PROVE  TD!Next
<1>1. /\ upserted' = upserted \union {FactInHand(tag)}
      /\ FactInHand(tag) \in TD!Fact
  BY UpsertKeepsLearned DEF Upserted, TD!Fact
<1>2. TD!Learn(FactInHand(tag))
  BY <1>1 DEF TD!Learn, ToSet
<1>. QED  BY <1>1, <1>2 DEF TD!Next

\* So is announcing one that was stored.
LEMMA AnnounceIsAbstractAnnounce ==
    ASSUME InvariantsHold, rpc = "announce",
           NEW tag \in hand.todo, Applying(tag), Announce(tag),
           UNCHANGED <<stream, upserted>>
    PROVE  TD!Next
<1>1. FactInHand(tag) \in upserted
  BY DEF InvariantsHold, NamingInvariant, HandLearned
<1>2. FactInHand(tag) \in TD!Fact
  BY <1>1 DEF InvariantsHold, TypeInvariant, TypeOK, Upserted, TD!Fact
<1>3. TD!Announce(FactInHand(tag))
  BY <1>1 DEF Announce, FactInHand, TD!Announce, ToSet
<1>. QED  BY <1>2, <1>3 DEF TD!Next

LEMMA StepsAreAbstractSteps ==
    InvariantsHold /\ [Next]_vars => [TD!Next]_(TD!vars)
<1>. SUFFICES ASSUME InvariantsHold, [Next]_vars
              PROVE  TD!Next \/ UNCHANGED TD!vars
  OBVIOUS
<1>. USE DEF redisVars, listenerVars, resolverVars, liveVars
<1>0. TypeOK
  BY DEF InvariantsHold, TypeInvariant
<1>1. ASSUME UNCHANGED <<stream, upserted, shown, announced>>
      PROVE  UNCHANGED TD!vars
  BY <1>1 DEF TD!vars, ToSet
<1>2. CASE \/ ReadPending \/ ReadNew \/ DecodeFails \/ MatchVoice
           \/ BufferUnknownSegment \/ Acknowledge \/ ListenerCallFails
           \/ ReadReplyLost \/ DispatchFails \/ AckReplyLost
  BY <1>1, <1>2
     DEF ReadPending, ReadNew, DeliverNew, DecodeFails, MatchVoice,
         BufferUnknownSegment, Acknowledge, ListenerCallFails, ReadReplyLost,
         DispatchFails, AckReplyLost
<1>3. CASE EmitFinalTranscript \/ EmitReplyLost
  <2>1. PICK id \in batch : Current(id) /\ Show(stream[id], named)
    BY <1>3 DEF EmitFinalTranscript, EmitReplyLost
  <2>. QED  BY <1>3, <2>1, EmittedIsJustified, ShowIsAbstractShow
            DEF EmitFinalTranscript, EmitReplyLost
<1>4. CASE UpsertVoiceIdentity
  BY <1>4, UpsertIsAbstractLearn DEF UpsertVoiceIdentity
<1>5. CASE EmitIdentityResolved
  BY <1>5, AnnounceIsAbstractAnnounce DEF EmitIdentityResolved
<1>6. ASSUME rpc = "replay", NEW i \in hand.left, Replay(i),
             UNCHANGED <<stream, upserted>>
      PROVE  TD!Next
  <2>1. PICK tag \in hand.todo :
          /\ Applying(tag)
          /\ Show(hand.entry.segments[i], hand.names[tag])
    BY <1>6 DEF Replay
  <2>2. /\ hand.entry.segments[i] \in Segment
        /\ hand.entry.segments[i] \in ToSet(stream)
        /\ Justified(hand.entry.segments[i], hand.names[tag])
    BY <1>6, <2>1, ReplayedIsJustified
  <2>. QED  BY <1>6, <2>1, <2>2, ShowIsAbstractShow
<1>7. CASE ReplayBufferedSegment
  BY <1>6, <1>7 DEF ReplayBufferedSegment
<1>8. CASE ResolverReplyLost
  <2>1. CASE rpc = "upsert"
    BY <1>8, <2>1, UpsertIsAbstractLearn DEF ResolverReplyLost
  <2>2. CASE rpc = "announce"
    BY <1>8, <2>2, AnnounceIsAbstractAnnounce DEF ResolverReplyLost
  <2>3. CASE rpc = "replay"
    BY <1>6, <1>8, <2>3 DEF ResolverReplyLost
  <2>. QED  BY <1>8, <2>1, <2>2, <2>3 DEF ResolverReplyLost
<1>9. CASE \/ TakeResolution \/ SkipUnprinted \/ UpsertRefused \/ ReplayDone
           \/ ResolutionApplied \/ ResolutionLost \/ ResolverCallFails
  BY <1>1, <1>9
     DEF TakeResolution, SkipUnprinted, UpsertRefused, ReplayDone,
         ResolutionApplied, ResolutionLost, ResolverCallFails
<1>10. CASE BrainStep \/ BrainFault \/ ControllerRestarts
  BY <1>1, <1>10
     DEF BrainStep, TakeRequest, AnswerRequest, BrainFault, ControllerRestarts
<1>11. ASSUME NEW segment \in Segment, Publish(segment)
       PROVE  TD!Next
  <2>1. ToSet(stream') = ToSet(stream) \union {segment}
    BY <1>0, <1>11, AppendToSet DEF Publish, TypeOK
  <2>2. TD!Publish(segment)
    BY <1>11, <2>1 DEF Publish, TD!Publish, ToSet
  <2>. QED  BY <2>2 DEF TD!Next
<1>12. CASE UNCHANGED vars
  BY <1>1, <1>12 DEF vars
<1>. QED  BY <1>2, <1>3, <1>4, <1>5, <1>7, <1>8, <1>9, <1>10, <1>11, <1>12
          DEF Next, ListenerStep, ListenerFault, ResolverStep, ResolverFault

\* The identity loop keeps the promise TranscriptDelivery states, with the
\* stream's entries as what is published and the upserts as what is known,
\* for every instance and over every failure modelled.
THEOREM LoopImplementsDelivery == Spec => DeliversTranscripts
<1>1. Init => TD!Init
  BY DEF Init, StateInit, TD!Init, ToSet
<1>. QED  BY <1>1, StepsAreAbstractSteps, NamingHolds, PTL
          DEF Spec, DeliversTranscripts, TD!Spec

=============================================================================
