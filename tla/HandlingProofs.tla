--------------------------- MODULE HandlingProofs ----------------------------
(***************************************************************************)
(* What becomes of an entry of the stream.  An acknowledged entry was      *)
(* handled before, and so was every entry before it; buffered segments are *)
(* in stream order while nothing fails; no interleaving of the two tasks   *)
(* loses a segment, or shows one twice without a failure; and a session's  *)
(* mark says whether it waits for an answer.                               *)
(***************************************************************************)
EXTENDS IdentityLoopProofs, FiniteSetTheorems

-----------------------------------------------------------------------------
(* Entries leave the PEL in stream order *)

\* The reply at hand holds the oldest pending entries, without a gap.
BatchIsOldest ==
    \A id \in batch : \A older \in pel : older <= id => older \in batch

OrderInvariant == AcksInOrder /\ BatchIsOldest

\* A reply of XREADGROUP from "0" has no gap.
LEMMA OldestHasNoGap ==
    ASSUME NEW low \in Nat, NEW high \in Nat, NEW ids \in SUBSET (low..high),
           NEW count \in Nat,
           NEW id \in Oldest(ids, count), NEW older \in ids, older <= id
    PROVE  older \in Oldest(ids, count)
<1> DEFINE Before(k) == {j \in ids : j < k}
<1>1. IsFiniteSet(low..high)
  BY FS_Interval
<1>2. IsFiniteSet(Before(id))
  BY <1>1, FS_Subset
<1>3. Before(older) \subseteq Before(id)
  <2>1. id \in Int /\ older \in Int /\ \A j \in ids : j \in Int
    BY DEF Oldest
  <2>2. \A j \in ids : j < older => j < id
    BY <2>1
  <2>. QED  BY <2>2
<1>4. /\ IsFiniteSet(Before(older))
      /\ Cardinality(Before(older)) <= Cardinality(Before(id))
  BY <1>2, <1>3, FS_Subset
<1>5. Cardinality(Before(older)) \in Nat /\ Cardinality(Before(id)) \in Nat
  BY <1>2, <1>4, FS_CardinalityType
<1>6. Cardinality(Before(id)) < count
  BY DEF Oldest
<1>7. Cardinality(Before(older)) < count
  BY <1>4, <1>5, <1>6
<1>. QED  BY <1>7 DEF Oldest

\* Taking the least id of the reply out of the PEL keeps the order.
LEMMA AckKeepsOrder ==
    ASSUME TypeOK, OrderInvariant, NEW id \in batch, Current(id),
           pel' = pel \ {id}, cursor' = cursor
    PROVE  AcksInOrder'
<1>. SUFFICES ASSUME NEW k \in pel', NEW later \in k..cursor
              PROVE  later \in pel'
  BY DEF AcksInOrder
<1>1. k \in pel /\ k # id /\ later \in pel
  BY DEF OrderInvariant, AcksInOrder
<1>2. k > id
  <2>1. CASE k \in batch
    BY <1>1, <2>1 DEF Current, IsLeast, TypeOK
  <2>2. CASE k \notin batch
    BY <1>1, <2>2 DEF OrderInvariant, BatchIsOldest, TypeOK
  <2>. QED  BY <2>1, <2>2
<1>. QED  BY <1>1, <1>2 DEF TypeOK

\* One step of the loop keeps entries leaving the PEL in order.
LEMMA NextKeepsOrder ==
    TypeInvariant /\ OrderInvariant /\ [Next]_vars => OrderInvariant'
<1>. SUFFICES ASSUME TypeOK, OrderInvariant, [Next]_vars
              PROVE  OrderInvariant'
  BY DEF TypeInvariant
<1>. USE DEF redisVars, listenerVars, resolverVars, liveVars
<1>1. ASSUME UNCHANGED <<cursor, pel, batch>>
      PROVE  OrderInvariant'
  BY <1>1 DEF OrderInvariant, AcksInOrder, BatchIsOldest
<1>2. ASSUME UNCHANGED <<cursor, pel>>, batch' = {}
      PROVE  OrderInvariant'
  BY <1>2 DEF OrderInvariant, AcksInOrder, BatchIsOldest
<1>3. CASE ReadPending
  <2>1. pel \in SUBSET (1..cursor) /\ cursor \in Nat /\ StreamBatchSize \in Nat
    BY ConfigAssumption DEF TypeOK
  <2>2. BatchIsOldest'
    BY <1>3, <2>1, OldestHasNoGap DEF ReadPending, BatchIsOldest
  <2>. QED  BY <1>3, <2>2 DEF ReadPending, OrderInvariant, AcksInOrder
<1>4. ASSUME DeliverNew
      PROVE  AcksInOrder'
  <2>1. cursor \in Nat /\ AfterRead \in Nat
    BY ConfigAssumption DEF AfterRead, TypeOK
  <2>2. \A id \in (cursor + 1)..AfterRead :
            id..AfterRead \subseteq (cursor + 1)..AfterRead
    BY <2>1
  <2>. QED  BY <1>4, <2>2 DEF DeliverNew, AcksInOrder
<1>5. CASE ReadNew
  BY <1>4, <1>5 DEF ReadNew, DeliverNew, OrderInvariant, BatchIsOldest
<1>6. CASE ReadReplyLost
  <2>1. batch' = {}
    BY <1>6 DEF ReadReplyLost, DeliverNew, TypeOK
  <2>. QED  BY <1>4, <1>6, <2>1
            DEF ReadReplyLost, OrderInvariant, BatchIsOldest
<1>7. CASE Acknowledge
  <2>1. PICK id \in batch :
          Current(id) /\ pel' = pel \ {id} /\ batch' = batch \ {id}
    BY <1>7 DEF Acknowledge
  <2>2. AcksInOrder'
    BY <1>7, <2>1, AckKeepsOrder DEF Acknowledge
  <2>3. BatchIsOldest'
    BY <2>1 DEF OrderInvariant, BatchIsOldest
  <2>. QED  BY <2>2, <2>3 DEF OrderInvariant
<1>8. CASE AckReplyLost
  <2>1. AcksInOrder'
    BY <1>8, AckKeepsOrder DEF AckReplyLost
  <2>. QED  BY <1>8, <2>1
            DEF AckReplyLost, BackToPoll, OrderInvariant, BatchIsOldest
<1>9. CASE DecodeFails \/ ListenerCallFails \/ EmitReplyLost \/ DispatchFails
  BY <1>2, <1>9
     DEF DecodeFails, ListenerCallFails, EmitReplyLost, DispatchFails, BackToPoll
<1>10. CASE MatchVoice \/ EmitFinalTranscript \/ BufferUnknownSegment
  BY <1>1, <1>10 DEF MatchVoice, EmitFinalTranscript, BufferUnknownSegment
<1>11. CASE ResolverStep \/ ResolverFault
  BY <1>1, <1>11
     DEF ResolverStep, ResolverFault, TakeResolution, SkipUnprinted,
         UpsertVoiceIdentity, EmitIdentityResolved, ReplayBufferedSegment,
         ReplayDone, UpsertRefused, ResolutionApplied, ResolutionLost,
         ResolverCallFails, ResolverReplyLost
<1>12. CASE BrainStep \/ BrainFault
  BY <1>1, <1>12 DEF BrainStep, TakeRequest, AnswerRequest, BrainFault
<1>13. CASE ControllerRestarts
  BY <1>2, <1>13 DEF ControllerRestarts, BackToPoll
<1>14. ASSUME NEW segment \in Segment, Publish(segment)
       PROVE  OrderInvariant'
  BY <1>1, <1>14 DEF Publish
<1>15. CASE UNCHANGED vars
  BY <1>1, <1>15 DEF vars
<1>. QED  BY <1>3, <1>5, <1>6, <1>7, <1>8, <1>9, <1>10, <1>11, <1>12, <1>13,
             <1>14, <1>15 DEF Next, ListenerStep, ListenerFault

LEMMA OrderHolds == Spec => []OrderInvariant
<1>1. Init => OrderInvariant
  BY DEF Init, StateInit, OrderInvariant, AcksInOrder, BatchIsOldest
<1>. QED  BY <1>1, NextKeepsOrder, TypesHold, PTL DEF Spec

\* Entries are acknowledged in stream order, whatever fails and whenever the
\* controller restarts; hence an entry that is never acknowledged holds up
\* every later one (pending_start_id, run_connected).
THEOREM AcksAreInOrder == Spec => []AcksInOrder
<1>1. OrderInvariant => AcksInOrder
  BY DEF OrderInvariant
<1>. QED  BY <1>1, OrderHolds, PTL

-----------------------------------------------------------------------------
(* Entries are handled before they are acknowledged *)

Handled(id) == stream[id] \in buffered \/ showings[stream[id]] > 0

\* The id about to be acknowledged was handled.
AckFollowsHandling ==
    lpc = "ack" => \A id \in batch : Current(id) => Handled(id)

HandlingInvariant == AckedWasHandled /\ AckFollowsHandling

\* The histories only grow, and entries of the stream stay as they are.
LEMMA HistoriesGrow ==
    ASSUME TypeInvariant, [Next]_vars
    PROVE  /\ buffered \subseteq buffered'
           /\ \A segment \in Segment : showings[segment] <= showings'[segment]
           /\ \A id \in DOMAIN stream :
                  id \in DOMAIN stream' /\ stream'[id] = stream[id]
<1>. USE DEF redisVars, listenerVars, resolverVars, liveVars, TypeInvariant
<1>1. ASSUME UNCHANGED <<buffered, showings, stream>>
      PROVE  /\ buffered \subseteq buffered'
             /\ \A segment \in Segment : showings[segment] <= showings'[segment]
             /\ \A id \in DOMAIN stream :
                    id \in DOMAIN stream' /\ stream'[id] = stream[id]
  BY <1>1 DEF TypeOK
<1>2. ASSUME NEW shownSegment \in Segment, NEW name, Show(shownSegment, name),
             UNCHANGED <<buffered, stream>>
      PROVE  /\ buffered \subseteq buffered'
             /\ \A segment \in Segment : showings[segment] <= showings'[segment]
             /\ \A id \in DOMAIN stream :
                    id \in DOMAIN stream' /\ stream'[id] = stream[id]
  BY <1>2 DEF Show, TypeOK
<1>3. CASE EmitFinalTranscript \/ EmitReplyLost
  BY <1>2, <1>3, CurrentType DEF EmitFinalTranscript, EmitReplyLost
<1>4. CASE ReplayBufferedSegment
  BY <1>2, <1>4, HandType DEF ReplayBufferedSegment, Replay, HandOK
<1>5. CASE ResolverReplyLost
  <2>1. CASE rpc = "replay"
    <3>1. PICK i \in hand.left : Replay(i)
      BY <1>5, <2>1 DEF ResolverReplyLost
    <3>2. hand.entry.segments[i] \in Segment
      BY <2>1, HandType DEF HandOK
    <3>. QED  BY <1>2, <1>5, <3>1, <3>2 DEF ResolverReplyLost, Replay
  <2>2. CASE rpc # "replay"
    BY <1>1, <1>5, <2>2 DEF ResolverReplyLost, Announce
  <2>. QED  BY <2>1, <2>2
<1>6. CASE BufferUnknownSegment \/ DispatchFails
  BY <1>6 DEF BufferUnknownSegment, DispatchFails, TypeOK
<1>7. CASE \/ ReadPending \/ ReadNew \/ DecodeFails \/ MatchVoice \/ Acknowledge
           \/ ListenerCallFails \/ ReadReplyLost \/ AckReplyLost
  BY <1>1, <1>7
     DEF ReadPending, ReadNew, DeliverNew, DecodeFails, MatchVoice, Acknowledge,
         ListenerCallFails, ReadReplyLost, AckReplyLost
<1>8. CASE \/ TakeResolution \/ SkipUnprinted \/ UpsertVoiceIdentity
           \/ EmitIdentityResolved \/ ReplayDone \/ UpsertRefused
           \/ ResolutionApplied \/ ResolutionLost \/ ResolverCallFails
  BY <1>1, <1>8
     DEF TakeResolution, SkipUnprinted, UpsertVoiceIdentity, Announce,
         EmitIdentityResolved, ReplayDone, UpsertRefused, ResolutionApplied,
         ResolutionLost, ResolverCallFails
<1>9. CASE BrainStep \/ BrainFault \/ ControllerRestarts
  BY <1>1, <1>9 DEF BrainStep, TakeRequest, AnswerRequest, BrainFault,
                    ControllerRestarts
<1>10. ASSUME NEW segment \in Segment, Publish(segment)
       PROVE  /\ buffered \subseteq buffered'
              /\ \A other \in Segment : showings[other] <= showings'[other]
              /\ \A id \in DOMAIN stream :
                     id \in DOMAIN stream' /\ stream'[id] = stream[id]
  BY <1>10 DEF Publish, TypeOK
<1>11. CASE UNCHANGED vars
  BY <1>1, <1>11 DEF vars
<1>. QED  BY <1>3, <1>4, <1>5, <1>6, <1>7, <1>8, <1>9, <1>10, <1>11
          DEF Next, ListenerStep, ListenerFault, ResolverStep, ResolverFault

\* What was handled stays handled.
LEMMA HandledIsStable ==
    ASSUME TypeInvariant, [Next]_vars, NEW id \in 1..cursor, Handled(id)
    PROVE  Handled(id)'
<1>1. id \in DOMAIN stream /\ stream[id] \in Segment
  BY DEF TypeInvariant, TypeOK
<1>2. stream'[id] = stream[id]
  BY <1>1, HistoriesGrow
<1>3. CASE stream[id] \in buffered
  BY <1>2, <1>3, HistoriesGrow DEF Handled
<1>4. CASE showings[stream[id]] > 0
  <2>1. showings[stream[id]] <= showings'[stream[id]]
    BY <1>1, HistoriesGrow
  <2>2. showings[stream[id]] \in Nat /\ showings'[stream[id]] \in Nat
    BY <1>1, NextKeepsTypes DEF TypeInvariant, TypeOK
  <2>. QED  BY <1>2, <1>4, <2>1, <2>2 DEF Handled
<1>. QED  BY <1>3, <1>4 DEF Handled

LEMMA NextKeepsHandling ==
    TypeInvariant /\ HandlingInvariant /\ [Next]_vars => HandlingInvariant'
<1>. SUFFICES ASSUME TypeInvariant, HandlingInvariant, [Next]_vars
              PROVE  HandlingInvariant'
  OBVIOUS
<1>. USE DEF redisVars, listenerVars, resolverVars, liveVars
<1>0. TypeOK /\ cursor \in Nat
  BY DEF TypeInvariant, TypeOK
<1>1. \A id \in 1..cursor : Handled(id) => Handled(id)'
  BY HandledIsStable
<1>2. \A id \in (1..cursor) \ pel : Handled(id)
  BY DEF HandlingInvariant, AckedWasHandled, Handled
<1>3. ASSUME (1..cursor') \ pel' \subseteq (1..cursor) \ pel
      PROVE  AckedWasHandled'
  BY <1>1, <1>2, <1>3 DEF AckedWasHandled, Handled
<1>4. ASSUME UNCHANGED <<cursor, pel, lpc, batch>>
      PROVE  HandlingInvariant'
  <2>1. AckFollowsHandling'
    <3>. SUFFICES ASSUME lpc = "ack", NEW id \in batch, Current(id)
                  PROVE  Handled(id)'
      BY <1>4 DEF AckFollowsHandling, Current
    <3>1. Handled(id) /\ id \in 1..cursor
      BY CurrentType, <1>0 DEF HandlingInvariant, AckFollowsHandling
    <3>. QED  BY <3>1, <1>1
  <2>. QED  BY <1>3, <1>4, <2>1 DEF HandlingInvariant
<1>5. ASSUME (1..cursor') \ pel' \subseteq (1..cursor) \ pel, lpc' # "ack"
      PROVE  HandlingInvariant'
  BY <1>3, <1>5 DEF HandlingInvariant, AckFollowsHandling
<1>6. ASSUME DeliverNew
      PROVE  (1..cursor') \ pel' \subseteq (1..cursor) \ pel
  BY <1>0, <1>6 DEF DeliverNew
<1>7. CASE ReadPending \/ DecodeFails \/ MatchVoice \/ ListenerCallFails
           \/ EmitReplyLost \/ DispatchFails \/ ControllerRestarts
  BY <1>5, <1>7
     DEF ReadPending, DecodeFails, MatchVoice, ListenerCallFails, EmitReplyLost,
         DispatchFails, ControllerRestarts, BackToPoll
<1>8. CASE ReadNew
  BY <1>5, <1>6, <1>8 DEF ReadNew
<1>9. CASE ReadReplyLost
  BY <1>5, <1>6, <1>9 DEF ReadReplyLost, DeliverNew
<1>10. CASE EmitFinalTranscript
  <2>1. AckFollowsHandling'
    <3>. SUFFICES ASSUME NEW id \in batch, Current(id)
                  PROVE  Handled(id)'
      BY <1>10 DEF AckFollowsHandling, EmitFinalTranscript, Current
    <3>1. PICK k \in batch : Current(k) /\ Show(stream[k], named)
      BY <1>10 DEF EmitFinalTranscript
    <3>2. id = k
      BY <1>0, <3>1 DEF Current, IsLeast, TypeOK
    <3>. QED  BY <1>0, <1>10, <3>1, <3>2, CurrentType
              DEF Show, Handled, EmitFinalTranscript, TypeOK
  <2>. QED  BY <1>3, <1>10, <2>1 DEF EmitFinalTranscript, HandlingInvariant
<1>11. CASE BufferUnknownSegment
  <2>1. AckFollowsHandling'
    <3>. SUFFICES ASSUME NEW id \in batch, Current(id)
                  PROVE  Handled(id)'
      BY <1>11 DEF AckFollowsHandling, BufferUnknownSegment, Current
    <3>1. PICK k \in batch :
            Current(k) /\ buffered' = buffered \union {stream[k]}
      BY <1>11 DEF BufferUnknownSegment
    <3>2. id = k
      BY <1>0, <3>1 DEF Current, IsLeast, TypeOK
    <3>. QED  BY <1>11, <3>1, <3>2 DEF Handled, BufferUnknownSegment
  <2>. QED  BY <1>3, <1>11, <2>1 DEF BufferUnknownSegment, HandlingInvariant
<1>12. ASSUME NEW id \in batch, Current(id), lpc = "ack",
              pel' = pel \ {id}, cursor' = cursor, lpc' # "ack"
       PROVE  HandlingInvariant'
  <2>1. Handled(id) /\ id \in 1..cursor
    BY <1>0, <1>12, CurrentType DEF HandlingInvariant, AckFollowsHandling
  <2>2. \A k \in (1..cursor') \ pel' : Handled(k)'
    BY <1>1, <1>2, <1>12, <2>1
  <2>. QED  BY <1>12, <2>2
            DEF HandlingInvariant, AckedWasHandled, AckFollowsHandling, Handled
<1>13. CASE Acknowledge
  BY <1>12, <1>13 DEF Acknowledge
<1>14. CASE AckReplyLost
  BY <1>12, <1>14 DEF AckReplyLost, BackToPoll
<1>15. CASE ResolverStep \/ ResolverFault
  BY <1>4, <1>15
     DEF ResolverStep, ResolverFault, TakeResolution, SkipUnprinted,
         UpsertVoiceIdentity, EmitIdentityResolved, ReplayBufferedSegment,
         ReplayDone, UpsertRefused, ResolutionApplied, ResolutionLost,
         ResolverCallFails, ResolverReplyLost
<1>16. CASE BrainStep \/ BrainFault
  BY <1>4, <1>16 DEF BrainStep, TakeRequest, AnswerRequest, BrainFault
<1>17. ASSUME NEW segment \in Segment, Publish(segment)
       PROVE  HandlingInvariant'
  BY <1>4, <1>17 DEF Publish
<1>18. CASE UNCHANGED vars
  BY <1>4, <1>18 DEF vars
<1>. QED  BY <1>7, <1>8, <1>9, <1>10, <1>11, <1>13, <1>14, <1>15, <1>16,
             <1>17, <1>18 DEF Next, ListenerStep, ListenerFault

\* An acknowledged entry was shown, or reached its session's buffer, before:
\* no failed call and no restart makes XACK overtake the work on the entry
\* (handle_stream_id).
THEOREM AcknowledgedWasHandled == Spec => []AckedWasHandled
<1>1. Init => HandlingInvariant
  BY DEF Init, StateInit, HandlingInvariant, AckedWasHandled, AckFollowsHandling
<1>2. HandlingInvariant => AckedWasHandled
  BY DEF HandlingInvariant
<1>. QED  BY <1>1, <1>2, NextKeepsHandling, TypesHold, PTL DEF Spec

-----------------------------------------------------------------------------
(* Without a failure a session's transcript is in stream order *)

\* A segment is published once, so it has one position in the stream.
StreamHasNoRepeats ==
    \A i, j \in DOMAIN stream : stream[i] = stream[j] => i = j

\* The listener is done with the entry, save for its acknowledgement.
Passed(id) ==
    id \in 1..cursor /\ (id \in pel => lpc = "ack" /\ Current(id))

PassedIn(entry) ==
    \A i \in DOMAIN entry.segments :
        \E id \in DOMAIN stream : Passed(id) /\ stream[id] = entry.segments[i]

InOrder(segments) ==
    \A i, j \in DOMAIN segments :
        i < j => Position(segments[i]) < Position(segments[j])

\* Without a failure the buffered segments are behind the one at hand, hence
\* in front of every segment still to come.
BufferInvariant ==
    faults = 0 =>
        \A session \in Session :
            PassedIn(pending[session]) /\ InOrder(pending[session].segments)

LEMMA PositionIs ==
    ASSUME StreamHasNoRepeats, NEW id \in DOMAIN stream
    PROVE  Position(stream[id]) = id
BY DEF StreamHasNoRepeats, Position

\* One id is handled at a time.
LEMMA OneCurrent ==
    ASSUME TypeOK, NEW id \in batch, NEW other \in batch,
           Current(id), Current(other)
    PROVE  id = other
BY DEF Current, IsLeast, TypeOK

\* Only a worker adds to the stream.
LEMMA StreamOnlyGrows ==
    ASSUME [Next]_vars
    PROVE  UNCHANGED stream \/ \E segment \in Segment : Publish(segment)
<1>. USE DEF redisVars
<1>1. CASE ListenerStep \/ ListenerFault
  BY <1>1
     DEF ListenerStep, ListenerFault, ReadPending, ReadNew, DeliverNew,
         DecodeFails, MatchVoice, EmitFinalTranscript, BufferUnknownSegment,
         Acknowledge, ListenerCallFails, ReadReplyLost, EmitReplyLost,
         DispatchFails, AckReplyLost
<1>2. CASE ResolverStep \/ ResolverFault
  BY <1>2
     DEF ResolverStep, ResolverFault, TakeResolution, SkipUnprinted,
         UpsertVoiceIdentity, EmitIdentityResolved, ReplayBufferedSegment,
         ReplayDone, UpsertRefused, ResolutionApplied, ResolutionLost,
         ResolverCallFails, ResolverReplyLost
<1>3. CASE BrainStep \/ BrainFault \/ ControllerRestarts
  BY <1>3 DEF BrainStep, TakeRequest, AnswerRequest, BrainFault,
              ControllerRestarts
<1>4. CASE UNCHANGED vars
  BY <1>4 DEF vars
<1>. QED  BY <1>1, <1>2, <1>3, <1>4 DEF Next

LEMMA NextKeepsNoRepeats ==
    TypeInvariant /\ StreamHasNoRepeats /\ [Next]_vars => StreamHasNoRepeats'
<1>. SUFFICES ASSUME TypeInvariant, StreamHasNoRepeats, [Next]_vars
              PROVE  StreamHasNoRepeats'
  OBVIOUS
<1>1. CASE UNCHANGED stream
  BY <1>1 DEF StreamHasNoRepeats
<1>2. ASSUME NEW segment \in Segment, Publish(segment)
      PROVE  StreamHasNoRepeats'
  <2>1. \A i \in DOMAIN stream : stream[i] # segment
    BY <1>2 DEF Publish, ToSet
  <2>2. /\ stream' = Append(stream, segment)
        /\ stream \in Seq(Segment)
    BY <1>2 DEF Publish, TypeInvariant, TypeOK
  <2>3. /\ DOMAIN stream' = DOMAIN stream \union {Len(stream) + 1}
        /\ \A i \in DOMAIN stream : stream'[i] = stream[i]
        /\ stream'[Len(stream) + 1] = segment
    BY <2>2
  <2>. QED  BY <2>1, <2>3 DEF StreamHasNoRepeats
<1>. QED  BY <1>1, <1>2, StreamOnlyGrows

\* Appending the segment at hand to a transcript that is in order keeps it
\* in order: everything before it is behind the listener.
LEMMA AppendKeepsOrder ==
    ASSUME TypeOK, OrderInvariant, StreamHasNoRepeats,
           lpc = "buffer", NEW id \in batch, Current(id),
           NEW entry \in PendingSession, PassedIn(entry),
           InOrder(entry.segments)
    PROVE  InOrder(Append(entry.segments, stream[id]))
<1> DEFINE segments == entry.segments
           longer   == Append(segments, stream[id])
<1>1. /\ segments \in Seq(Segment)
      /\ id \in pel /\ id \in 1..cursor /\ id \in DOMAIN stream
      /\ stream[id] \in Segment
  BY CurrentType DEF PendingSession
<1>2. /\ DOMAIN longer = DOMAIN segments \union {Len(segments) + 1}
      /\ \A i \in DOMAIN segments : longer[i] = segments[i]
      /\ longer[Len(segments) + 1] = stream[id]
      /\ \A i \in DOMAIN segments : i \in Nat /\ i < Len(segments) + 1
  BY <1>1
<1>3. ASSUME NEW i \in DOMAIN segments
      PROVE  Position(segments[i]) < Position(stream[id])
  <2>1. PICK k \in DOMAIN stream : Passed(k) /\ stream[k] = segments[i]
    BY DEF PassedIn
  <2>2. k \in 1..cursor /\ k \notin pel
    BY <2>1 DEF Passed
  <2>3. ~(id <= k)
    BY <1>1, <2>2 DEF OrderInvariant, AcksInOrder, TypeOK
  <2>4. Position(segments[i]) = k /\ Position(stream[id]) = id
    BY <1>1, <2>1, PositionIs
  <2>. QED  BY <1>1, <2>2, <2>3, <2>4 DEF TypeOK
<1>. HIDE DEF longer
<1>4. SUFFICES ASSUME NEW i \in DOMAIN longer, NEW j \in DOMAIN longer, i < j
               PROVE  Position(longer[i]) < Position(longer[j])
  BY DEF longer, InOrder
<1>5. i \in DOMAIN segments
  <2>1. CASE i = Len(segments) + 1
    BY <1>1, <1>2, <1>4, <2>1
  <2>. QED  BY <1>2, <2>1
<1>6. CASE j \in DOMAIN segments
  BY <1>2, <1>4, <1>5, <1>6 DEF InOrder
<1>7. CASE j = Len(segments) + 1
  BY <1>2, <1>3, <1>5, <1>7
<1>. QED  BY <1>2, <1>6, <1>7

\* The segment at hand joins its session's transcript.
LEMMA BufferingKeepsOrder ==
    ASSUME TypeOK, OrderInvariant, StreamHasNoRepeats, BufferInvariant,
           BufferUnknownSegment
    PROVE  BufferInvariant'
<1>. SUFFICES ASSUME faults = 0, NEW session \in Session
              PROVE  /\ PassedIn(pending[session])'
                     /\ InOrder(pending[session].segments)'
  BY DEF BufferUnknownSegment, BufferInvariant
<1>1. PICK id \in batch :
        LET with == WithSegment(pending[SessionOf[stream[id]]], stream[id]) IN
        /\ Current(id)
        /\ \/ pending' = [pending EXCEPT ![SessionOf[stream[id]]] = with]
           \/ pending' = [pending EXCEPT ![SessionOf[stream[id]]] =
                              MarkRequested(with)]
  BY DEF BufferUnknownSegment
<1>. PICK own \in Session : own = SessionOf[stream[id]]
  BY CurrentType
<1>2. /\ stream[id] \in Segment
      /\ pending[own] \in PendingSession
      /\ pending[own].segments \in Seq(Segment)
      /\ pending \in [Session -> PendingSession]
      /\ id \in 1..cursor /\ id \in DOMAIN stream
  BY CurrentType DEF TypeOK, PendingSession
<1>3. UNCHANGED <<stream, cursor, pel, batch>> /\ lpc = "buffer" /\ lpc' = "ack"
  BY DEF BufferUnknownSegment
<1>4. \A k \in DOMAIN stream : Passed(k) => Passed(k)'
  BY <1>3 DEF Passed, Current
<1>5. Passed(id)'
  BY <1>1, <1>2, <1>3 DEF Passed, Current
<1>6. /\ PassedIn(pending[own]) /\ InOrder(pending[own].segments)
      /\ PassedIn(pending[session]) /\ InOrder(pending[session].segments)
  BY <1>2 DEF BufferInvariant
<1>7. \A segments : InOrder(segments) => InOrder(segments)'
  BY <1>3 DEF InOrder, Position
<1>8. CASE session = own
  <2>1. pending'[own].segments = Append(pending[own].segments, stream[id])
    BY <1>1, <1>2 DEF WithSegment, MarkRequested
  <2>2. InOrder(Append(pending[own].segments, stream[id]))
    BY <1>1, <1>2, <1>3, <1>6, AppendKeepsOrder
  <2>3. PassedIn(pending[own])'
    BY <1>2, <1>3, <1>4, <1>5, <1>6, <2>1 DEF PassedIn
  <2>4. InOrder(pending'[own].segments)
    BY <2>1, <2>2
  <2>. QED  BY <1>3, <1>8, <2>3, <2>4 DEF InOrder, Position
<1>9. CASE session # own
  <2>1. pending'[session] = pending[session]
    BY <1>1, <1>2, <1>9
  <2>. QED  BY <1>3, <1>4, <1>6, <2>1 DEF PassedIn, InOrder, Position
<1>. QED  BY <1>8, <1>9

LEMMA NextKeepsBufferOrder ==
    TypeInvariant /\ OrderInvariant /\ StreamHasNoRepeats /\ BufferInvariant
        /\ [Next]_vars => BufferInvariant'
<1>. SUFFICES ASSUME TypeInvariant, TypeOK, OrderInvariant,
                     StreamHasNoRepeats, BufferInvariant, [Next]_vars
              PROVE  BufferInvariant'
  BY DEF TypeInvariant
<1>. USE DEF redisVars, listenerVars, resolverVars, liveVars
<1>1. ASSUME Fault PROVE BufferInvariant'
  <2>1. faults' # 0
    BY <1>1 DEF Fault, TypeOK
  <2>. QED  BY <2>1 DEF BufferInvariant
<1>2. ASSUME UNCHANGED <<stream, pending, faults>>,
             \A id \in DOMAIN stream : Passed(id) => Passed(id)'
      PROVE  BufferInvariant'
  BY <1>2 DEF BufferInvariant, PassedIn, InOrder, Position
<1>3. ASSUME UNCHANGED <<cursor, pel, lpc, batch>>, NEW id, Passed(id)
      PROVE  Passed(id)'
  BY <1>3 DEF Passed, Current
<1>4. CASE ReadPending \/ ReadNew \/ DecodeFails \/ MatchVoice
  <2>1. ASSUME NEW id \in DOMAIN stream, Passed(id)
        PROVE  Passed(id)'
    <3>1. id \in 1..cursor /\ id \notin pel
      BY <1>4, <2>1
         DEF Passed, ReadPending, ReadNew, DeliverNew, DecodeFails, MatchVoice
    <3>2. CASE ReadNew
      <4>1. AfterRead \in Nat /\ cursor <= AfterRead /\ cursor \in Nat
        BY <3>2, ConfigAssumption DEF AfterRead, TypeOK, ReadNew, DeliverNew
      <4>. QED  BY <3>1, <3>2, <4>1 DEF ReadNew, DeliverNew, Passed
    <3>3. CASE ~ReadNew
      BY <1>4, <3>1, <3>3 DEF ReadPending, DecodeFails, MatchVoice, Passed
    <3>. QED  BY <3>2, <3>3
  <2>. QED  BY <1>2, <1>4, <2>1
            DEF ReadPending, ReadNew, DeliverNew, DecodeFails, MatchVoice
<1>5. CASE EmitFinalTranscript
  <2>1. ASSUME NEW id \in DOMAIN stream, Passed(id)
        PROVE  Passed(id)'
    BY <1>5, <2>1 DEF EmitFinalTranscript, Passed
  <2>. QED  BY <1>2, <1>5, <2>1 DEF EmitFinalTranscript
<1>6. CASE Acknowledge
  <2>1. ASSUME NEW id \in DOMAIN stream, Passed(id)
        PROVE  Passed(id)'
    <3>1. PICK k \in batch : Current(k) /\ pel' = pel \ {k}
      BY <1>6 DEF Acknowledge
    <3>2. Current(id) => id = k
      BY <3>1, OneCurrent DEF Current, IsLeast
    <3>. QED  BY <1>6, <2>1, <3>1, <3>2 DEF Acknowledge, Passed
  <2>. QED  BY <1>2, <1>6, <2>1 DEF Acknowledge
<1>7. CASE BufferUnknownSegment
  BY <1>7, BufferingKeepsOrder
<1>8. CASE ListenerFault \/ ResolverFault \/ BrainFault \/ ControllerRestarts
  BY <1>1, <1>8
     DEF ListenerFault, ListenerCallFails, ReadReplyLost, EmitReplyLost,
         DispatchFails, AckReplyLost, ResolverFault, ResolutionLost,
         ResolverCallFails, ResolverReplyLost, BrainFault, ControllerRestarts
<1>9. CASE TakeResolution
  <2> DEFINE session == Popped(resolutions).session
  <2>1. pending' = [pending EXCEPT ![session] = NoEntry]
    BY <1>9 DEF TakeResolution
  <2>2. UNCHANGED <<stream, cursor, pel, lpc, batch, faults>>
    BY <1>9 DEF TakeResolution
  <2>3. ASSUME faults = 0, NEW other \in Session
        PROVE  /\ PassedIn(pending[other])'
               /\ InOrder(pending[other].segments)'
    <3>1. pending'[other] = IF other = session THEN NoEntry ELSE pending[other]
      BY <2>1 DEF TypeOK
    <3>2. PassedIn(pending[other]) /\ InOrder(pending[other].segments)
      BY <2>3 DEF BufferInvariant
    <3>3. CASE pending'[other] = NoEntry
      BY <3>3 DEF NoEntry, PassedIn, InOrder
    <3>4. CASE pending'[other] = pending[other]
      BY <1>3, <2>2, <3>2, <3>4 DEF PassedIn, InOrder, Position
    <3>. QED  BY <3>1, <3>3, <3>4
  <2>. QED  BY <2>2, <2>3 DEF BufferInvariant
<1>10. CASE \/ SkipUnprinted \/ UpsertVoiceIdentity \/ EmitIdentityResolved
            \/ ReplayBufferedSegment \/ ReplayDone \/ UpsertRefused
            \/ ResolutionApplied
            \/ BrainStep
  BY <1>2, <1>3, <1>10
     DEF SkipUnprinted, UpsertVoiceIdentity, EmitIdentityResolved,
         ReplayBufferedSegment, ReplayDone, UpsertRefused, ResolutionApplied,
         BrainStep,
         TakeRequest, AnswerRequest
<1>11. ASSUME NEW segment \in Segment, Publish(segment)
       PROVE  BufferInvariant'
  <2>1. /\ UNCHANGED <<cursor, pel, lpc, batch, pending, faults>>
        /\ \A id \in DOMAIN stream :
              id \in DOMAIN stream' /\ stream'[id] = stream[id]
    BY <1>11 DEF Publish, TypeOK
  <2>2. \A id \in DOMAIN stream : Position(stream[id])' = id
    <3>1. StreamHasNoRepeats'
      BY <1>11, NextKeepsNoRepeats DEF Next
    <3>. QED  BY <2>1, <3>1 DEF StreamHasNoRepeats, Position
  <2>3. ASSUME faults = 0, NEW session \in Session
        PROVE  /\ PassedIn(pending[session])'
               /\ InOrder(pending[session].segments)'
    <3> DEFINE segments == pending[session].segments
    <3>1. PassedIn(pending[session]) /\ InOrder(segments)
      BY <2>3 DEF BufferInvariant
    <3>2. PassedIn(pending[session])'
      BY <1>3, <2>1, <3>1 DEF PassedIn
    <3>3. \A i \in DOMAIN segments :
             Position(segments[i])' = Position(segments[i])
      BY <2>1, <2>2, <3>1, PositionIs DEF PassedIn
    <3>4. InOrder(segments)'
      BY <2>1, <3>1, <3>3 DEF InOrder
    <3>. QED  BY <3>2, <3>4
  <2>. QED  BY <2>1, <2>3 DEF BufferInvariant
<1>12. CASE UNCHANGED vars
  BY <1>2, <1>3, <1>12 DEF vars
<1>. QED  BY <1>4, <1>5, <1>6, <1>7, <1>8, <1>9, <1>10, <1>11, <1>12
          DEF Next, ListenerStep, ResolverStep

LEMMA BufferOrderHolds ==
    Spec => [](StreamHasNoRepeats /\ BufferInvariant)
<1>1. Init => StreamHasNoRepeats
  BY DEF Init, StateInit, StreamHasNoRepeats
<1>2. Init => BufferInvariant
  BY DEF Init, StateInit, BufferInvariant, PassedIn, InOrder, NoEntry
<1>. QED  BY <1>1, <1>2, NextKeepsNoRepeats, NextKeepsBufferOrder, OrderHolds,
             TypesHold, PTL DEF Spec

\* As long as nothing fails, the transcript the brain will be given of a
\* session is in the order the workers published it, whatever else happens
\* in between (buffer_unknown_segment, run_connected).
THEOREM TranscriptsAreInStreamOrder == Spec => []TranscriptInStreamOrder
<1>1. BufferInvariant => TranscriptInStreamOrder
  BY DEF BufferInvariant, InOrder, TranscriptInStreamOrder
<1>. QED  BY <1>1, BufferOrderHolds, PTL

-----------------------------------------------------------------------------
(* A segment is lost only by a failure or by the brain's answer *)

\* What is behind the replay was shown.
ReplayedWasShown ==
    rpc = "replay" =>
        \A tag \in hand.todo : Applying(tag) =>
            \A i \in DOMAIN hand.entry.segments \ hand.left :
                TagOf[hand.entry.segments[i]] = tag =>
                    showings[hand.entry.segments[i]] > 0

\* What was shown stays so.
LEMMA ShownIsStable ==
    ASSUME TypeInvariant, [Next]_vars, NEW segment \in Segment,
           showings[segment] > 0
    PROVE  showings'[segment] > 0
<1>1. showings[segment] <= showings'[segment]
  BY HistoriesGrow
<1>2. showings[segment] \in Nat /\ showings'[segment] \in Nat
  BY NextKeepsTypes DEF TypeInvariant, TypeOK
<1>. QED  BY <1>1, <1>2

\* One speaker is served at a time.
LEMMA OneApplying ==
    ASSUME TypeOK, rpc # "idle", NEW tag \in hand.todo, NEW other \in hand.todo,
           Applying(tag), Applying(other)
    PROVE  tag = other
<1>1. tag \in Nat /\ other \in Nat
  BY HandType, TagAssumption
<1>. QED  BY <1>1 DEF Applying, IsLeast

\* The listener and the brain leave the resolver's locals alone.
LEMMA OnlyResolverMovesHand ==
    ASSUME ListenerStep \/ ListenerFault \/ BrainStep \/ BrainFault
    PROVE  UNCHANGED <<rpc, hand>>
BY DEF ListenerStep, ListenerFault, ReadPending, ReadNew, DeliverNew,
       DecodeFails, MatchVoice, EmitFinalTranscript, BufferUnknownSegment,
       Acknowledge, ListenerCallFails, ReadReplyLost, EmitReplyLost,
       DispatchFails, AckReplyLost, BrainStep, TakeRequest, AnswerRequest,
       BrainFault, resolverVars

\* What the resolver's step does to its locals, and what it leaves alone.
LEMMA ResolverFrame ==
    ASSUME TypeOK, rpc # "idle", ResolverStep, rpc' # "idle"
    PROVE  /\ hand'.session = hand.session
           /\ hand'.entry = hand.entry
           /\ hand'.names = hand.names
           /\ UNCHANGED <<stream, cursor, pel, brainQueue, resolutions, lpc,
                          batch, pending, brainJob, faults>>
BY HandType
   DEF ResolverStep, TakeResolution, SkipUnprinted, UpsertVoiceIdentity,
       EmitIdentityResolved, ReplayBufferedSegment, ReplayDone,
       UpsertRefused, ResolutionApplied, BackToIdle, Hand, redisVars,
       listenerVars, liveVars

LEMMA NextKeepsReplayed ==
    TypeInvariant /\ ReplayedWasShown /\ [Next]_vars => ReplayedWasShown'
<1>. SUFFICES ASSUME TypeInvariant, TypeOK, ReplayedWasShown, [Next]_vars
              PROVE  ReplayedWasShown'
  BY DEF TypeInvariant
<1>. USE DEF redisVars, listenerVars, resolverVars, liveVars
<1>1. ASSUME UNCHANGED <<rpc, hand>>
      PROVE  ReplayedWasShown'
  <2>1. rpc = "replay" => hand.entry.segments \in Seq(Segment)
    BY HandType
  <2>2. ASSUME rpc = "replay", NEW i \in DOMAIN hand.entry.segments
        PROVE  hand.entry.segments[i] \in Segment
    BY <2>1, <2>2
  <2>. QED  BY <1>1, <2>2, ShownIsStable DEF ReplayedWasShown, Applying
<1>2. ASSUME rpc' # "replay"
      PROVE  ReplayedWasShown'
  BY <1>2 DEF ReplayedWasShown
<1>3. CASE ListenerStep \/ ListenerFault \/ BrainStep \/ BrainFault
  BY <1>1, <1>3, OnlyResolverMovesHand
<1>4. CASE \/ TakeResolution \/ SkipUnprinted \/ UpsertVoiceIdentity
           \/ ReplayDone \/ UpsertRefused \/ ResolutionApplied
           \/ ResolverCallFails
           \/ ResolverReplyLost \/ ControllerRestarts
  BY <1>1, <1>2, <1>4
     DEF TakeResolution, SkipUnprinted, UpsertVoiceIdentity, ReplayDone,
         UpsertRefused, ResolutionApplied, ResolverCallFails, ResolverReplyLost,
         ControllerRestarts, BackToIdle
<1>5. CASE EmitIdentityResolved
  <2>1. PICK tag \in hand.todo :
          /\ Applying(tag)
          /\ hand' = [hand EXCEPT !.left =
                {i \in DOMAIN hand.entry.segments :
                    TagOf[hand.entry.segments[i]] = tag}]
    BY <1>5 DEF EmitIdentityResolved
  <2>2. rpc # "idle"
    BY <1>5 DEF EmitIdentityResolved
  <2>3. /\ hand'.entry = hand.entry /\ hand'.todo = hand.todo
        /\ hand'.left = {i \in DOMAIN hand.entry.segments :
                            TagOf[hand.entry.segments[i]] = tag}
    BY <2>1, <2>2, HandType DEF Hand
  <2>4. \A other \in hand.todo : Applying(other) => other = tag
    BY <2>1, <2>2, OneApplying
  <2>. QED  BY <2>3, <2>4 DEF ReplayedWasShown, Applying
<1>6. CASE ReplayBufferedSegment
  <2>1. PICK k \in hand.left :
          /\ \E tag \in hand.todo :
                Show(hand.entry.segments[k], hand.names[tag])
          /\ hand' = [hand EXCEPT !.left = @ \ {k}]
    BY <1>6 DEF ReplayBufferedSegment, Replay
  <2>2. rpc = "replay"
    BY <1>6 DEF ReplayBufferedSegment
  <2>3. /\ hand'.entry = hand.entry /\ hand'.todo = hand.todo
        /\ hand'.left = hand.left \ {k}
    BY <2>1, <2>2, HandType DEF Hand
  <2>4. /\ k \in DOMAIN hand.entry.segments
        /\ hand.entry.segments \in Seq(Segment)
    BY <2>2, HandType DEF TypeInvariant, HandOK
  <2>5. \A i \in DOMAIN hand.entry.segments : hand.entry.segments[i] \in Segment
    BY <2>4
  <2>6. showings'[hand.entry.segments[k]] > 0
    BY <2>1, <2>4, <2>5 DEF Show, TypeOK
  <2>7. \A i \in DOMAIN hand.entry.segments :
           showings[hand.entry.segments[i]] > 0
               => showings'[hand.entry.segments[i]] > 0
    BY <2>5, ShownIsStable
  <2>. QED  BY <2>2, <2>3, <2>6, <2>7 DEF ReplayedWasShown, Applying
<1>7. CASE ResolutionLost
  BY <1>1, <1>7 DEF ResolutionLost
<1>8. ASSUME NEW segment \in Segment, Publish(segment)
      PROVE  ReplayedWasShown'
  BY <1>1, <1>8 DEF Publish
<1>9. CASE UNCHANGED vars
  BY <1>1, <1>9 DEF vars
<1>. QED  BY <1>3, <1>4, <1>5, <1>6, <1>7, <1>8, <1>9
          DEF Next, ResolverStep, ResolverFault

LEMMA ReplayedHolds == Spec => []ReplayedWasShown
<1>1. Init => ReplayedWasShown
  BY DEF Init, StateInit, ReplayedWasShown
<1>. QED  BY <1>1, NextKeepsReplayed, TypesHold, PTL DEF Spec

\* The segment at hand joins the transcript of its session, and no other.
LEMMA BufferingAppends ==
    ASSUME TypeOK, BufferUnknownSegment \/ DispatchFails
    PROVE  \E id \in batch :
              /\ Current(id)
              /\ \A session \in Session :
                    pending'[session].segments =
                        IF session = SessionOf[stream[id]]
                        THEN Append(pending[session].segments, stream[id])
                        ELSE pending[session].segments
<1>1. PICK id \in batch :
        LET own  == SessionOf[stream[id]]
            with == WithSegment(pending[own], stream[id]) IN
        /\ Current(id)
        /\ \/ pending' = [pending EXCEPT ![own] = with]
           \/ pending' = [pending EXCEPT ![own] = MarkRequested(with)]
  BY DEF BufferUnknownSegment, DispatchFails
<1>2. PICK own \in Session : own = SessionOf[stream[id]]
  BY CurrentType
<1>3. PICK with \in PendingSession :
        /\ with = WithSegment(pending[own], stream[id])
        /\ MarkRequested(with) \in PendingSession
  BY <1>2, BufferType
<1>4. with.segments = Append(pending[own].segments, stream[id])
  BY <1>3 DEF WithSegment
<1>5. MarkRequested(with).segments = with.segments
  BY <1>3 DEF MarkRequested, PendingSession
<1>6. PICK entry :
        /\ entry.segments = Append(pending[own].segments, stream[id])
        /\ pending' = [pending EXCEPT ![own] = entry]
  BY <1>1, <1>2, <1>3, <1>4, <1>5
<1>7. pending \in [Session -> PendingSession]
  BY DEF TypeOK
<1>. QED  BY <1>1, <1>2, <1>6, <1>7

\* Over a step without a failure the listener keeps every segment: what it
\* is done with was shown or buffered.
LEMMA ListenerKeepsSegments ==
    ASSUME TypeInvariant, ListenerStep, NEW segment \in Segment, Kept(segment)
    PROVE  Kept(segment)'
<1>. USE DEF redisVars, listenerVars, resolverVars, liveVars
<1>0. TypeOK /\ [Next]_vars
  BY DEF TypeInvariant, Next
<1>1. UNCHANGED <<rpc, hand, stream>>
  BY OnlyResolverMovesHand
     DEF ListenerStep, ReadPending, ReadNew, DeliverNew, DecodeFails,
         MatchVoice, EmitFinalTranscript, BufferUnknownSegment, Acknowledge
<1>2. CASE showings[segment] > 0
  BY <1>0, <1>2, ShownIsStable DEF Kept
<1>3. CASE InHand(segment)
  BY <1>1, <1>3 DEF Kept, InHand
<1>4. CASE segment \in ToSet(pending[SessionOf[segment]].segments)
  <2>1. CASE BufferUnknownSegment
    <3>1. PICK id \in batch :
            pending'[SessionOf[segment]].segments \in
                {Append(pending[SessionOf[segment]].segments, stream[id]),
                 pending[SessionOf[segment]].segments}
      BY <1>0, <2>1, BufferingAppends, SegmentAssumption
    <3>2. /\ pending[SessionOf[segment]].segments \in Seq(Segment)
          /\ stream[id] \in Segment
      BY <1>0, SegmentAssumption, CurrentType DEF TypeOK, PendingSession
    <3>3. segment \in
             ToSet(Append(pending[SessionOf[segment]].segments, stream[id]))
      BY <1>4, <3>2, AppendToSet
    <3>4. segment \in ToSet(pending'[SessionOf[segment]].segments)
      BY <1>4, <3>1, <3>3
    <3>. QED  BY <3>4 DEF Kept, ToSet
  <2>2. CASE ~BufferUnknownSegment
    <3>1. UNCHANGED pending
      BY <2>2 DEF ListenerStep, ReadPending, ReadNew, DeliverNew, DecodeFails,
                  MatchVoice, EmitFinalTranscript, Acknowledge
    <3>. QED  BY <1>4, <3>1 DEF Kept, ToSet
  <2>. QED  BY <2>1, <2>2
<1>5. CASE Unhandled(segment)
  <2>1. PICK id \in DOMAIN stream :
          /\ stream[id] = segment
          /\ id > cursor \/ id \in pel
          /\ ~(lpc = "ack" /\ Current(id))
    BY <1>5 DEF Unhandled
  <2>2. ASSUME id > cursor' \/ id \in pel', ~(lpc' = "ack" /\ Current(id)')
        PROVE  Kept(segment)'
    BY <1>1, <2>1, <2>2 DEF Kept, Unhandled
  <2>3. id \in Nat /\ cursor \in Nat
    BY <1>0 DEF TypeOK
  <2>4. CASE ReadPending \/ DecodeFails \/ MatchVoice
    BY <2>1, <2>2, <2>4 DEF ReadPending, DecodeFails, MatchVoice, BackToPoll
  <2>5. CASE ReadNew
    <3>1. id > cursor' \/ id \in pel'
      <4>1. cursor' = AfterRead /\ pel' = (cursor + 1)..AfterRead /\ pel = {}
        BY <2>5 DEF ReadNew, DeliverNew
      <4>2. AfterRead \in Nat
        BY <2>3, <1>0, ConfigAssumption DEF AfterRead, TypeOK
      <4>. QED  BY <2>1, <2>3, <4>1, <4>2
    <3>. QED  BY <2>2, <2>5, <3>1 DEF ReadNew
  <2>6. CASE EmitFinalTranscript
    <3>1. PICK k \in batch : Current(k) /\ Show(stream[k], named)
      BY <2>6 DEF EmitFinalTranscript
    <3>2. CASE Current(id)'
      <4>1. Current(id) /\ id \in batch
        BY <2>6, <3>2 DEF EmitFinalTranscript, Current, IsLeast
      <4>2. stream[k] = segment
        BY <1>0, <2>1, <3>1, <4>1, OneCurrent
      <4>3. showings'[segment] > 0
        BY <1>0, <3>1, <4>2 DEF Show, TypeOK
      <4>. QED  BY <4>3 DEF Kept
    <3>3. CASE ~Current(id)'
      BY <2>1, <2>2, <2>6, <3>3 DEF EmitFinalTranscript
    <3>. QED  BY <3>2, <3>3
  <2>7. CASE BufferUnknownSegment
    <3>1. PICK k \in batch :
            /\ Current(k)
            /\ \A session \in Session :
                  pending'[session].segments =
                      IF session = SessionOf[stream[k]]
                      THEN Append(pending[session].segments, stream[k])
                      ELSE pending[session].segments
      BY <1>0, <2>7, BufferingAppends
    <3>2. CASE Current(id)'
      <4>1. Current(id) /\ id \in batch
        BY <2>7, <3>2 DEF BufferUnknownSegment, Current, IsLeast
      <4>2. stream[k] = segment
        BY <1>0, <2>1, <3>1, <4>1, OneCurrent
      <4>3. pending[SessionOf[segment]].segments \in Seq(Segment)
        BY <1>0, SegmentAssumption DEF TypeOK, PendingSession
      <4>4. pending'[SessionOf[segment]].segments
                = Append(pending[SessionOf[segment]].segments, segment)
        BY <3>1, <4>2, SegmentAssumption
      <4>5. segment \in ToSet(pending'[SessionOf[segment]].segments)
        BY <4>3, <4>4, AppendToSet
      <4>. QED  BY <4>5 DEF Kept, ToSet
    <3>3. CASE ~Current(id)'
      BY <2>1, <2>2, <2>7, <3>3 DEF BufferUnknownSegment
    <3>. QED  BY <3>2, <3>3
  <2>8. CASE Acknowledge
    <3>1. PICK k \in batch : Current(k) /\ pel' = pel \ {k}
      BY <2>8 DEF Acknowledge
    <3>2. id # k
      BY <2>1, <2>8, <3>1 DEF Acknowledge
    <3>. QED  BY <2>1, <2>2, <2>8, <3>1, <3>2 DEF Acknowledge
  <2>. QED  BY <2>4, <2>5, <2>6, <2>7, <2>8 DEF ListenerStep
<1>. QED  BY <1>2, <1>3, <1>4, <1>5 DEF Kept

\* So does the resolver, unless the answer it takes leaves the speaker
\* unnamed or the storage refuses a point: it skips no speaker of a buffered segment, and leaves a speaker
\* only when all of the speaker's segments were shown.
LEMMA ResolverKeepsSegments ==
    ASSUME TypeInvariant, CoverInvariant, ReplayedWasShown, ResolverStep,
           MemoryUp \/ UNCHANGED resolutions, ~UpsertRefused,
           NEW segment \in Segment, Kept(segment)
    PROVE  Kept(segment)' \/ LeftUnnamed(segment)
<1>. USE DEF redisVars, listenerVars, resolverVars, liveVars
<1>0. TypeOK /\ [Next]_vars
  BY DEF TypeInvariant, Next
<1>1. UNCHANGED <<stream, cursor, pel, lpc, batch>>
  BY DEF ResolverStep, TakeResolution, SkipUnprinted, UpsertVoiceIdentity,
         EmitIdentityResolved, ReplayBufferedSegment, ReplayDone,
         UpsertRefused, ResolutionApplied
<1>2. CASE showings[segment] > 0
  BY <1>0, <1>2, ShownIsStable DEF Kept
<1>3. CASE Unhandled(segment)
  BY <1>1, <1>3 DEF Kept, Unhandled, Current
<1>4. CASE segment \in ToSet(pending[SessionOf[segment]].segments)
  <2>1. CASE TakeResolution
    <3>1. PICK session, entry, names :
            /\ entry = pending[session]
            /\ Popped(resolutions).session = session
            /\ pending' = [pending EXCEPT ![session] = NoEntry]
            /\ IF entry = NoEntry \/ ~MemoryUp
               THEN UNCHANGED resolverVars
               ELSE /\ rpc' = "upsert"
                    /\ hand' = [session |-> session, entry |-> entry,
                                names |-> names,
                                todo |-> NamedBy(names), left |-> {}]
      BY <2>1 DEF TakeResolution
    <3>2. SessionOf[segment] \in Session
      BY SegmentAssumption
    <3>3. CASE session # SessionOf[segment]
      <4>1. pending'[SessionOf[segment]] = pending[SessionOf[segment]]
        BY <1>0, <3>1, <3>2, <3>3 DEF TypeOK
      <4>. QED  BY <1>4, <4>1 DEF Kept, ToSet
    <3>4. CASE session = SessionOf[segment]
      <4>1. MemoryUp
        <5>1. resolutions \in Seq(BrainResponse) /\ resolutions # <<>>
          BY <1>0, <2>1 DEF TakeResolution, TypeOK
        <5>2. AfterPop(resolutions) # resolutions
          BY <5>1 DEF AfterPop, Front
        <5>. QED  BY <2>1, <5>2 DEF TakeResolution
      <4>2. entry # NoEntry
        BY <1>4, <3>1, <3>4 DEF NoEntry, ToSet
      <4>3. /\ rpc' = "upsert" /\ rpc = "idle"
            /\ hand'.session = session
            /\ hand'.entry = entry
        BY <2>1, <3>1, <4>1, <4>2 DEF TakeResolution
      <4>4. CASE TagOf[segment] \in hand'.todo
        <5>1. InHand(segment)'
          BY <1>4, <3>1, <3>4, <4>3, <4>4 DEF InHand, ToSet
        <5>. QED  BY <5>1 DEF Kept
      <4>5. CASE TagOf[segment] \notin hand'.todo
        BY <3>4, <4>3, <4>5 DEF LeftUnnamed
      <4>. QED  BY <4>4, <4>5
    <3>. QED  BY <3>3, <3>4
  <2>2. CASE ~TakeResolution
    <3>1. UNCHANGED pending
      BY <2>2 DEF ResolverStep, SkipUnprinted, UpsertVoiceIdentity,
           EmitIdentityResolved, ReplayBufferedSegment, ReplayDone,
           UpsertRefused, ResolutionApplied
    <3>. QED  BY <1>4, <3>1 DEF Kept, ToSet
  <2>. QED  BY <2>1, <2>2
<1>5. CASE InHand(segment)
  <2>1. /\ rpc # "idle"
        /\ TagOf[segment] \in hand.todo
        /\ hand.entry.segments \in Seq(Segment)
    BY <1>0, <1>5, HandType DEF InHand
  <2>2. PICK k \in DOMAIN hand.entry.segments : hand.entry.segments[k] = segment
    BY <1>5 DEF InHand, ToSet
  <2>3. ~TakeResolution /\ ~ResolutionApplied
    BY <2>1 DEF TakeResolution, ResolutionApplied
  <2>4. rpc' # "idle"
    BY <2>1, <2>3 DEF ResolverStep, SkipUnprinted, UpsertVoiceIdentity,
         EmitIdentityResolved, ReplayBufferedSegment, ReplayDone
  <2>5. hand'.entry = hand.entry
    BY <1>0, <2>1, <2>4, ResolverFrame
  <2>6. ASSUME TagOf[segment] \in hand'.todo
        PROVE  Kept(segment)'
    BY <1>5, <2>4, <2>5, <2>6 DEF Kept, InHand, ToSet
  <2>7. CASE UpsertVoiceIdentity \/ EmitIdentityResolved \/ ReplayBufferedSegment
    <3>1. hand'.todo = hand.todo
      BY <1>0, <2>1, <2>7, HandType DEF UpsertVoiceIdentity,
           EmitIdentityResolved, ReplayBufferedSegment, Hand
    <3>. QED  BY <2>1, <2>6, <3>1
  <2>8. CASE SkipUnprinted
    <3>1. PICK tag \in hand.todo :
            /\ hand.entry.prints[tag] = NoVoice
            /\ hand' = [hand EXCEPT !.todo = @ \ {tag}]
      BY <2>8 DEF SkipUnprinted
    <3>2. hand.entry.prints[TagOf[segment]] # NoVoice
      BY <2>1, <2>2
         DEF CoverInvariant, FingerprintsCoverSegments, CoveredBy,
             Fingerprinted
    <3>3. hand'.todo = hand.todo \ {tag}
      BY <1>0, <2>1, <3>1, HandType DEF Hand
    <3>. QED  BY <2>1, <2>6, <3>1, <3>2, <3>3
  <2>9. CASE ReplayDone
    <3>1. PICK tag \in hand.todo :
            /\ Applying(tag)
            /\ hand' = [hand EXCEPT !.todo = @ \ {tag}]
      BY <2>9 DEF ReplayDone
    <3>2. rpc = "replay" /\ hand.left = {}
      BY <2>9 DEF ReplayDone
    <3>3. hand'.todo = hand.todo \ {tag}
      BY <1>0, <2>1, <3>1, HandType DEF Hand
    <3>4. CASE TagOf[segment] = tag
      <4>1. showings[segment] > 0
        BY <2>2, <3>1, <3>2, <3>4 DEF ReplayedWasShown
      <4>. QED  BY <1>0, <4>1, ShownIsStable DEF Kept
    <3>5. CASE TagOf[segment] # tag
      BY <2>1, <2>6, <3>3, <3>5
    <3>. QED  BY <3>4, <3>5
  <2>. QED  BY <2>3, <2>7, <2>8, <2>9 DEF ResolverStep
<1>. QED  BY <1>2, <1>3, <1>4, <1>5 DEF Kept

\* A step that fails nothing, is not an answer taken without Qdrant and
\* meets no refused point loses no segment but those the answer leaves
\* unnamed.
LEMMA NextLosesNothing ==
    TypeInvariant /\ CoverInvariant /\ ReplayedWasShown /\ [Next]_vars =>
        \/ faults' > faults
        \/ ~MemoryUp /\ resolutions' # resolutions
        \/ UpsertRefused
        \/ \A segment \in Segment :
              Kept(segment) /\ ~Kept(segment)' => LeftUnnamed(segment)
<1>. SUFFICES ASSUME TypeInvariant, TypeOK, CoverInvariant, ReplayedWasShown,
                     [Next]_vars, ~(faults' > faults),
                     MemoryUp \/ UNCHANGED resolutions, ~UpsertRefused,
                     NEW segment \in Segment, Kept(segment)
              PROVE  Kept(segment)' \/ LeftUnnamed(segment)
  BY DEF TypeInvariant
<1>1. ~Fault
  BY DEF Fault, TypeOK
<1>2. ~(ListenerFault \/ ResolverFault \/ BrainFault \/ ControllerRestarts)
  BY <1>1
     DEF ListenerFault, ListenerCallFails, ReadReplyLost, EmitReplyLost,
         DispatchFails, AckReplyLost, ResolverFault, ResolutionLost,
         ResolverCallFails, ResolverReplyLost, BrainFault, ControllerRestarts
<1>3. CASE ListenerStep
  BY <1>3, ListenerKeepsSegments
<1>4. CASE ResolverStep
  BY <1>4, ResolverKeepsSegments
<1>5. ASSUME UNCHANGED <<cursor, pel, lpc, batch, pending, rpc, hand, showings>>,
             \A id \in DOMAIN stream :
                 id \in DOMAIN stream' /\ stream'[id] = stream[id]
      PROVE  Kept(segment)'
  <2>1. Unhandled(segment) => Unhandled(segment)'
    BY <1>5 DEF Unhandled, Current
  <2>. QED  BY <1>5, <2>1 DEF Kept, InHand, ToSet
<1>6. CASE BrainStep
  BY <1>5, <1>6 DEF BrainStep, TakeRequest, AnswerRequest, listenerVars,
                    resolverVars, liveVars
<1>7. ASSUME NEW other \in Segment, Publish(other)
      PROVE  Kept(segment)'
  BY <1>5, <1>7 DEF Publish, TypeOK, listenerVars, resolverVars, liveVars
<1>8. CASE UNCHANGED vars
  BY <1>5, <1>8 DEF vars
<1>. QED  BY <1>2, <1>3, <1>4, <1>6, <1>7, <1>8 DEF Next

\* Two tasks share the map of buffered segments, and each takes segments out
\* of what the other sees; still no interleaving of theirs loses one: each
\* segment that is read, shown, buffered or in the resolver's hands stays in
\* one of these places until it is shown, unless a call fails, the answer
\* leaves its speaker unnamed, there is no Qdrant, or it refuses a point
\* (handle_stream_id, handle_resolution_payload).
THEOREM NothingIsSilentlyLost == Spec => NoSilentLoss
BY NextLosesNothing, TypesHold, CoverHolds, ReplayedHolds, PTL
   DEF Spec, NoSilentLoss

-----------------------------------------------------------------------------
(* Showing a segment again takes a failure *)

\* Where a segment is buffered, and where the resolver still has to show it.
Copies(segment) ==
    LET segments == pending[SessionOf[segment]].segments IN
    {i \in DOMAIN segments : segments[i] = segment}

ToReplay(tag, i) ==
    /\ tag \in hand.todo
    /\ rpc = "replay" /\ Applying(tag) => i \in hand.left

HandCopies(segment) ==
    IF rpc = "idle" THEN {}
    ELSE {i \in DOMAIN hand.entry.segments :
             /\ hand.entry.segments[i] = segment
             /\ ToReplay(TagOf[segment], i)}

\* The listener has yet to come to the segment, or comes to it again.
Awaited(segment) == segment \notin ToSet(stream) \/ Unhandled(segment)

\* How often the segment was shown, and may be shown if nothing fails.
Showable(segment) ==
    showings[segment] + Cardinality(Copies(segment))
    + Cardinality(HandCopies(segment))
    + (IF Awaited(segment) THEN 1 ELSE 0)

BudgetInvariant == \A segment \in Segment : Showable(segment) <= 1 + faults

LEMMA CopiesAreFinite ==
    ASSUME TypeOK, NEW segment \in Segment
    PROVE  /\ IsFiniteSet(Copies(segment))
           /\ IsFiniteSet(HandCopies(segment))
           /\ Cardinality(Copies(segment)) \in Nat
           /\ Cardinality(HandCopies(segment)) \in Nat
           /\ showings[segment] \in Nat
           /\ faults \in Nat
<1>1. ASSUME NEW list \in Seq(Segment), NEW positions \in SUBSET (DOMAIN list)
      PROVE  IsFiniteSet(positions)
  <2>1. IsFiniteSet(1..Len(list))
    BY FS_Interval
  <2>2. DOMAIN list = 1..Len(list)
    OBVIOUS
  <2>. QED  BY <2>1, <2>2, FS_Subset
<1>2. IsFiniteSet(Copies(segment))
  <2>1. pending[SessionOf[segment]].segments \in Seq(Segment)
    BY SegmentAssumption DEF TypeOK, PendingSession
  <2>. QED  BY <1>1, <2>1 DEF Copies
<1>3. IsFiniteSet(HandCopies(segment))
  <2>1. CASE rpc = "idle"
    BY <2>1, FS_EmptySet DEF HandCopies
  <2>2. CASE rpc # "idle"
    <3>1. hand.entry.segments \in Seq(Segment)
      BY <2>2, HandType
    <3>. QED  BY <1>1, <2>2, <3>1 DEF HandCopies
  <2>. QED  BY <2>1, <2>2
<1>4. showings[segment] \in Nat /\ faults \in Nat
  BY MaxFaultsAssumption DEF TypeOK
<1>. QED  BY <1>2, <1>3, <1>4, FS_CardinalityType

\* A step that does not fail brings the listener to no segment again.
LEMMA ListenerAwaitsNoMore ==
    ASSUME TypeOK, ListenerStep, NEW segment \in Segment, Unhandled(segment)'
    PROVE  Unhandled(segment)
<1>. USE DEF listenerVars
<1>1. UNCHANGED stream
  BY DEF ListenerStep, ReadPending, ReadNew, DeliverNew, DecodeFails,
         MatchVoice, EmitFinalTranscript, BufferUnknownSegment, Acknowledge,
         redisVars
<1>2. PICK id \in DOMAIN stream :
        /\ stream[id] = segment
        /\ id > cursor' \/ id \in pel'
        /\ ~(lpc' = "ack" /\ Current(id)')
  BY <1>1 DEF Unhandled
<1>3. CASE ReadPending \/ DecodeFails \/ MatchVoice \/ EmitFinalTranscript
           \/ BufferUnknownSegment
  BY <1>2, <1>3
     DEF ReadPending, DecodeFails, MatchVoice, EmitFinalTranscript,
         BufferUnknownSegment, Unhandled, redisVars
<1>4. CASE ReadNew
  <2>1. id \in Nat /\ cursor \in Nat /\ AfterRead \in Nat
        /\ cursor <= AfterRead
    BY <1>2, <1>4, ConfigAssumption DEF ReadNew, DeliverNew, AfterRead, TypeOK
  <2>. QED  BY <1>2, <1>4, <2>1 DEF ReadNew, DeliverNew, Unhandled
<1>5. CASE Acknowledge
  <2>1. PICK k \in batch : Current(k) /\ pel' = pel \ {k}
    BY <1>5 DEF Acknowledge
  <2>2. CASE id = k
    <3>1. id <= cursor
      BY <2>1, <2>2 DEF TypeOK
    <3>. QED  BY <1>2, <1>5, <2>1, <2>2, <3>1 DEF Acknowledge, TypeOK
  <2>3. CASE id # k
    <3>1. ~Current(id)
      BY <2>1, <2>3, OneCurrent DEF Current, IsLeast
    <3>. QED  BY <1>2, <1>5, <2>1, <3>1 DEF Acknowledge, Unhandled
  <2>. QED  BY <2>2, <2>3
<1>. QED  BY <1>3, <1>4, <1>5 DEF ListenerStep

\* The copies of a segment in its session's entry, after a step that
\* buffered the segment at hand.
LEMMA BufferingCopies ==
    ASSUME TypeOK, TypeOK', BufferUnknownSegment \/ DispatchFails,
           NEW segment \in Segment
    PROVE  \E id \in batch :
              /\ Current(id)
              /\ stream[id] # segment => Copies(segment)' = Copies(segment)
              /\ stream[id] = segment =>
                    Cardinality(Copies(segment)') = Cardinality(Copies(segment)) + 1
<1>1. PICK id \in batch :
        /\ Current(id)
        /\ \A session \in Session :
              pending'[session].segments =
                  IF session = SessionOf[stream[id]]
                  THEN Append(pending[session].segments, stream[id])
                  ELSE pending[session].segments
  BY BufferingAppends
<1>. PICK list \in Seq(Segment) :
        list = pending[SessionOf[segment]].segments
  BY SegmentAssumption DEF TypeOK, PendingSession
<1>2. Copies(segment) = {i \in DOMAIN list : list[i] = segment}
  BY DEF Copies
<1>3. CASE SessionOf[stream[id]] # SessionOf[segment]
  <2>1. pending'[SessionOf[segment]].segments = list
    BY <1>1, <1>3, SegmentAssumption
  <2>2. Copies(segment)' = Copies(segment)
    BY <1>2, <2>1 DEF Copies
  <2>. QED  BY <1>1, <1>3, <2>2
<1>4. CASE SessionOf[stream[id]] = SessionOf[segment]
  <2>. PICK new \in Segment : new = stream[id]
    BY CurrentType
  <2>. PICK longer : longer = Append(list, new)
    OBVIOUS
  <2>1. pending'[SessionOf[segment]].segments = longer
    BY <1>1, <1>4, SegmentAssumption
  <2>2. Copies(segment)' = {i \in DOMAIN longer : longer[i] = segment}
    BY <2>1 DEF Copies
  <2>3. /\ DOMAIN longer = DOMAIN list \union {Len(list) + 1}
        /\ \A i \in DOMAIN list : longer[i] = list[i]
        /\ longer[Len(list) + 1] = new
        /\ Len(list) + 1 \notin DOMAIN list
    BY AppendShape
  <2>4. new # segment => Copies(segment)' = Copies(segment)
    BY <1>2, <2>2, <2>3
  <2>5. ASSUME new = segment
        PROVE  Cardinality(Copies(segment)') = Cardinality(Copies(segment)) + 1
    <3>1. /\ Copies(segment)' = Copies(segment) \union {Len(list) + 1}
          /\ Len(list) + 1 \notin Copies(segment)
      BY <1>2, <2>2, <2>3, <2>5
    <3>. QED  BY <3>1, CopiesAreFinite, FS_AddElement
  <2>. QED  BY <1>1, <2>4, <2>5
<1>. QED  BY <1>3, <1>4

FiniteCopies ==
    \A segment \in Segment :
        /\ IsFiniteSet(Copies(segment)) /\ IsFiniteSet(HandCopies(segment))
        /\ Cardinality(Copies(segment)) \in Nat
        /\ Cardinality(HandCopies(segment)) \in Nat
        /\ showings[segment] \in Nat
        /\ faults \in Nat

LEMMA TypesGiveFiniteCopies == TypeOK => FiniteCopies
BY CopiesAreFinite DEF FiniteCopies

\* What a step leaves at most of what a segment may still be shown.
LEMMA FewerCopies ==
    ASSUME FiniteCopies, FiniteCopies', NEW segment \in Segment,
           Awaited(segment)' => Awaited(segment),
           Copies(segment)' \subseteq Copies(segment),
           HandCopies(segment)' \subseteq HandCopies(segment),
           showings'[segment] = showings[segment]
    PROVE  Showable(segment)' <= Showable(segment)
<1>1. /\ Cardinality(Copies(segment)') <= Cardinality(Copies(segment))
      /\ Cardinality(HandCopies(segment)') <= Cardinality(HandCopies(segment))
  BY FS_Subset DEF FiniteCopies
<1>2. /\ Cardinality(Copies(segment)) \in Nat
      /\ Cardinality(HandCopies(segment)) \in Nat
      /\ showings[segment] \in Nat
      /\ Cardinality(Copies(segment)') \in Nat
      /\ Cardinality(HandCopies(segment)') \in Nat
  BY DEF FiniteCopies
<1>. QED  BY <1>1, <1>2 DEF Showable

\* An answer takes the copies out of the map and into the resolver's hands.
LEMMA TakingKeepsBudget ==
    ASSUME TypeOK, CoverInvariant, FiniteCopies, FiniteCopies',
           TakeResolution, NEW segment \in Segment
    PROVE  Showable(segment)' <= Showable(segment)
<1>. USE DEF redisVars, listenerVars, resolverVars, liveVars
<1>1. PICK session, entry, names :
        /\ entry = pending[session]
        /\ session = Popped(resolutions).session
        /\ pending' = [pending EXCEPT ![session] = NoEntry]
        /\ \/ UNCHANGED resolverVars
           \/ /\ rpc' = "upsert"
              /\ hand' = [session |-> session, entry |-> entry,
                          names |-> names,
                          todo |-> NamedBy(names), left |-> {}]
  BY DEF TakeResolution
<1>2. /\ rpc = "idle"
      /\ UNCHANGED <<stream, cursor, pel, lpc, batch, showings>>
  BY DEF TakeResolution
<1>3. HandCopies(segment) = {}
  BY <1>2 DEF HandCopies
<1>4. session \in Session /\ SessionOf[segment] \in Session
  <2>1. Popped(resolutions) \in BrainResponse
    BY PopType DEF TakeResolution, TypeOK
  <2>. QED  BY <1>1, <2>1, SegmentAssumption DEF BrainResponse
<1>5. Awaited(segment)' => Awaited(segment)
  BY <1>2 DEF Awaited, Unhandled, Current, ToSet
<1>6. HandCopies(segment)' \subseteq
        {i \in DOMAIN pending[session].segments :
            pending[session].segments[i] = segment}
  BY <1>1, <1>2 DEF HandCopies
<1>7. CASE session # SessionOf[segment]
  <2>1. Copies(segment)' = Copies(segment)
    BY <1>1, <1>4, <1>7 DEF Copies, TypeOK
  <2>2. HandCopies(segment)' = {}
    BY <1>4, <1>6, <1>7
       DEF CoverInvariant, FingerprintsCoverSegments, CoveredBy
  <2>. QED  BY <1>2, <1>3, <1>5, <2>1, <2>2, FewerCopies
<1>8. CASE session = SessionOf[segment]
  <2>1. Copies(segment)' = {}
    BY <1>1, <1>4, <1>8 DEF Copies, TypeOK, NoEntry
  <2>2. HandCopies(segment)' \subseteq Copies(segment)
    BY <1>6, <1>8 DEF Copies
  <2>3. /\ Cardinality(HandCopies(segment)') <= Cardinality(Copies(segment))
        /\ Cardinality(Copies(segment)') = 0
        /\ Cardinality(HandCopies(segment)) = 0
    BY <1>3, <2>1, <2>2, FS_Subset, FS_EmptySet DEF FiniteCopies
  <2>4. /\ Cardinality(Copies(segment)) \in Nat
        /\ Cardinality(HandCopies(segment)') \in Nat
        /\ showings[segment] \in Nat
    BY DEF FiniteCopies
  <2>. QED  BY <1>2, <1>5, <2>3, <2>4 DEF Showable
<1>. QED  BY <1>7, <1>8

\* Showing a segment takes its copy out of the resolver's hands.
LEMMA ReplayKeepsBudget ==
    ASSUME InvariantsHold, FiniteCopies, FiniteCopies',
           ReplayBufferedSegment, NEW segment \in Segment
    PROVE  Showable(segment)' <= Showable(segment)
<1>. USE DEF redisVars, listenerVars, resolverVars, liveVars
<1>0. TypeOK
  BY DEF InvariantsHold, TypeInvariant
<1>1. PICK i \in hand.left, tag \in hand.todo :
        /\ Applying(tag)
        /\ Show(hand.entry.segments[i], hand.names[tag])
        /\ hand' = [hand EXCEPT !.left = @ \ {i}]
  BY DEF ReplayBufferedSegment, Replay
<1>2. /\ rpc = "replay"
      /\ UNCHANGED <<stream, cursor, pel, lpc, batch, pending, rpc>>
  BY DEF ReplayBufferedSegment
<1>3. /\ hand'.entry = hand.entry /\ hand'.todo = hand.todo
      /\ hand'.left = hand.left \ {i}
  BY <1>0, <1>1, <1>2, HandType DEF Hand
<1>. PICK other : other = hand.entry.segments[i]
  OBVIOUS
<1>4. /\ other \in Segment /\ TagOf[other] = tag
      /\ i \in DOMAIN hand.entry.segments
  <2>1. i \in DOMAIN hand.entry.segments /\ hand.entry.segments \in Seq(Segment)
    BY <1>0, <1>2, HandType DEF InvariantsHold, TypeInvariant, HandOK
  <2>2. TagOf[hand.entry.segments[i]] = tag
    BY <1>1, <1>2 DEF InvariantsHold, NamingInvariant, HandLearned
  <2>. QED  BY <2>1, <2>2
<1>5. /\ Awaited(segment)' => Awaited(segment)
      /\ Copies(segment)' = Copies(segment)
  BY <1>2 DEF Awaited, Unhandled, Current, ToSet, Copies
<1>6. HandCopies(segment)' \subseteq HandCopies(segment)
  BY <1>2, <1>3 DEF HandCopies, ToReplay, Applying
<1>7. CASE segment # other
  <2>1. showings'[segment] = showings[segment]
    BY <1>0, <1>1, <1>4, <1>7 DEF Show, TypeOK
  <2>. QED  BY <1>5, <1>6, <2>1, FewerCopies
<1>8. CASE segment = other
  <2>1. showings'[segment] = showings[segment] + 1
    BY <1>0, <1>1, <1>4, <1>8 DEF Show, TypeOK
  <2>2. i \in HandCopies(segment) /\ i \notin HandCopies(segment)'
    BY <1>1, <1>2, <1>3, <1>4, <1>8 DEF HandCopies, ToReplay, Applying
  <2>3. HandCopies(segment)' \subseteq HandCopies(segment) \ {i}
    BY <1>6, <2>2
  <2>4. Cardinality(HandCopies(segment)') <= Cardinality(HandCopies(segment)) - 1
    <3>1. /\ IsFiniteSet(HandCopies(segment) \ {i})
          /\ Cardinality(HandCopies(segment) \ {i})
                = Cardinality(HandCopies(segment)) - 1
      BY <2>2, FS_RemoveElement DEF FiniteCopies
    <3>. QED  BY <2>3, <3>1, FS_Subset
  <2>5. /\ Cardinality(Copies(segment)) \in Nat
        /\ Cardinality(HandCopies(segment)) \in Nat
        /\ Cardinality(HandCopies(segment)') \in Nat
        /\ showings[segment] \in Nat
    BY DEF FiniteCopies
  <2>. QED  BY <1>5, <2>1, <2>4, <2>5 DEF Showable
<1>. QED  BY <1>7, <1>8

\* The resolver moves copies from the entry to its hands and from there to
\* the live channel; it makes none.
LEMMA ResolverKeepsBudget ==
    ASSUME InvariantsHold, FiniteCopies, FiniteCopies', ResolverStep,
           NEW segment \in Segment
    PROVE  Showable(segment)' <= Showable(segment)
<1>. USE DEF redisVars, listenerVars, resolverVars, liveVars
<1>0. TypeOK /\ CoverInvariant
  BY DEF InvariantsHold, TypeInvariant
<1>1. CASE TakeResolution
  BY <1>0, <1>1, TakingKeepsBudget
<1>2. CASE ReplayBufferedSegment
  BY <1>2, ReplayKeepsBudget
<1>3. CASE \/ SkipUnprinted \/ UpsertVoiceIdentity \/ EmitIdentityResolved
           \/ ReplayDone \/ UpsertRefused \/ ResolutionApplied
  <2>1. UNCHANGED <<stream, cursor, pel, lpc, batch, pending, showings>>
    BY <1>3 DEF SkipUnprinted, UpsertVoiceIdentity, EmitIdentityResolved,
                ReplayDone, UpsertRefused, ResolutionApplied, Announce
  <2>2. HandCopies(segment)' \subseteq HandCopies(segment)
    <3>1. CASE UpsertRefused \/ ResolutionApplied
      BY <3>1 DEF UpsertRefused, ResolutionApplied, BackToIdle, HandCopies
    <3>2. CASE UpsertVoiceIdentity
      BY <3>2 DEF UpsertVoiceIdentity, HandCopies, ToReplay
    <3>3. CASE EmitIdentityResolved
      <4>1. rpc = "announce" /\ hand'.entry = hand.entry /\ hand'.todo = hand.todo
        BY <1>0, <3>3, HandType DEF EmitIdentityResolved, Hand
      <4>. QED  BY <4>1 DEF HandCopies, ToReplay
    <3>4. CASE SkipUnprinted
      <4>1. /\ rpc = "upsert" /\ hand'.entry = hand.entry
            /\ hand'.todo \subseteq hand.todo
        BY <1>0, <3>4, HandType DEF SkipUnprinted, Hand
      <4>. QED  BY <4>1 DEF HandCopies, ToReplay
    <3>5. CASE ReplayDone
      <4>1. PICK tag \in hand.todo :
              /\ Applying(tag)
              /\ hand' = [hand EXCEPT !.todo = @ \ {tag}]
        BY <3>5 DEF ReplayDone
      <4>2. rpc = "replay" /\ rpc' = "upsert"
        BY <3>5 DEF ReplayDone
      <4>3. hand'.entry = hand.entry /\ hand'.todo = hand.todo \ {tag}
        BY <1>0, <4>1, <4>2, HandType DEF Hand
      <4>4. \A other \in hand.todo \ {tag} : ~Applying(other)
        BY <1>0, <4>1, <4>2, OneApplying
      <4>. QED  BY <4>2, <4>3, <4>4 DEF HandCopies, ToReplay
    <3>. QED  BY <1>3, <3>1, <3>2, <3>3, <3>4, <3>5
  <2>. QED  BY <2>1, <2>2, FewerCopies
            DEF Awaited, Unhandled, Current, ToSet, Copies
<1>. QED  BY <1>1, <1>2, <1>3 DEF ResolverStep

\* What the listener shows or buffers it has no longer to come to.
LEMMA ListenerKeepsBudget ==
    ASSUME TypeOK, TypeOK', StreamHasNoRepeats, FiniteCopies, FiniteCopies',
           ListenerStep, NEW segment \in Segment
    PROVE  Showable(segment)' <= Showable(segment)
<1>. USE DEF redisVars, listenerVars, resolverVars, liveVars
<1>1. /\ UNCHANGED <<stream, rpc, hand>>
      /\ Awaited(segment)' => Awaited(segment)
      /\ HandCopies(segment)' = HandCopies(segment)
  <2>1. UNCHANGED <<stream, rpc, hand>>
    BY OnlyResolverMovesHand
       DEF ListenerStep, ReadPending, ReadNew, DeliverNew, DecodeFails,
           MatchVoice, EmitFinalTranscript, BufferUnknownSegment, Acknowledge
  <2>. QED  BY <2>1, ListenerAwaitsNoMore
            DEF Awaited, ToSet, HandCopies, ToReplay, Applying
<1>2. /\ Cardinality(Copies(segment)) \in Nat
      /\ Cardinality(HandCopies(segment)) \in Nat
      /\ showings[segment] \in Nat
  BY DEF FiniteCopies
\* The segment at hand, and no other, is no longer awaited.
<1>3. ASSUME NEW id \in batch, Current(id), stream[id] = segment,
             lpc = "emit" \/ lpc = "buffer", lpc' = "ack",
             UNCHANGED <<cursor, pel, batch>>
      PROVE  Awaited(segment) /\ ~Awaited(segment)'
  <2>1. id \in DOMAIN stream /\ id \in pel
    BY CurrentType
  <2>2. Unhandled(segment) /\ segment \in ToSet(stream)
    BY <1>3, <2>1 DEF Unhandled, ToSet
  <2>3. \A k \in DOMAIN stream : stream[k] = segment => k = id
    BY <1>3, <2>1 DEF StreamHasNoRepeats
  <2>4. ~Unhandled(segment)'
    BY <1>1, <1>3, <2>3 DEF Unhandled, Current
  <2>. QED  BY <1>1, <2>2, <2>4 DEF Awaited, ToSet
<1>4. CASE EmitFinalTranscript
  <2>1. PICK id \in batch : Current(id) /\ Show(stream[id], named)
    BY <1>4 DEF EmitFinalTranscript
  <2>2. Copies(segment)' = Copies(segment)
    BY <1>4 DEF EmitFinalTranscript, Copies
  <2>3. CASE stream[id] # segment
    <3>1. showings'[segment] = showings[segment]
      BY <2>1, <2>3, CurrentType DEF Show, TypeOK
    <3>. QED  BY <1>1, <2>2, <3>1, FewerCopies
  <2>4. CASE stream[id] = segment
    <3>1. showings'[segment] = showings[segment] + 1
      BY <2>1, <2>4 DEF Show, TypeOK
    <3>2. Awaited(segment) /\ ~Awaited(segment)'
      BY <1>3, <1>4, <2>1, <2>4 DEF EmitFinalTranscript
    <3>. QED  BY <1>1, <1>2, <2>2, <3>1, <3>2 DEF Showable
  <2>. QED  BY <2>3, <2>4
<1>5. CASE BufferUnknownSegment
  <2>1. PICK id \in batch :
          /\ Current(id)
          /\ stream[id] # segment => Copies(segment)' = Copies(segment)
          /\ stream[id] = segment =>
                Cardinality(Copies(segment)') = Cardinality(Copies(segment)) + 1
    BY <1>5, BufferingCopies
  <2>2. UNCHANGED showings
    BY <1>5 DEF BufferUnknownSegment
  <2>3. CASE stream[id] # segment
    BY <1>1, <2>1, <2>2, <2>3, FewerCopies
  <2>4. CASE stream[id] = segment
    <3>1. Awaited(segment) /\ ~Awaited(segment)'
      BY <1>3, <1>5, <2>1, <2>4 DEF BufferUnknownSegment
    <3>. QED  BY <1>1, <1>2, <2>1, <2>2, <2>4, <3>1 DEF Showable
  <2>. QED  BY <2>3, <2>4
<1>6. CASE ReadPending \/ ReadNew \/ DecodeFails \/ MatchVoice \/ Acknowledge
  <2>1. UNCHANGED <<pending, showings>>
    BY <1>6 DEF ReadPending, ReadNew, DeliverNew, DecodeFails, MatchVoice,
                Acknowledge
  <2>. QED  BY <1>1, <2>1, FewerCopies DEF Copies
<1>. QED  BY <1>4, <1>5, <1>6 DEF ListenerStep

\* A failure or a restart makes the segment shown, buffered or awaited once
\* more, and never more than one of these.
LEMMA FailureCostsOne ==
    ASSUME TypeOK, TypeOK', HandOK, FiniteCopies, FiniteCopies',
           \/ ListenerFault \/ ResolverFault \/ BrainFault
           \/ ControllerRestarts,
           NEW segment \in Segment
    PROVE  Showable(segment)' <= Showable(segment) + 1
<1>. USE DEF redisVars, listenerVars, resolverVars, liveVars
<1>1. /\ Cardinality(Copies(segment)) \in Nat
      /\ Cardinality(HandCopies(segment)) \in Nat
      /\ showings[segment] \in Nat
  BY DEF FiniteCopies
<1>2. ASSUME UNCHANGED <<pending, showings>>,
             UNCHANGED <<rpc, hand>> \/ rpc' = "idle"
      PROVE  Showable(segment)' <= Showable(segment) + 1
  <2>1. Copies(segment)' = Copies(segment)
    BY <1>2 DEF Copies
  <2>2. Cardinality(HandCopies(segment)') <= Cardinality(HandCopies(segment))
    <3>1. CASE UNCHANGED <<rpc, hand>>
      BY <1>1, <3>1 DEF HandCopies, ToReplay, Applying
    <3>2. CASE rpc' = "idle"
      BY <1>1, <3>2, FS_EmptySet DEF HandCopies
    <3>. QED  BY <1>2, <3>1, <3>2
  <2>3. Cardinality(HandCopies(segment)') \in Nat
    BY DEF FiniteCopies
  <2>. QED  BY <1>1, <1>2, <2>1, <2>2, <2>3 DEF Showable
<1>3. CASE ListenerCallFails \/ ReadReplyLost \/ AckReplyLost
  BY <1>2, <1>3 DEF ListenerCallFails, ReadReplyLost, DeliverNew, AckReplyLost
<1>4. CASE ResolutionLost \/ ResolverCallFails
  BY <1>2, <1>4 DEF ResolutionLost, ResolverCallFails, BackToIdle
<1>5. CASE BrainFault
  BY <1>2, <1>5 DEF BrainFault
<1>6. CASE ControllerRestarts
  <2>1. Cardinality(Copies(segment)') = 0
    <3>1. Copies(segment)' = {}
      BY <1>6, SegmentAssumption DEF ControllerRestarts, Copies, NoEntry
    <3>. QED  BY <3>1, FS_EmptySet
  <2>2. Cardinality(HandCopies(segment)') = 0
    BY <1>6, FS_EmptySet DEF ControllerRestarts, BackToIdle, HandCopies
  <2>3. UNCHANGED showings
    BY <1>6 DEF ControllerRestarts
  <2>. QED  BY <1>1, <2>1, <2>2, <2>3 DEF Showable
\* Shown, and not acknowledged.
<1>7. ASSUME NEW other \in Segment, NEW name, Show(other, name),
             UNCHANGED <<stream, pending>>,
             Unhandled(segment)' => Unhandled(segment),
             UNCHANGED <<rpc, hand>> \/ rpc' = "idle"
      PROVE  Showable(segment)' <= Showable(segment) + 1
  <2>1. Copies(segment)' = Copies(segment)
    BY <1>7 DEF Copies
  <2>2. Cardinality(HandCopies(segment)') <= Cardinality(HandCopies(segment))
    <3>1. CASE UNCHANGED <<rpc, hand>>
      BY <1>1, <3>1 DEF HandCopies, ToReplay, Applying
    <3>2. CASE rpc' = "idle"
      BY <1>1, <3>2, FS_EmptySet DEF HandCopies
    <3>. QED  BY <1>7, <3>1, <3>2
  <2>3. Cardinality(HandCopies(segment)') \in Nat
    BY DEF FiniteCopies
  <2>4. showings'[segment] <= showings[segment] + 1 /\ showings'[segment] \in Nat
    BY <1>7 DEF Show, TypeOK
  <2>5. Awaited(segment)' => Awaited(segment)
    BY <1>7 DEF Awaited, ToSet
  <2>. QED  BY <1>1, <2>1, <2>2, <2>3, <2>4, <2>5 DEF Showable
<1>8. CASE EmitReplyLost
  <2>1. PICK id \in batch : Show(stream[id], named)
    BY <1>8 DEF EmitReplyLost
  <2>2. Unhandled(segment)' => Unhandled(segment)
    BY <1>8 DEF EmitReplyLost, Unhandled
  <2>. QED  BY <1>7, <1>8, <2>1, <2>2, CurrentType DEF EmitReplyLost
<1>9. CASE ResolverReplyLost
  <2>1. /\ UNCHANGED <<stream, cursor, pel, lpc, batch, pending>>
        /\ rpc' = "idle" /\ rpc # "idle"
    BY <1>9 DEF ResolverReplyLost, BackToIdle
  <2>2. CASE rpc = "replay"
    <3>1. PICK i \in hand.left, tag \in hand.todo :
            Show(hand.entry.segments[i], hand.names[tag])
      BY <1>9, <2>2 DEF ResolverReplyLost, Replay
    <3>2. hand.entry.segments[i] \in Segment
      BY <2>1, <2>2, HandType DEF HandOK
    <3>3. Unhandled(segment)' => Unhandled(segment)
      BY <2>1 DEF Unhandled, Current
    <3>. QED  BY <1>7, <2>1, <3>1, <3>2, <3>3
  <2>3. CASE rpc # "replay"
    BY <1>2, <1>9, <2>1, <2>3 DEF ResolverReplyLost, Announce
  <2>. QED  BY <2>2, <2>3
<1>10. CASE DispatchFails
  <2>1. PICK id \in batch :
          /\ stream[id] # segment => Copies(segment)' = Copies(segment)
          /\ stream[id] = segment =>
                Cardinality(Copies(segment)') = Cardinality(Copies(segment)) + 1
    BY <1>10, BufferingCopies
  <2>2. Cardinality(Copies(segment)') <= Cardinality(Copies(segment)) + 1
    BY <1>1, <2>1
  <2>3. /\ HandCopies(segment)' = HandCopies(segment)
        /\ Awaited(segment)' => Awaited(segment)
        /\ UNCHANGED showings
    BY <1>10 DEF DispatchFails, HandCopies, ToReplay, Applying, Awaited,
                 Unhandled, ToSet
  <2>4. Cardinality(Copies(segment)') \in Nat
    BY DEF FiniteCopies
  <2>. QED  BY <1>1, <2>2, <2>3, <2>4 DEF Showable
<1>. QED  BY <1>3, <1>4, <1>5, <1>6, <1>8, <1>9, <1>10
          DEF ListenerFault, ResolverFault

LEMMA NextKeepsBudget ==
    InvariantsHold /\ StreamHasNoRepeats /\ BudgetInvariant /\ [Next]_vars
        => BudgetInvariant'
<1>. SUFFICES ASSUME InvariantsHold, StreamHasNoRepeats, BudgetInvariant,
                     [Next]_vars, NEW segment \in Segment
              PROVE  Showable(segment)' <= 1 + faults'
  BY DEF BudgetInvariant
<1>. USE DEF redisVars, listenerVars, resolverVars, liveVars
<1>1. TypeOK /\ HandOK /\ TypeOK'
  BY NextKeepsTypes DEF InvariantsHold, TypeInvariant
<1>2. TypeOK' => FiniteCopies'
  BY TypesGiveFiniteCopies, PTL
<1>3. FiniteCopies /\ FiniteCopies'
  BY <1>1, <1>2, TypesGiveFiniteCopies
<1>4. /\ Showable(segment) <= 1 + faults
      /\ Showable(segment) \in Nat /\ Showable(segment)' \in Nat
      /\ faults \in Nat
  BY <1>3 DEF BudgetInvariant, FiniteCopies, Showable
<1>5. ASSUME Showable(segment)' <= Showable(segment), UNCHANGED faults
      PROVE  Showable(segment)' <= 1 + faults'
  BY <1>4, <1>5
<1>6. CASE ListenerStep
  <2>1. UNCHANGED faults
    BY <1>6 DEF ListenerStep, ReadPending, ReadNew, DecodeFails, MatchVoice,
                EmitFinalTranscript, BufferUnknownSegment, Acknowledge
  <2>. QED  BY <1>1, <1>3, <1>5, <1>6, <2>1, ListenerKeepsBudget
<1>7. CASE ResolverStep
  <2>1. UNCHANGED faults
    BY <1>7 DEF ResolverStep, TakeResolution, SkipUnprinted,
         UpsertVoiceIdentity, EmitIdentityResolved, ReplayBufferedSegment,
         ReplayDone, UpsertRefused, ResolutionApplied
  <2>. QED  BY <1>3, <1>5, <1>7, <2>1, ResolverKeepsBudget
<1>8. CASE ListenerFault \/ ResolverFault \/ BrainFault \/ ControllerRestarts
  <2>1. faults' = faults + 1
    BY <1>8
       DEF ListenerFault, ListenerCallFails, ReadReplyLost, EmitReplyLost,
           DispatchFails, AckReplyLost, ResolverFault, ResolutionLost,
           ResolverCallFails, ResolverReplyLost, BrainFault,
           ControllerRestarts, Fault
  <2>2. Showable(segment)' <= Showable(segment) + 1
    BY <1>1, <1>3, <1>8, FailureCostsOne
  <2>. QED  BY <1>4, <2>1, <2>2
<1>9. ASSUME UNCHANGED <<pending, rpc, hand, showings, faults>>,
             Awaited(segment)' => Awaited(segment)
      PROVE  Showable(segment)' <= 1 + faults'
  BY <1>3, <1>5, <1>9, FewerCopies DEF Copies, HandCopies, ToReplay, Applying
<1>10. CASE BrainStep \/ UNCHANGED vars
  <2>1. UNCHANGED <<stream, cursor, pel, lpc, batch>>
    BY <1>10 DEF BrainStep, TakeRequest, AnswerRequest, vars
  <2>. QED  BY <1>9, <1>10, <2>1
            DEF BrainStep, TakeRequest, AnswerRequest, vars, Awaited,
                Unhandled, Current, ToSet
<1>11. ASSUME NEW new \in Segment, Publish(new)
       PROVE  Showable(segment)' <= 1 + faults'
  <2>1. /\ stream' = Append(stream, new) /\ stream \in Seq(Segment)
        /\ UNCHANGED <<cursor, pel, lpc, batch>>
    BY <1>1, <1>11 DEF Publish, TypeOK
  <2>2. /\ DOMAIN stream' = DOMAIN stream \union {Len(stream) + 1}
        /\ \A id \in DOMAIN stream : stream'[id] = stream[id]
        /\ stream'[Len(stream) + 1] = new
    BY <2>1
  <2>3. Awaited(segment)' => Awaited(segment)
    <3>1. CASE segment = new
      BY <1>11, <3>1 DEF Publish, Awaited
    <3>2. CASE segment # new
      <4>1. segment \in ToSet(stream) => segment \in ToSet(stream')
        BY <2>2 DEF ToSet
      <4>2. Unhandled(segment)' => Unhandled(segment)
        BY <2>1, <2>2, <3>2 DEF Unhandled, Current
      <4>. QED  BY <4>1, <4>2 DEF Awaited, ToSet
    <3>. QED  BY <3>1, <3>2
  <2>. QED  BY <1>9, <1>11, <2>3 DEF Publish
<1>. QED  BY <1>6, <1>7, <1>8, <1>10, <1>11 DEF Next

LEMMA InitBudget == Init => BudgetInvariant
<1>. SUFFICES ASSUME Init, NEW segment \in Segment
              PROVE  Showable(segment) <= 1 + faults
  BY DEF BudgetInvariant
<1>1. Copies(segment) = {} /\ HandCopies(segment) = {}
  BY SegmentAssumption DEF Init, StateInit, Copies, HandCopies, NoEntry
<1>2. showings[segment] = 0 /\ faults = 0
  BY DEF Init, StateInit
<1>. QED  BY <1>1, <1>2, FS_EmptySet DEF Showable

\* A user sees a segment at most once more than calls failed and controllers
\* restarted: the listener's fast path, the buffer and the replay never show
\* one twice among themselves, however they interleave (handle_stream_id,
\* replay_buffered_segments).
THEOREM DuplicatesTakeFailures == Spec => []DuplicatesNeedFaults
<1>1. TypeOK /\ BudgetInvariant => DuplicatesNeedFaults
  <2>. SUFFICES ASSUME TypeOK, BudgetInvariant, NEW segment \in Segment
                PROVE  showings[segment] <= 1 + faults
    BY DEF DuplicatesNeedFaults
  <2>1. FiniteCopies /\ Showable(segment) <= 1 + faults
    BY TypesGiveFiniteCopies DEF BudgetInvariant
  <2>. QED  BY <2>1 DEF FiniteCopies, Showable
<1>. QED  BY <1>1, InitBudget, NextKeepsBudget, BufferOrderHolds, NamingHolds,
             TypeCorrect, PTL DEF Spec

-----------------------------------------------------------------------------
(* The mark of a session says whether the brain is asked *)

\* How many payloads of a list are a session's.
Count(list, session) == Cardinality(Positions(list, session))

LEMMA CountType ==
    ASSUME NEW S, NEW list \in Seq(S), NEW session
    PROVE  /\ IsFiniteSet(Positions(list, session))
           /\ Count(list, session) \in Nat
<1>1. IsFiniteSet(1..Len(list)) /\ DOMAIN list = 1..Len(list)
  BY FS_Interval
<1>2. IsFiniteSet(Positions(list, session))
  BY <1>1, FS_Subset DEF Positions
<1>. QED  BY <1>2, FS_CardinalityType DEF Count

\* A push adds its payload to the count of the payload's session ...
LEMMA CountAfterRPush ==
    ASSUME NEW S, NEW list \in Seq(S), NEW payload \in S, NEW session
    PROVE  Count(RPush(list, payload), session) =
              Count(list, session) + (IF payload.session = session THEN 1 ELSE 0)
<1>. PICK longer : longer = RPush(list, payload)
  OBVIOUS
<1>1. /\ DOMAIN longer = DOMAIN list \union {Len(list) + 1}
      /\ \A i \in DOMAIN list : longer[i] = list[i]
      /\ longer[Len(list) + 1] = payload
      /\ Len(list) + 1 \notin DOMAIN list
  BY AppendShape DEF RPush
<1>2. CASE payload.session = session
  <2>1. /\ Positions(longer, session) =
              Positions(list, session) \union {Len(list) + 1}
        /\ Len(list) + 1 \notin Positions(list, session)
    BY <1>1, <1>2 DEF Positions
  <2>. QED  BY <1>2, <2>1, CountType, FS_AddElement DEF Count
<1>3. CASE payload.session # session
  <2>1. Positions(longer, session) = Positions(list, session)
    BY <1>1, <1>3 DEF Positions
  <2>. QED  BY <1>3, <2>1, CountType DEF Count
<1>. QED  BY <1>2, <1>3

\* ... at either end ...
LEMMA CountAfterLPush ==
    ASSUME NEW S, NEW list \in Seq(S), NEW payload \in S, NEW session
    PROVE  Count(LPush(list, payload), session) =
              Count(list, session) + (IF payload.session = session THEN 1 ELSE 0)
<1>. PICK longer : longer = LPush(list, payload)
  OBVIOUS
<1>1. /\ DOMAIN longer = 1..(Len(list) + 1)
      /\ \A i \in DOMAIN list : longer[i + 1] = list[i]
      /\ longer[1] = payload
      /\ DOMAIN list = 1..Len(list) /\ Len(list) \in Nat
  BY DEF LPush, Cons
<1> DEFINE shifted == {i + 1 : i \in Positions(list, session)}
           shift   == [i \in Positions(list, session) |-> i + 1]
<1>2. /\ IsFiniteSet(shifted)
      /\ Cardinality(shifted) = Count(list, session)
  <2>1. \A i \in Positions(list, session) : i \in Int
    BY <1>1 DEF Positions
  <2>2. shift \in Bijection(Positions(list, session), shifted)
    <3>1. shift \in [Positions(list, session) -> shifted]
      OBVIOUS
    <3>2. \A i, j \in Positions(list, session) : shift[i] = shift[j] => i = j
      BY <2>1
    <3>3. \A k \in shifted : \E i \in Positions(list, session) : shift[i] = k
      OBVIOUS
    <3>. HIDE DEF shift, shifted
    <3>. QED  BY <3>1, <3>2, <3>3 DEF Bijection, Injection, Surjection, IsInjective
  <2>3. ExistsBijection(Positions(list, session), shifted)
    BY <2>2 DEF ExistsBijection
  <2>. HIDE DEF shifted, shift
  <2>. QED  BY <2>3, CountType, FS_Bijection DEF Count
<1>3. 1 \notin shifted
  BY <1>1 DEF Positions
<1>4. Positions(longer, session) =
        IF payload.session = session THEN shifted \union {1} ELSE shifted
  <2>1. \A k \in DOMAIN longer : k = 1 \/ k - 1 \in DOMAIN list
    BY <1>1
  <2>2. \A k \in DOMAIN longer \ {1} : longer[k] = list[k - 1]
    BY <1>1
  <2>3. Positions(longer, session) \ {1} = shifted
    BY <1>1, <2>1, <2>2 DEF Positions
  <2>4. 1 \in Positions(longer, session) <=> payload.session = session
    BY <1>1 DEF Positions
  <2>. HIDE DEF shifted
  <2>. QED  BY <1>3, <2>3, <2>4
<1>. HIDE DEF shifted
<1>5. CASE payload.session = session
  <2>1. Cardinality(shifted \union {1}) = Cardinality(shifted) + 1
    BY <1>2, <1>3, FS_AddElement
  <2>. QED  BY <1>2, <1>4, <1>5, <2>1 DEF Count
<1>6. CASE payload.session # session
  BY <1>2, <1>4, <1>6, CountType DEF Count
<1>. QED  BY <1>5, <1>6

\* ... and a pop takes it off again.
LEMMA CountAfterPop ==
    ASSUME NEW S, NEW list \in Seq(S), list # <<>>, NEW session
    PROVE  Count(list, session) =
              Count(AfterPop(list), session)
              + (IF Popped(list).session = session THEN 1 ELSE 0)
<1>. PICK shorter \in Seq(S), last \in S :
        shorter = AfterPop(list) /\ last = Popped(list)
  BY PopType
<1>1. list = RPush(shorter, last)
  BY DEF RPush, AfterPop, Popped, Front, Last
<1>. QED  BY <1>1, CountAfterRPush

\* The brain's job counts for its session.
JobCount(session) ==
    IF brainJob # NoJob /\ brainJob.session = session THEN 1 ELSE 0

LEMMA UnderWayIs ==
    ASSUME TypeOK, NEW session
    PROVE  /\ UnderWay(session) = Count(brainQueue, session)
                  + Count(resolutions, session) + JobCount(session)
           /\ Count(brainQueue, session) \in Nat
           /\ Count(resolutions, session) \in Nat
           /\ JobCount(session) \in Nat
BY CountType DEF UnderWay, Count, JobCount, TypeOK

\* A step that leaves the marks and what is under way leaves the property.
LEMMA SameUnderWay ==
    ASSUME RequestedIffUnderWay, UNCHANGED faults,
           \A session \in Session :
              /\ UnderWay(session)' = UnderWay(session)
              /\ pending'[session].requested = pending[session].requested
    PROVE  RequestedIffUnderWay'
BY DEF RequestedIffUnderWay

\* The mark is set with the request, under the same lock.
LEMMA BufferingKeepsMarks ==
    ASSUME TypeOK, TypeOK', RequestedIffUnderWay, BufferUnknownSegment
    PROVE  RequestedIffUnderWay'
<1>1. PICK id \in batch :
        LET own  == SessionOf[stream[id]]
            with == WithSegment(pending[own], stream[id]) IN
        \/ /\ pending' = [pending EXCEPT ![own] = with]
           /\ UNCHANGED brainQueue
        \/ /\ WantsBrain(with)
           /\ pending' = [pending EXCEPT ![own] = MarkRequested(with)]
           /\ brainQueue' = RPush(brainQueue,
                                  Requests(own, Fingerprinted(with)))
  BY DEF BufferUnknownSegment
<1>. PICK own \in Session : own = SessionOf[stream[id]]
  BY CurrentType
<1>2. PICK with \in PendingSession :
        /\ with = WithSegment(pending[own], stream[id])
        /\ MarkRequested(with) \in PendingSession
  BY BufferType
<1>3. /\ with.requested = pending[own].requested
      /\ MarkRequested(with).requested = TRUE
  BY <1>2 DEF WithSegment, MarkRequested, PendingSession
<1>4. UNCHANGED <<resolutions, brainJob, faults>>
  BY DEF BufferUnknownSegment
<1>5. pending \in [Session -> PendingSession]
  BY DEF TypeOK
<1>6. CASE /\ pending' = [pending EXCEPT ![own] = with]
           /\ UNCHANGED brainQueue
  <2>1. \A session \in Session :
          /\ UnderWay(session)' = UnderWay(session)
          /\ pending'[session].requested = pending[session].requested
    BY <1>3, <1>4, <1>5, <1>6 DEF UnderWay
  <2>. QED  BY <1>4, <2>1, SameUnderWay
<1>7. ASSUME NEW request \in BrainRequest, request.session = own,
             WantsBrain(with),
             pending' = [pending EXCEPT ![own] = MarkRequested(with)],
             brainQueue' = RPush(brainQueue, request)
      PROVE  RequestedIffUnderWay'
  <2>. SUFFICES ASSUME faults = 0, NEW session \in Session
                PROVE  UnderWay(session)' =
                          IF pending'[session].requested THEN 1 ELSE 0
    BY <1>4 DEF RequestedIffUnderWay
  <2>1. UnderWay(session) = IF pending[session].requested THEN 1 ELSE 0
    BY DEF RequestedIffUnderWay
  <2>2. Count(brainQueue', session) =
          Count(brainQueue, session) + (IF own = session THEN 1 ELSE 0)
    BY <1>7, CountAfterRPush DEF TypeOK
  <2>3. /\ UnderWay(session) = Count(brainQueue, session)
               + Count(resolutions, session) + JobCount(session)
        /\ Count(brainQueue, session) \in Nat
        /\ Count(resolutions, session) \in Nat
        /\ JobCount(session) \in Nat
    BY UnderWayIs
  <2>4. UnderWay(session)' = Count(brainQueue', session)
               + Count(resolutions, session) + JobCount(session)
    BY <1>4 DEF UnderWay, Count, JobCount
  <2>5. CASE session = own
    <3>1. ~pending[own].requested
      BY <1>3, <1>7 DEF WantsBrain
    <3>2. pending'[own].requested = TRUE
      BY <1>3, <1>5, <1>7
    <3>. QED  BY <2>1, <2>2, <2>3, <2>4, <2>5, <3>1, <3>2
  <2>6. CASE session # own
    <3>1. pending'[session].requested = pending[session].requested
      BY <1>5, <1>7, <2>6
    <3>. QED  BY <2>1, <2>2, <2>3, <2>4, <2>6, <3>1
  <2>. QED  BY <2>5, <2>6
<1>8. /\ Requests(own, Fingerprinted(with)) \in BrainRequest
      /\ Requests(own, Fingerprinted(with)).session = own
  BY RequestsType DEF Requests
<1>. QED  BY <1>1, <1>2, <1>6, <1>7, <1>8

\* The answer's arrival takes the mark away with the entry.
LEMMA TakingKeepsMarks ==
    ASSUME TypeOK, RequestedIffUnderWay, TakeResolution
    PROVE  RequestedIffUnderWay'
<1>. PICK own : own = Popped(resolutions).session
  OBVIOUS
<1>1. /\ resolutions # <<>> /\ resolutions' = AfterPop(resolutions)
      /\ pending' = [pending EXCEPT ![own] = NoEntry]
      /\ UNCHANGED <<brainQueue, brainJob, faults>>
  BY DEF TakeResolution
<1>. SUFFICES ASSUME faults = 0, NEW session \in Session
              PROVE  UnderWay(session)' =
                        IF pending'[session].requested THEN 1 ELSE 0
  BY <1>1 DEF RequestedIffUnderWay
<1>2. UnderWay(session) = IF pending[session].requested THEN 1 ELSE 0
  BY DEF RequestedIffUnderWay
<1>3. /\ Count(resolutions, session) =
            Count(resolutions', session) + (IF own = session THEN 1 ELSE 0)
      /\ Count(resolutions', session) \in Nat
  BY <1>1, CountAfterPop, PopType, CountType DEF TypeOK
<1>4. /\ UnderWay(session) = Count(brainQueue, session)
             + Count(resolutions, session) + JobCount(session)
      /\ Count(brainQueue, session) \in Nat
      /\ Count(resolutions, session) \in Nat
      /\ JobCount(session) \in Nat
  BY UnderWayIs
<1>5. UnderWay(session)' = Count(brainQueue, session)
             + Count(resolutions', session) + JobCount(session)
  BY <1>1 DEF UnderWay, Count, JobCount
<1>6. CASE session = own
  <2>1. pending'[session].requested = FALSE
    BY <1>1, <1>6 DEF TypeOK, NoEntry
  <2>. QED  BY <1>2, <1>3, <1>4, <1>5, <1>6, <2>1
<1>7. CASE session # own
  <2>1. pending'[session] = pending[session]
    BY <1>1, <1>7 DEF TypeOK
  <2>. QED  BY <1>2, <1>3, <1>4, <1>5, <1>7, <2>1
<1>. QED  BY <1>6, <1>7

\* The brain turns a request into one answer for the same session, unless a
\* command answers.
LEMMA BrainKeepsUnderWay ==
    ASSUME TypeOK, ~CommandBackend, BrainStep, NEW session
    PROVE  UnderWay(session)' = UnderWay(session)
<1>1. /\ UnderWay(session) = Count(brainQueue, session)
             + Count(resolutions, session) + JobCount(session)
      /\ Count(brainQueue, session) \in Nat
      /\ Count(resolutions, session) \in Nat
      /\ JobCount(session) \in Nat
  BY UnderWayIs
<1>2. UnderWay(session)' = Count(brainQueue', session)
             + Count(resolutions', session) + JobCount(session)'
  BY DEF UnderWay, Count, JobCount
<1>3. \A request \in BrainRequest : request # NoJob
  BY DEF BrainRequest, NoJob
<1>4. CASE TakeRequest
  <2>1. /\ brainJob = NoJob /\ brainJob' = Popped(brainQueue)
        /\ brainQueue # <<>> /\ brainQueue' = AfterPop(brainQueue)
        /\ UNCHANGED resolutions
    BY <1>4 DEF TakeRequest
  <2>2. /\ Count(brainQueue, session) = Count(brainQueue', session)
              + (IF brainJob'.session = session THEN 1 ELSE 0)
        /\ Count(brainQueue', session) \in Nat
        /\ brainJob' \in BrainRequest
    BY <2>1, CountAfterPop, PopType, CountType DEF TypeOK
  <2>3. JobCount(session) = 0
    BY <2>1 DEF JobCount
  <2>4. JobCount(session)' = IF brainJob'.session = session THEN 1 ELSE 0
    BY <1>3, <2>2 DEF JobCount
  <2>. QED  BY <1>1, <1>2, <2>1, <2>2, <2>3, <2>4
<1>5. CASE AnswerRequest
  <2>1. PICK response \in MayAnswer(brainJob) :
          resolutions' = LPush(resolutions, response)
    BY <1>5 DEF AnswerRequest
  <2>2. /\ response \in BrainResponse
        /\ response.session = brainJob.session
    BY AnswersAssumption DEF MayAnswer, BrainResponse
  <2>3. brainJob # NoJob /\ brainJob' = NoJob /\ UNCHANGED brainQueue
    BY <1>5 DEF AnswerRequest
  <2>4. Count(resolutions', session) = Count(resolutions, session)
            + (IF brainJob.session = session THEN 1 ELSE 0)
    BY <2>1, <2>2, CountAfterLPush DEF TypeOK
  <2>5. /\ JobCount(session) = IF brainJob.session = session THEN 1 ELSE 0
        /\ JobCount(session)' = 0
    BY <2>3 DEF JobCount
  <2>. QED  BY <1>1, <1>2, <2>3, <2>4, <2>5
<1>. QED  BY <1>4, <1>5 DEF BrainStep

LEMMA NextKeepsMarks ==
    ASSUME ~CommandBackend
    PROVE  TypeInvariant /\ RequestedIffUnderWay /\ [Next]_vars
               => RequestedIffUnderWay'
<1>. SUFFICES ASSUME TypeInvariant, RequestedIffUnderWay, [Next]_vars
              PROVE  RequestedIffUnderWay'
  OBVIOUS
<1>. USE DEF redisVars, listenerVars, resolverVars, liveVars
<1>0. TypeOK /\ TypeOK'
  BY NextKeepsTypes DEF TypeInvariant
<1>1. ASSUME UNCHANGED <<brainQueue, resolutions, brainJob, pending, faults>>
      PROVE  RequestedIffUnderWay'
  BY <1>1, SameUnderWay DEF UnderWay
<1>2. CASE BufferUnknownSegment
  BY <1>0, <1>2, BufferingKeepsMarks
<1>3. CASE TakeResolution
  BY <1>0, <1>3, TakingKeepsMarks
<1>4. CASE BrainStep
  BY <1>0, <1>4, BrainKeepsUnderWay, SameUnderWay
     DEF BrainStep, TakeRequest, AnswerRequest
<1>5. CASE \/ ReadPending \/ ReadNew \/ DecodeFails \/ MatchVoice
           \/ EmitFinalTranscript \/ Acknowledge
  BY <1>1, <1>5 DEF ReadPending, ReadNew, DeliverNew, DecodeFails, MatchVoice,
                    EmitFinalTranscript, Acknowledge
<1>6. CASE \/ SkipUnprinted \/ UpsertVoiceIdentity \/ EmitIdentityResolved
           \/ ReplayBufferedSegment \/ ReplayDone \/ UpsertRefused
           \/ ResolutionApplied
  BY <1>1, <1>6 DEF SkipUnprinted, UpsertVoiceIdentity, EmitIdentityResolved,
                    ReplayBufferedSegment, ReplayDone, UpsertRefused,
                    ResolutionApplied
<1>7. CASE ListenerFault \/ ResolverFault \/ BrainFault \/ ControllerRestarts
  <2>1. faults' # 0
    BY <1>0, <1>7
       DEF ListenerFault, ListenerCallFails, ReadReplyLost, EmitReplyLost,
           DispatchFails, AckReplyLost, ResolverFault, ResolutionLost,
           ResolverCallFails, ResolverReplyLost, BrainFault,
           ControllerRestarts, Fault, TypeOK
  <2>. QED  BY <2>1 DEF RequestedIffUnderWay
<1>8. ASSUME NEW segment \in Segment, Publish(segment)
      PROVE  RequestedIffUnderWay'
  BY <1>1, <1>8 DEF Publish
<1>9. CASE UNCHANGED vars
  BY <1>1, <1>9 DEF vars
<1>. QED  BY <1>2, <1>3, <1>4, <1>5, <1>6, <1>7, <1>8, <1>9
          DEF Next, ListenerStep, ResolverStep

LEMMA InitMarks == Init => RequestedIffUnderWay
<1>. SUFFICES ASSUME Init, NEW session \in Session
              PROVE  UnderWay(session) = 0 /\ ~pending[session].requested
  BY DEF RequestedIffUnderWay
<1>1. /\ Positions(brainQueue, session) = {}
      /\ Positions(resolutions, session) = {}
  BY DEF Init, StateInit, Positions
<1>2. brainJob = NoJob /\ pending[session] = NoEntry
  BY DEF Init, StateInit
<1>3. UnderWay(session) = 0
  BY <1>1, <1>2, FS_EmptySet DEF UnderWay
<1>. QED  BY <1>2, <1>3 DEF NoEntry

\* With the regex backend and no failure, a session is marked as requested
\* exactly while one request, brain job or answer of it is under way: the
\* mark set under the lock, the queue, the brain and the answer's arrival,
\* which three tasks change, agree in every state.  A command backend may
\* answer for another session, hence the hypothesis
\* (buffer_unknown_segment, handle_resolution_payload).
THEOREM MarkedIffAsked ==
    ASSUME ~CommandBackend
    PROVE  Spec => []RequestedIffUnderWay
BY InitMarks, NextKeepsMarks, TypesHold, PTL DEF Spec

-----------------------------------------------------------------------------
(* A failure strands at most one session *)

StrandedInvariant == IsFiniteSet(Stranded) /\ FailureStrandsOneSession

\* A step that strands nobody, or a failure that strands one session.
LEMMA StrandsAtMostOne ==
    ASSUME TypeOK, StrandedInvariant,
           \/ /\ faults' = faults
              /\ Stranded' \subseteq Stranded
           \/ /\ faults' = faults + 1
              /\ \E own : Stranded' \subseteq Stranded \union {own}
    PROVE  StrandedInvariant'
<1>1. /\ IsFiniteSet(Stranded) /\ Cardinality(Stranded) \in Nat
      /\ Cardinality(Stranded) <= faults
      /\ faults \in Nat
  BY FS_CardinalityType
     DEF StrandedInvariant, FailureStrandsOneSession, TypeOK
<1>. PICK now : now = Stranded'
  OBVIOUS
<1>. SUFFICES IsFiniteSet(now) /\ Cardinality(now) <= faults'
  BY DEF StrandedInvariant, FailureStrandsOneSession
<1>2. CASE faults' = faults /\ Stranded' \subseteq Stranded
  <2>1. IsFiniteSet(now) /\ Cardinality(now) <= Cardinality(Stranded)
    BY <1>1, <1>2, FS_Subset
  <2>2. Cardinality(now) \in Nat
    BY <2>1, FS_CardinalityType
  <2>. QED  BY <1>1, <1>2, <2>1, <2>2
<1>3. ASSUME faults' = faults + 1,
             NEW own, Stranded' \subseteq Stranded \union {own}
      PROVE  IsFiniteSet(now) /\ Cardinality(now) <= faults'
  <2>. PICK more : more = Stranded \union {own}
    OBVIOUS
  <2>1. IsFiniteSet(more) /\ Cardinality(more) <= Cardinality(Stranded) + 1
    BY <1>1, FS_AddElement
  <2>2. IsFiniteSet(now) /\ Cardinality(now) <= Cardinality(more)
    BY <1>3, <2>1, FS_Subset
  <2>3. Cardinality(now) \in Nat /\ Cardinality(more) \in Nat
    BY <2>1, <2>2, FS_CardinalityType
  <2>. QED  BY <1>1, <1>3, <2>1, <2>2, <2>3
<1>. QED  BY <1>2, <1>3

\* A buffering strands nobody: a new mark comes with a request, and a request
\* that reaches the list although its reply is lost strands nobody either.
LEMMA BufferingStrandsNobody ==
    ASSUME TypeOK, BufferUnknownSegment \/ DispatchFails
    PROVE  Stranded' \subseteq Stranded
<1>1. PICK id \in batch :
        LET own  == SessionOf[stream[id]]
            with == WithSegment(pending[own], stream[id]) IN
        \/ /\ pending' = [pending EXCEPT ![own] = with]
           /\ \/ UNCHANGED brainQueue
              \/ brainQueue' = RPush(brainQueue,
                                     Requests(own, Fingerprinted(with)))
        \/ /\ pending' = [pending EXCEPT ![own] = MarkRequested(with)]
           /\ brainQueue' = RPush(brainQueue,
                                  Requests(own, Fingerprinted(with)))
  BY DEF BufferUnknownSegment, DispatchFails
<1>. PICK own \in Session : own = SessionOf[stream[id]]
  BY CurrentType
<1>2. PICK with \in PendingSession :
        /\ with = WithSegment(pending[own], stream[id])
        /\ MarkRequested(with) \in PendingSession
  BY BufferType
<1>3. with.requested = pending[own].requested
  BY <1>2 DEF WithSegment
<1>4. UNCHANGED <<resolutions, brainJob>>
  BY DEF BufferUnknownSegment, DispatchFails
<1>5. pending \in [Session -> PendingSession]
  BY DEF TypeOK
<1>6. PICK request \in BrainRequest :
        /\ request = Requests(own, Fingerprinted(with))
        /\ request.session = own
  BY RequestsType DEF Requests
<1>. SUFFICES ASSUME NEW session \in Session, pending'[session].requested,
                     UnderWay(session)' = 0
              PROVE  pending[session].requested /\ UnderWay(session) = 0
  BY DEF Stranded
<1>7. /\ UnderWay(session) = Count(brainQueue, session)
             + Count(resolutions, session) + JobCount(session)
      /\ Count(brainQueue, session) \in Nat
      /\ Count(resolutions, session) \in Nat
      /\ JobCount(session) \in Nat
  BY UnderWayIs
<1>8. UnderWay(session)' = Count(brainQueue', session)
             + Count(resolutions, session) + JobCount(session)
  BY <1>4 DEF UnderWay, Count, JobCount
<1>9. \/ brainQueue' = brainQueue
      \/ Count(brainQueue', session) =
            Count(brainQueue, session) + (IF own = session THEN 1 ELSE 0)
  <2>1. brainQueue' = RPush(brainQueue, request) =>
          Count(brainQueue', session) =
            Count(brainQueue, session) + (IF own = session THEN 1 ELSE 0)
    BY <1>6, CountAfterRPush DEF TypeOK
  <2>. QED  BY <1>1, <1>2, <1>6, <2>1
<1>10. UnderWay(session) = 0
  BY <1>7, <1>8, <1>9
<1>11. CASE pending' = [pending EXCEPT ![own] = with]
  BY <1>3, <1>5, <1>10, <1>11
<1>12. CASE /\ pending' = [pending EXCEPT ![own] = MarkRequested(with)]
            /\ brainQueue' = RPush(brainQueue, request)
  <2>1. Count(brainQueue', session) =
            Count(brainQueue, session) + (IF own = session THEN 1 ELSE 0)
    BY <1>6, <1>12, CountAfterRPush DEF TypeOK
  <2>2. session # own
    BY <1>7, <1>8, <2>1
  <2>. QED  BY <1>5, <1>10, <1>12, <2>2
<1>. QED  BY <1>1, <1>2, <1>6, <1>11, <1>12

\* An answer that is taken strands nobody: the mark goes with the entry.  One
\* that is lost may strand its session.
LEMMA AnswersStrandTheirSession ==
    ASSUME TypeOK, TakeResolution \/ ResolutionLost
    PROVE  \E own :
              /\ Stranded' \subseteq Stranded \union {own}
              /\ TakeResolution => Stranded' \subseteq Stranded
<1>. PICK own : own = Popped(resolutions).session
  OBVIOUS
<1>1. /\ resolutions # <<>> /\ resolutions' = AfterPop(resolutions)
      /\ UNCHANGED <<brainQueue, brainJob>>
      /\ TakeResolution => pending' = [pending EXCEPT ![own] = NoEntry]
      /\ ResolutionLost => UNCHANGED pending
  BY DEF TakeResolution, ResolutionLost
<1>2. /\ pending \in [Session -> PendingSession]
      /\ resolutions \in Seq(BrainResponse)
  BY DEF TypeOK
<1>3. ASSUME NEW session \in Session, session # own,
             pending'[session].requested, UnderWay(session)' = 0
      PROVE  session \in Stranded
  <2>1. pending'[session] = pending[session]
    BY <1>1, <1>2, <1>3
  <2>2. Count(resolutions, session) = Count(resolutions', session) + 0
    BY <1>1, <1>2, <1>3, CountAfterPop
  <2>3. /\ UnderWay(session) = Count(brainQueue, session)
               + Count(resolutions, session) + JobCount(session)
        /\ Count(brainQueue, session) \in Nat
        /\ Count(resolutions, session) \in Nat
        /\ JobCount(session) \in Nat
    BY UnderWayIs
  <2>4. UnderWay(session)' = Count(brainQueue, session)
               + Count(resolutions', session) + JobCount(session)
    BY <1>1 DEF UnderWay, Count, JobCount
  <2>5. Count(resolutions', session) \in Nat
    BY <1>1, <1>2, PopType, CountType
  <2>. QED  BY <1>3, <2>1, <2>2, <2>3, <2>4, <2>5 DEF Stranded
<1>4. Stranded' \subseteq Stranded \union {own}
  BY <1>3 DEF Stranded
<1>5. ASSUME TakeResolution
      PROVE  own \notin Stranded'
  <2>1. own \in Session => pending'[own] = NoEntry
    BY <1>1, <1>2, <1>5
  <2>. QED  BY <2>1 DEF Stranded, NoEntry
<1>. QED  BY <1>4, <1>5

\* A request that dies with the brain may strand its session.
LEMMA BrainFaultStrandsOne ==
    ASSUME TypeOK, BrainFault
    PROVE  Stranded' \subseteq Stranded \union {brainJob.session}
<1>. USE DEF redisVars, listenerVars, resolverVars, liveVars
<1>1. brainJob' = NoJob /\ UNCHANGED <<brainQueue, resolutions, pending>>
  BY DEF BrainFault
<1>. SUFFICES ASSUME NEW session \in Session, session # brainJob.session,
                     pending'[session].requested, UnderWay(session)' = 0
              PROVE  pending[session].requested /\ UnderWay(session) = 0
  BY DEF Stranded
<1>2. JobCount(session) = 0 /\ JobCount(session)' = 0
  BY <1>1 DEF JobCount
<1>3. UnderWay(session) = UnderWay(session)'
  BY <1>1 DEF UnderWay
<1>. QED  BY <1>1, <1>3

LEMMA NextStrandsAtMostOne ==
    ASSUME ~CommandBackend
    PROVE  TypeInvariant /\ StrandedInvariant /\ [Next]_vars
               => StrandedInvariant'
<1>. SUFFICES ASSUME TypeInvariant, TypeOK, StrandedInvariant, [Next]_vars
              PROVE  StrandedInvariant'
  BY DEF TypeInvariant
<1>. USE DEF redisVars, listenerVars, resolverVars, liveVars
<1>1. ASSUME faults' = faults \/ faults' = faults + 1,
             Stranded' \subseteq Stranded
      PROVE  StrandedInvariant'
  BY <1>1, StrandsAtMostOne
<1>2. ASSUME UNCHANGED <<brainQueue, resolutions, brainJob, pending>>
      PROVE  Stranded' \subseteq Stranded
  BY <1>2 DEF Stranded, UnderWay
<1>3. faults' = faults \/ faults' = faults + 1
  BY DEF Next, ListenerStep, ReadPending, ReadNew, DeliverNew, DecodeFails,
         MatchVoice, EmitFinalTranscript, BufferUnknownSegment, Acknowledge,
         ListenerFault, ListenerCallFails, ReadReplyLost, EmitReplyLost,
         DispatchFails, AckReplyLost, ResolverStep, TakeResolution,
         SkipUnprinted, UpsertVoiceIdentity, EmitIdentityResolved,
         ReplayBufferedSegment, ReplayDone, UpsertRefused, ResolutionApplied,
         ResolverFault, ResolutionLost, ResolverCallFails, ResolverReplyLost,
         BrainStep, TakeRequest, AnswerRequest, BrainFault,
         ControllerRestarts, Publish, Fault, vars
<1>4. CASE BufferUnknownSegment \/ DispatchFails
  BY <1>1, <1>3, <1>4, BufferingStrandsNobody
<1>5. CASE TakeResolution
  BY <1>1, <1>3, <1>5, AnswersStrandTheirSession
<1>6. CASE ResolutionLost
  <2>1. faults' = faults + 1
    BY <1>6 DEF ResolutionLost, Fault
  <2>. QED  BY <1>6, <2>1, AnswersStrandTheirSession, StrandsAtMostOne
<1>7. CASE BrainStep
  <2>1. UNCHANGED pending
    BY <1>7 DEF BrainStep, TakeRequest, AnswerRequest
  <2>2. \A session \in Session : UnderWay(session)' = UnderWay(session)
    BY <1>7, BrainKeepsUnderWay
  <2>3. Stranded' \subseteq Stranded
    BY <2>1, <2>2 DEF Stranded
  <2>. QED  BY <1>1, <1>3, <2>3
<1>8. CASE BrainFault
  <2>1. faults' = faults + 1
    BY <1>8 DEF BrainFault, Fault
  <2>. QED  BY <1>8, <2>1, BrainFaultStrandsOne, StrandsAtMostOne
<1>9. CASE ControllerRestarts
  <2>1. \A session \in Session : ~pending'[session].requested
    BY <1>9 DEF ControllerRestarts, NoEntry
  <2>2. Stranded' \subseteq Stranded
    BY <2>1 DEF Stranded
  <2>. QED  BY <1>1, <1>3, <2>2
<1>10. CASE \/ ReadPending \/ ReadNew \/ DecodeFails \/ MatchVoice
            \/ EmitFinalTranscript \/ Acknowledge \/ ListenerCallFails
            \/ ReadReplyLost \/ EmitReplyLost \/ AckReplyLost
  BY <1>1, <1>2, <1>3, <1>10
     DEF ReadPending, ReadNew, DeliverNew, DecodeFails, MatchVoice,
         EmitFinalTranscript, Acknowledge, ListenerCallFails, ReadReplyLost,
         EmitReplyLost, AckReplyLost
<1>11. CASE \/ SkipUnprinted \/ UpsertVoiceIdentity \/ EmitIdentityResolved
            \/ ReplayBufferedSegment \/ ReplayDone \/ UpsertRefused
            \/ ResolutionApplied \/ ResolverCallFails \/ ResolverReplyLost
  BY <1>1, <1>2, <1>3, <1>11
     DEF SkipUnprinted, UpsertVoiceIdentity, EmitIdentityResolved,
         ReplayBufferedSegment, ReplayDone, UpsertRefused, ResolutionApplied,
         ResolverCallFails, ResolverReplyLost
<1>12. ASSUME NEW segment \in Segment, Publish(segment)
       PROVE  StrandedInvariant'
  BY <1>1, <1>2, <1>3, <1>12 DEF Publish
<1>13. CASE UNCHANGED vars
  BY <1>1, <1>2, <1>3, <1>13 DEF vars
<1>. QED  BY <1>4, <1>5, <1>6, <1>7, <1>8, <1>9, <1>10, <1>11, <1>12, <1>13
          DEF Next, ListenerStep, ListenerFault, ResolverStep, ResolverFault

\* With the regex backend no more sessions wait for an answer that will never
\* come than calls failed and controllers restarted: a failure costs at most
\* the one session whose request or answer was popped when it came, and no
\* interleaving of the three tasks strands another (TetoBrain::run_connected,
\* brpop_payload, buffer_unknown_segment).
THEOREM StrandingTakesFailures ==
    ASSUME ~CommandBackend
    PROVE  Spec => []FailureStrandsOneSession
<1>1. Init => StrandedInvariant
  <2>. SUFFICES ASSUME Init PROVE StrandedInvariant
    OBVIOUS
  <2>1. Stranded = {} /\ faults = 0
    BY DEF Init, StateInit, Stranded, NoEntry
  <2>. QED  BY <2>1, FS_EmptySet
            DEF StrandedInvariant, FailureStrandsOneSession
<1>2. StrandedInvariant => FailureStrandsOneSession
  BY DEF StrandedInvariant
<1>. QED  BY <1>1, <1>2, NextStrandsAtMostOne, TypesHold, PTL DEF Spec

=============================================================================
