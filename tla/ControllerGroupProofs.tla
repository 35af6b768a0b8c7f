------------------------ MODULE ControllerGroupProofs ------------------------
(***************************************************************************)
(* Several controllers in one consumer group, for any number of them, of   *)
(* clients and entries: the group handles entries at least once, more than *)
(* once only after faults, answers find who asked, and clients miss only   *)
(* what overran them.                                                      *)
(***************************************************************************)
EXTENDS ControllerGroup, FiniteSetTheorems, TLAPS

-----------------------------------------------------------------------------
(* Types *)

\* The oldest of an interval are an interval.
LEMMA OldestOfInterval ==
    ASSUME NEW low \in Nat, NEW high \in Nat, low <= high + 1,
           NEW count \in Nat \ {0}
    PROVE  LET ids == Oldest(low..high, count)
               n   == Cardinality(ids)
           IN  n \in Nat /\ ids = low..(low + n - 1) /\ low + n - 1 <= high
<1> DEFINE last == IF low + count - 1 < high THEN low + count - 1 ELSE high
           Older(id) == {older \in low..high : older < id}
<1>1. \A id \in low..high : Older(id) = low..(id - 1)
  OBVIOUS
<1>2. \A id \in low..high : Cardinality(Older(id)) = id - low
  <2>. TAKE id \in low..high
  <2>1. Cardinality(low..(id - 1)) = IF low > id - 1 THEN 0 ELSE id - 1 - low + 1
    BY FS_Interval
  <2>2. Cardinality(low..(id - 1)) = id - low
    BY <2>1
  <2>. QED  BY <1>1, <2>2
<1>3. Oldest(low..high, count) = {id \in low..high : id - low < count}
  BY <1>2 DEF Oldest
<1>4. Oldest(low..high, count) = low..last
  <2>1. \A id \in low..high : id - low < count <=> id <= last
    BY count \in Nat
  <2>2. last \in Int /\ last <= high
    BY count \in Nat
  <2>. HIDE DEF last
  <2>3. {id \in low..high : id - low < count} = {id \in low..high : id <= last}
    BY <2>1
  <2>4. {id \in low..high : id <= last} = low..last
    BY <2>2
  <2>. QED  BY <1>3, <2>3, <2>4
<1>5. last \in Int /\ last + 1 >= low /\ last <= high
  OBVIOUS
<1>. HIDE DEF last
<1>6. Cardinality(low..last) = last - low + 1
  <2>1. Cardinality(low..last) = IF low > last THEN 0 ELSE last - low + 1
    BY <1>5, FS_Interval
  <2>. QED  BY <1>5, <2>1
<1>. QED  BY <1>4, <1>5, <1>6

\* Where a step leaves a controller's listener.
LEMMA PhaseNames ==
    /\ "poll" \in Phase /\ "read own" \in Phase /\ "read new" \in Phase
    /\ "handle" \in Phase /\ "ack" \in Phase
BY DEF Phase

StreamShape == stream \in Seq(Session) /\ Len(stream) <= MaxEntries

GroupInvariant == StreamShape /\ GroupTypeOK

LEMMA NewIdsFollow ==
    ASSUME GroupInvariant
    PROVE  /\ Cardinality(NewIds) \in Nat
           /\ NewIds = (cursor + 1)..(cursor + Cardinality(NewIds))
           /\ cursor + Cardinality(NewIds) <= Len(stream)
<1>1. cursor \in Nat /\ Len(stream) \in Nat /\ cursor + 1 <= Len(stream) + 1
  BY DEF GroupInvariant, StreamShape, GroupTypeOK
<1> DEFINE n == Cardinality(NewIds)
<1>2. /\ n \in Nat
      /\ NewIds = (cursor + 1)..(cursor + 1 + n - 1)
      /\ cursor + 1 + n - 1 <= Len(stream)
  BY <1>1, BatchAssumption, OldestOfInterval DEF NewIds
<1>. HIDE DEF n
<1>3. cursor + 1 + n - 1 = cursor + n
  BY <1>1, <1>2
<1>. QED  BY <1>2, <1>3 DEF n

\* A delivery keeps the PELs within the cursor.
LEMMA DeliverType ==
    ASSUME GroupInvariant, NEW c \in Controller, Deliver(c)
    PROVE  /\ cursor' \in Nat /\ cursor <= cursor' /\ cursor' <= Len(stream)
           /\ NewIds \subseteq 1..cursor'
           /\ pel' \in [Consumer -> SUBSET (1..cursor')]
<1>1. /\ cursor \in Nat /\ pel \in [Consumer -> SUBSET (1..cursor)]
      /\ ConsumerOf[c] \in Consumer
  BY ConsumerAssumption DEF GroupInvariant, StreamShape, GroupTypeOK
<1>2. /\ cursor' \in Nat /\ cursor <= cursor' /\ cursor' <= Len(stream)
      /\ NewIds = (cursor + 1)..cursor'
  <2>1. cursor' = cursor + Cardinality(NewIds)
    BY DEF Deliver
  <2>2. /\ Cardinality(NewIds) \in Nat
        /\ NewIds = (cursor + 1)..(cursor + Cardinality(NewIds))
        /\ cursor + Cardinality(NewIds) <= Len(stream)
    BY NewIdsFollow
  <2>3. cursor' \in Nat /\ cursor <= cursor'
    BY <1>1, <2>1, <2>2
  <2>. QED  BY <2>1, <2>2, <2>3
<1>3. 1..cursor \subseteq 1..cursor' /\ NewIds \subseteq 1..cursor'
  BY <1>1, <1>2
<1>4. pel' = [pel EXCEPT ![ConsumerOf[c]] = @ \union NewIds]
  BY DEF Deliver
<1>. QED  BY <1>1, <1>2, <1>3, <1>4

\* A controller goes somewhere with ids the group knows.
Moves(c, ids) == \E where \in Phase : Goes(c, where, ids)

LEMMA MovesType ==
    ASSUME GroupInvariant, NEW c \in Controller, NEW ids, Moves(c, ids),
           cursor' \in Nat, cursor <= cursor', ids \subseteq 1..cursor'
    PROVE  /\ phase' \in [Controller -> Phase]
           /\ batch' \in [Controller -> SUBSET (1..cursor')]
<1>1. cursor \in Nat /\ batch \in [Controller -> SUBSET (1..cursor)]
  BY DEF GroupInvariant, StreamShape, GroupTypeOK
<1>2. 1..cursor \subseteq 1..cursor'
  BY <1>1
<1>3. PICK where \in Phase : Goes(c, where, ids)
  BY DEF Moves
<1>4. batch' \in [Controller -> SUBSET (1..cursor')]
  BY <1>1, <1>2, <1>3 DEF Goes
<1>. QED  BY <1>3, <1>4 DEF Goes, GroupInvariant, GroupTypeOK

LEMMA AckType ==
    ASSUME GroupInvariant, NEW id, Ack(id)
    PROVE  pel' \in [Consumer -> SUBSET (1..cursor)]
BY DEF Ack, GroupInvariant, GroupTypeOK

LEMMA GroupStarts == Init => GroupInvariant
<1>. SUFFICES ASSUME Init  PROVE GroupInvariant
  OBVIOUS
<1>1. StreamShape /\ cursor \in 0..Len(stream)
  BY GroupAssumption DEF Init, GroupInit, StreamShape
<1>2. phase \in [Controller -> Phase]
  BY PhaseNames DEF Init, GroupInit
<1>3. /\ pel \in [Consumer -> SUBSET (1..cursor)]
      /\ batch \in [Controller -> SUBSET (1..cursor)]
  BY DEF Init, GroupInit
<1>. QED  BY <1>1, <1>2, <1>3 DEF GroupInvariant, GroupTypeOK

\* A controller goes on with the stream as it is.
LEMMA MoveKeepsGroup ==
    ASSUME GroupInvariant, NEW c \in Controller, NEW ids, Moves(c, ids),
           UNCHANGED stream, cursor' \in Nat, cursor <= cursor',
           cursor' <= Len(stream), ids \subseteq 1..cursor',
           pel' \in [Consumer -> SUBSET (1..cursor')]
    PROVE  GroupInvariant'
<1>1. cursor' \in 0..Len(stream')
  BY DEF GroupInvariant, StreamShape
<1>2. /\ phase' \in [Controller -> Phase]
      /\ batch' \in [Controller -> SUBSET (1..cursor')]
  BY MovesType
<1>3. StreamShape'
  BY DEF GroupInvariant, StreamShape
<1>. QED  BY <1>1, <1>2, <1>3 DEF GroupInvariant, GroupTypeOK

LEMMA CursorType ==
    ASSUME GroupInvariant
    PROVE  /\ cursor \in Nat /\ cursor <= Len(stream)
           /\ pel \in [Consumer -> SUBSET (1..cursor)]
BY DEF GroupInvariant, StreamShape, GroupTypeOK

\* The steps of the group keep its types.
LEMMA ReadingKeepsGroup ==
    ASSUME GroupInvariant, NEW c \in Controller, Reading(c)
    PROVE  GroupInvariant'
<1>. USE CursorType
<1>1. CASE Inspect(c)
  BY <1>1, PhaseNames DEF Inspect, GroupInvariant, StreamShape, GroupTypeOK
<1>2. CASE ReadOwn(c)
  <2> DEFINE ids == Oldest(pel[ConsumerOf[c]], StreamBatchSize)
  <2>1. ids \subseteq 1..cursor
    BY ConsumerAssumption DEF Oldest
  <2>2. Moves(c, ids)
    BY <1>2, PhaseNames DEF ReadOwn, Moves
  <2>. HIDE DEF ids
  <2>3. UNCHANGED <<stream, cursor, pel>>
    BY <1>2 DEF ReadOwn
  <2>4. /\ cursor' \in Nat /\ cursor <= cursor' /\ cursor' <= Len(stream)
        /\ ids \subseteq 1..cursor'
        /\ pel' \in [Consumer -> SUBSET (1..cursor')]
    BY <2>1, <2>3
  <2>. QED  BY <2>2, <2>3, <2>4, MoveKeepsGroup
<1>3. CASE ReadNew(c)
  <2>1. Deliver(c) /\ Moves(c, NewIds) /\ UNCHANGED stream
    BY <1>3, PhaseNames DEF ReadNew, Deliver, Moves
  <2>. QED  BY <2>1, DeliverType, MoveKeepsGroup
<1>4. CASE NothingNew(c)
  <2>1. Moves(c, {}) /\ UNCHANGED <<stream, cursor, pel>>
    BY <1>4, PhaseNames DEF NothingNew, BackToPoll, Moves
  <2>. QED  BY <2>1, MoveKeepsGroup
<1>. QED  BY <1>1, <1>2, <1>3, <1>4 DEF Reading

LEMMA HandlingKeepsGroup ==
    ASSUME GroupInvariant, NEW c \in Controller,
           Handled(c) \/ Acknowledge(c)
    PROVE  GroupInvariant'
<1>. USE CursorType
<1>1. CASE Handled(c)
  BY <1>1, PhaseNames DEF Handled, GroupInvariant, StreamShape, GroupTypeOK
<1>2. CASE Acknowledge(c)
  <2>1. UNCHANGED <<stream, cursor>>
    BY <1>2 DEF Acknowledge
  <2>2. PICK id \in batch[c] :
            /\ Ack(id)
            /\ Goes(c, IF batch[c] = {id} THEN "poll" ELSE "handle",
                    batch[c] \ {id})
    BY <1>2 DEF Acknowledge
  <2>3. batch[c] \ {id} \subseteq 1..cursor
    BY DEF GroupInvariant, GroupTypeOK
  <2>4. Moves(c, batch[c] \ {id})
    BY <2>2, PhaseNames DEF Moves
  <2>5. pel' \in [Consumer -> SUBSET (1..cursor')]
    BY <2>1, <2>2, AckType
  <2>. QED  BY <2>1, <2>3, <2>4, <2>5, MoveKeepsGroup
<1>. QED  BY <1>1, <1>2

LEMMA FailuresKeepGroup ==
    ASSUME GroupInvariant, NEW c \in Controller,
           \/ ReadFails(c) \/ HandlingFails(c) \/ AckReplyLost(c)
           \/ BackToPoll(c) /\ UNCHANGED <<stream, cursor, pel>>
    PROVE  GroupInvariant'
<1>. USE CursorType
<1>1. BackToPoll(c) /\ UNCHANGED stream
  BY DEF ReadFails, Deliver, HandlingFails, AckReplyLost
<1>2. Moves(c, {})
  BY <1>1, PhaseNames DEF BackToPoll, Moves
<1>3. CASE UNCHANGED <<cursor, pel>>
  BY <1>1, <1>2, <1>3, MoveKeepsGroup
<1>4. CASE Deliver(c)
  BY <1>1, <1>2, <1>4, DeliverType, MoveKeepsGroup
<1>5. CASE AckReplyLost(c)
  <2>1. PICK id : Ack(id)
    BY <1>5 DEF AckReplyLost
  <2>2. UNCHANGED cursor
    BY <1>5 DEF AckReplyLost
  <2>3. pel' \in [Consumer -> SUBSET (1..cursor')]
    BY <2>1, <2>2, AckType
  <2>. QED  BY <1>1, <1>2, <2>2, <2>3, MoveKeepsGroup
<1>. QED  BY <1>3, <1>4, <1>5 DEF ReadFails, HandlingFails

LEMMA NextKeepsGroup == GroupInvariant /\ [Next]_vars => GroupInvariant'
<1>. SUFFICES ASSUME GroupInvariant, [Next]_vars
              PROVE  GroupInvariant'
  OBVIOUS
<1>1. CASE UNCHANGED groupVars
  BY <1>1 DEF groupVars, GroupInvariant, StreamShape, GroupTypeOK
<1>2. ASSUME NEW session \in Session, Publish(session)
      PROVE  GroupInvariant'
  <2>1. stream' \in Seq(Session) /\ Len(stream') = Len(stream) + 1
        /\ Len(stream') <= MaxEntries
    BY <1>2, GroupAssumption DEF Publish, GroupInvariant, StreamShape
  <2>2. cursor' \in 0..Len(stream')
    BY <1>2, <2>1 DEF Publish, GroupInvariant, StreamShape, GroupTypeOK
  <2>. QED  BY <1>2, <2>1, <2>2
            DEF Publish, GroupInvariant, StreamShape, GroupTypeOK
<1>3. ASSUME NEW c \in Controller, Listener(c)
      PROVE  GroupInvariant'
  BY <1>3, ReadingKeepsGroup, HandlingKeepsGroup
     DEF Listener, Read, Handle, AckEntry
<1>4. ASSUME NEW c \in Controller, Resolver(c)
      PROVE  GroupInvariant'
  BY <1>1, <1>4 DEF Resolver, Resolve
<1>8. ASSUME NEW c \in Controller, NEW session \in Session,
             ResolverFails(c, session)
      PROVE  GroupInvariant'
  BY <1>1, <1>8 DEF ResolverFails
<1>5. ASSUME NEW c \in Controller, CallFails(c) \/ Restart(c)
      PROVE  GroupInvariant'
  BY <1>5, FailuresKeepGroup DEF CallFails, Restart
<1>6. ASSUME NEW client \in Client,
             Connect(client) \/ ServeClient(client) \/ Disconnect(client)
      PROVE  GroupInvariant'
  BY <1>1, <1>6 DEF Connect, ServeClient, Disconnect
<1>7. CASE UNCHANGED vars
  BY <1>1, <1>7 DEF vars
<1>. QED  BY <1>2, <1>3, <1>4, <1>5, <1>6, <1>7, <1>8 DEF Next

LEMMA GroupTypesHold == Spec => []GroupInvariant
BY GroupStarts, NextKeepsGroup, PTL DEF Spec

-----------------------------------------------------------------------------
(* What a step does to the group *)

\* The entry a controller has handled and is about to acknowledge.
InHand(c, id) == phase[c] = "ack" /\ Current(c, id)

\* A controller goes on with some ids, none of them handled.
Leaves(c, ids) == \E where \in Phase \ {"ack"} : Goes(c, where, ids)

Stays ==
    /\ UNCHANGED <<cursor, pel, phase, batch, handlings>>
    /\ UNCHANGED faults \/ faults' = faults + 1

Takes(c) ==
    /\ \/ UNCHANGED <<cursor, pel>> /\ Leaves(c, batch[c])
       \/ UNCHANGED <<cursor, pel>> /\
          \E ids \in SUBSET pel[ConsumerOf[c]] : Leaves(c, ids)
       \/ Deliver(c) /\ \E ids \in SUBSET NewIds : Leaves(c, ids)
    /\ UNCHANGED handlings
    /\ \/ phase[c] # "ack" /\ UNCHANGED faults
       \/ faults' = faults + 1

Acks(c) ==
    \E id \in batch[c] :
        /\ InHand(c, id) /\ Ack(id)
        /\ UNCHANGED <<cursor, handlings>>
        /\ UNCHANGED faults \/ faults' = faults + 1
        /\ \E ids \in SUBSET (batch[c] \ {id}) : Leaves(c, ids)

LEMMA LeavingNames ==
    /\ "poll" \in Phase \ {"ack"} /\ "read own" \in Phase \ {"ack"}
    /\ "read new" \in Phase \ {"ack"} /\ "handle" \in Phase \ {"ack"}
BY DEF Phase

LEMMA ReadingTakes ==
    ASSUME GroupInvariant, NEW c \in Controller, Read(c)
    PROVE  Takes(c)
<1>1. UNCHANGED <<handlings, faults>>
  BY DEF Read
<1>2. batch = [batch EXCEPT ![c] = batch[c]]
  BY DEF GroupInvariant, GroupTypeOK
<1>3. CASE Inspect(c)
  BY <1>1, <1>2, <1>3, LeavingNames DEF Inspect, Takes, Leaves, Goes
<1>4. CASE ReadOwn(c)
  <2>1. Oldest(pel[ConsumerOf[c]], StreamBatchSize) \subseteq pel[ConsumerOf[c]]
    BY DEF Oldest
  <2>2. Leaves(c, Oldest(pel[ConsumerOf[c]], StreamBatchSize))
    BY <1>4, LeavingNames DEF ReadOwn, Leaves
  <2>3. phase[c] # "ack" /\ UNCHANGED <<cursor, pel>>
    BY <1>4 DEF ReadOwn
  <2>. QED  BY <1>1, <2>1, <2>2, <2>3 DEF Takes
<1>5. CASE ReadNew(c)
  <2>1. Deliver(c) /\ phase[c] # "ack" /\ Leaves(c, NewIds)
    BY <1>5, LeavingNames DEF ReadNew, Deliver, Leaves
  <2>. QED  BY <1>1, <2>1 DEF Takes
<1>6. CASE NothingNew(c)
  <2>1. Leaves(c, {}) /\ phase[c] # "ack" /\ UNCHANGED <<cursor, pel>>
    BY <1>6, LeavingNames DEF NothingNew, BackToPoll, Leaves
  <2>. QED  BY <1>1, <2>1 DEF Takes
<1>. QED  BY <1>3, <1>4, <1>5, <1>6 DEF Read, Reading

LEMMA AcknowledgingAcks ==
    ASSUME NEW c \in Controller,
           \/ Acknowledge(c) /\ UNCHANGED faults
           \/ AckReplyLost(c) /\ faults' = faults + 1,
           UNCHANGED handlings
    PROVE  Acks(c)
<1>1. CASE Acknowledge(c) /\ UNCHANGED faults
  <2>1. PICK id \in batch[c] :
            /\ Current(c, id) /\ Ack(id)
            /\ Goes(c, IF batch[c] = {id} THEN "poll" ELSE "handle",
                    batch[c] \ {id})
    BY <1>1 DEF Acknowledge
  <2>2. Leaves(c, batch[c] \ {id})
    BY <2>1, LeavingNames DEF Leaves
  <2>3. phase[c] = "ack" /\ UNCHANGED cursor
    BY <1>1 DEF Acknowledge
  <2>. QED  BY <1>1, <2>1, <2>2, <2>3 DEF Acks, InHand
<1>2. CASE AckReplyLost(c) /\ faults' = faults + 1
  <2>1. PICK id \in batch[c] : Current(c, id) /\ Ack(id)
    BY <1>2 DEF AckReplyLost
  <2>2. Leaves(c, {}) /\ phase[c] = "ack" /\ UNCHANGED cursor
    BY <1>2, LeavingNames DEF AckReplyLost, BackToPoll, Leaves
  <2>. QED  BY <1>2, <2>1, <2>2 DEF Acks, InHand
<1>. QED  BY <1>1, <1>2

LEMMA FailuresTake ==
    ASSUME NEW c \in Controller,
           \/ ReadFails(c) \/ HandlingFails(c)
           \/ BackToPoll(c) /\ UNCHANGED <<cursor, pel>>,
           faults' = faults + 1, UNCHANGED handlings
    PROVE  Takes(c)
<1>1. Leaves(c, {})
  BY LeavingNames DEF ReadFails, HandlingFails, BackToPoll, Leaves
<1>. QED  BY <1>1 DEF ReadFails, HandlingFails, Takes

\* Every step leaves the group alone, or is one controller's.
LEMMA StepsOfGroup ==
    ASSUME GroupInvariant, [Next]_vars
    PROVE  \/ Stays
           \/ \E c \in Controller : Takes(c) \/ Handle(c) \/ Acks(c)
<1>1. ASSUME NEW session \in Session, Publish(session)
      PROVE  Stays
  BY <1>1 DEF Publish, Stays
<1>2. ASSUME NEW c \in Controller, Listener(c)
      PROVE  Takes(c) \/ Handle(c) \/ Acks(c)
  BY <1>2, ReadingTakes, AcknowledgingAcks DEF Listener, AckEntry
<1>3. ASSUME NEW c \in Controller, Resolver(c)
      PROVE  Stays
  BY <1>3 DEF Resolver, Resolve, groupVars, Stays
<1>8. ASSUME NEW c \in Controller, NEW session \in Session,
             ResolverFails(c, session)
      PROVE  Stays
  BY <1>8 DEF ResolverFails, Fault, groupVars, Stays
<1>4. ASSUME NEW c \in Controller, CallFails(c)
      PROVE  Takes(c) \/ Acks(c)
  BY <1>4, FailuresTake, AcknowledgingAcks DEF CallFails, Fault
<1>5. ASSUME NEW c \in Controller, Restart(c)
      PROVE  Takes(c)
  BY <1>5, FailuresTake DEF Restart, Fault
<1>6. ASSUME NEW client \in Client,
             Connect(client) \/ ServeClient(client) \/ Disconnect(client)
      PROVE  Stays
  BY <1>6 DEF Connect, ServeClient, Disconnect, groupVars, Stays
<1>7. CASE UNCHANGED vars
  BY <1>7 DEF vars, groupVars, Stays
<1>. QED  BY <1>1, <1>2, <1>3, <1>4, <1>5, <1>6, <1>7, <1>8 DEF Next

-----------------------------------------------------------------------------
(* Handled before acknowledged *)

WasHandled(id) == handlings[id] > 0

HandlingsType == handlings \in [1..MaxEntries -> Nat]

HandledFirst ==
    /\ \A id \in Acknowledged : WasHandled(id)
    /\ \A c \in Controller : \A id \in batch[c] :
           InHand(c, id) => WasHandled(id)

\* What is in a reply is an entry of the stream.
LEMMA BatchIsPublished ==
    ASSUME GroupInvariant, NEW c \in Controller, NEW id \in batch[c]
    PROVE  /\ id \in 1..Len(stream) /\ id \in 1..MaxEntries
           /\ id \in 1..cursor /\ id \in Nat
<1>1. cursor \in Nat /\ cursor <= Len(stream) /\ Len(stream) \in Nat
  BY CursorType DEF GroupInvariant, StreamShape
<1>2. id \in 1..cursor
  BY DEF GroupInvariant, GroupTypeOK
<1>3. Len(stream) <= MaxEntries /\ MaxEntries \in Nat
  BY GroupAssumption DEF GroupInvariant, StreamShape
<1>. QED  BY <1>1, <1>2, <1>3

\* A controller has one entry in hand at most.
LEMMA CurrentIsUnique ==
    ASSUME GroupInvariant, NEW c \in Controller,
           NEW id, NEW other, Current(c, id), Current(c, other)
    PROVE  id = other
<1>1. /\ id \in batch[c] /\ other \in batch[c]
      /\ id <= other /\ other <= id
  BY DEF Current, IsLeast
<1>. QED  BY <1>1, BatchIsPublished

\* Acknowledging adds the entry to those that are done with.
LEMMA AckSettles ==
    ASSUME GroupInvariant, NEW id \in 1..cursor, Ack(id), UNCHANGED cursor
    PROVE  Acknowledged' = Acknowledged \union {id}
<1>1. AllPending' = AllPending \ {id}
  BY DEF Ack, AllPending
<1>. QED  BY <1>1 DEF Acknowledged

\* Delivering settles nothing.
LEMMA DeliverSettlesNothing ==
    ASSUME GroupInvariant, NEW c \in Controller, Deliver(c)
    PROVE  Acknowledged' = Acknowledged
<1>1. AllPending' = AllPending \union NewIds
  <2>1. /\ pel \in [Consumer -> SUBSET (1..cursor)]
        /\ ConsumerOf[c] \in Consumer
    BY CursorType, ConsumerAssumption
  <2>2. pel' = [pel EXCEPT ![ConsumerOf[c]] = @ \union NewIds]
    BY DEF Deliver
  <2>. QED  BY <2>1, <2>2 DEF AllPending
<1>2. NewIds = (cursor + 1)..cursor' /\ cursor' \in Nat /\ cursor <= cursor'
  BY NewIdsFollow, DeliverType DEF Deliver
<1>3. cursor \in Nat
  BY CursorType
<1>4. 1..cursor' = (1..cursor) \union NewIds
  BY <1>2, <1>3
<1>5. (1..cursor) \intersect NewIds = {}
  BY <1>2, <1>3
<1>. QED  BY <1>1, <1>4, <1>5 DEF Acknowledged

\* Whoever still has an entry in hand had it before.
LEMMA LeavingHand ==
    ASSUME GroupInvariant, NEW c \in Controller, NEW d \in Controller,
           NEW ids, NEW id, Leaves(c, ids), InHand(d, id)'
    PROVE  d # c /\ InHand(d, id)
BY DEF GroupInvariant, GroupTypeOK, Leaves, Goes, InHand, Current


HandlesIt(c, id) ==
    /\ phase[c] = "handle" /\ Current(c, id)
    /\ phase' = [phase EXCEPT ![c] = "ack"]
    /\ handlings' = [handlings EXCEPT ![id] = @ + 1]
    /\ UNCHANGED <<cursor, pel, batch, faults>>

LEMMA HandlingHandles ==
    ASSUME NEW c \in Controller, Handle(c)
    PROVE  \E id \in batch[c] : HandlesIt(c, id)
BY DEF Handle, Handled, HandlesIt

\* The entry handled is the one in hand afterwards; nothing else changes.
LEMMA HandEntry ==
    ASSUME GroupInvariant, NEW c \in Controller, NEW id \in batch[c],
           HandlesIt(c, id), NEW d \in Controller, NEW other, InHand(d, other)'
    PROVE  (d = c /\ other = id) \/ (d # c /\ InHand(d, other))
<1>1. CASE d # c
  BY <1>1 DEF HandlesIt, InHand, Current, GroupInvariant, GroupTypeOK
<1>2. CASE d = c
  <2>1. Current(c, other) /\ Current(c, id)
    BY <1>2 DEF HandlesIt, InHand, Current
  <2>. QED  BY <1>2, <2>1, CurrentIsUnique
<1>. QED  BY <1>1, <1>2

LEMMA HandlingCounts ==
    ASSUME GroupInvariant, HandlingsType, NEW c \in Controller,
           NEW id \in batch[c], HandlesIt(c, id)
    PROVE  /\ HandlingsType'
           /\ handlings'[id] = handlings[id] + 1
           /\ \A other \in 1..MaxEntries :
                  other # id => handlings'[other] = handlings[other]
           /\ WasHandled(id)'
           /\ \A other \in 1..MaxEntries :
                  other # id => (WasHandled(other)' <=> WasHandled(other))
<1>1. id \in 1..MaxEntries
  BY BatchIsPublished
<1>. QED  BY <1>1 DEF HandlesIt, HandlingsType, WasHandled

HandledInvariant == GroupInvariant /\ HandlingsType /\ HandledFirst

\* Acknowledged entries are among those counted.
LEMMA AcknowledgedIds ==
    ASSUME GroupInvariant
    PROVE  Acknowledged \subseteq 1..MaxEntries
<1>1. /\ cursor \in Nat /\ cursor <= Len(stream)
      /\ Len(stream) \in Nat /\ Len(stream) <= MaxEntries /\ MaxEntries \in Nat
  BY CursorType, GroupAssumption DEF GroupInvariant, StreamShape
<1>2. 1..cursor \subseteq 1..MaxEntries
  BY <1>1
<1>. QED  BY <1>2 DEF Acknowledged

\* Entries are handled before they are acknowledged.
LEMMA NextKeepsHandled ==
    ASSUME HandledInvariant, [Next]_vars
    PROVE  HandlingsType' /\ HandledFirst'
<1>. USE DEF HandledInvariant, HandledFirst
<1>1. CASE Stays
  BY <1>1 DEF Stays, HandlingsType, Acknowledged, AllPending, WasHandled,
              InHand, Current
<1>2. ASSUME NEW c \in Controller, Takes(c)
      PROVE  HandlingsType' /\ HandledFirst'
  <2>1. UNCHANGED handlings
    BY <1>2 DEF Takes
  <2>2. Acknowledged' = Acknowledged
    BY <1>2, DeliverSettlesNothing DEF Takes, Acknowledged, AllPending
  <2>3. PICK ids : Leaves(c, ids)
    BY <1>2 DEF Takes
  <2>4. \A d \in Controller : \A id \in batch'[d] :
            InHand(d, id)' => InHand(d, id)
    BY <2>3, LeavingHand
  <2>5. \A d \in Controller : \A id : InHand(d, id) => id \in batch[d]
    BY DEF InHand, Current, IsLeast
  <2>. QED  BY <2>1, <2>2, <2>4, <2>5 DEF HandlingsType, WasHandled
<1>3. ASSUME NEW c \in Controller, Handle(c)
      PROVE  HandlingsType' /\ HandledFirst'
  <2>1. PICK id \in batch[c] : HandlesIt(c, id)
    BY <1>3, HandlingHandles
  <2>2. /\ HandlingsType' /\ WasHandled(id)'
        /\ \A other \in 1..MaxEntries : WasHandled(other) => WasHandled(other)'
    BY <2>1, HandlingCounts
  <2>3. Acknowledged' = Acknowledged /\ Acknowledged \subseteq 1..MaxEntries
    BY <2>1, AcknowledgedIds DEF HandlesIt, Acknowledged, AllPending
  <2>4. ASSUME NEW d \in Controller, NEW other \in batch'[d], InHand(d, other)'
        PROVE  WasHandled(other)'
    <3>1. CASE other = id
      BY <2>2, <3>1
    <3>2. CASE other # id
      <4>1. InHand(d, other)
        BY <2>1, <2>4, <3>2, HandEntry
      <4>2. other \in batch[d]
        BY <4>1 DEF InHand, Current, IsLeast
      <4>. QED  BY <2>2, <4>1, <4>2, BatchIsPublished
    <3>. QED  BY <3>1, <3>2
  <2>. QED  BY <2>2, <2>3, <2>4
<1>4. ASSUME NEW c \in Controller, Acks(c)
      PROVE  HandlingsType' /\ HandledFirst'
  <2>1. PICK id \in batch[c] : InHand(c, id) /\ Ack(id) /\ UNCHANGED <<cursor, handlings>>
                               /\ \E ids : Leaves(c, ids)
    BY <1>4 DEF Acks
  <2>2. Acknowledged' = Acknowledged \union {id} /\ WasHandled(id)
    BY <2>1, BatchIsPublished, AckSettles
  <2>3. PICK ids : Leaves(c, ids)
    BY <2>1
  <2>4. \A d \in Controller : \A other \in batch'[d] :
            InHand(d, other)' => InHand(d, other)
    BY <2>3, LeavingHand
  <2>5. \A d \in Controller : \A other : InHand(d, other) => other \in batch[d]
    BY DEF InHand, Current, IsLeast
  <2>. QED  BY <2>1, <2>2, <2>4, <2>5 DEF HandlingsType, WasHandled
<1>. QED  BY <1>1, <1>2, <1>3, <1>4, StepsOfGroup

LEMMA HandledStarts == Init => HandledInvariant
<1>. SUFFICES ASSUME Init  PROVE HandlingsType /\ HandledFirst
  BY GroupStarts DEF HandledInvariant
<1>1. HandlingsType
  BY DEF Init, HandlingsType
<1>2. Acknowledged = {}
  BY DEF Init, GroupInit, Acknowledged
<1>3. \A c \in Controller : batch[c] = {}
  BY DEF Init, GroupInit
<1>. QED  BY <1>1, <1>2, <1>3 DEF HandledFirst

LEMMA HandledHolds == Spec => []HandledInvariant
<1>1. HandledInvariant /\ [Next]_vars => HandledInvariant'
  BY NextKeepsGroup, NextKeepsHandled DEF HandledInvariant
<1>. QED  BY HandledStarts, <1>1, PTL DEF Spec


-----------------------------------------------------------------------------
(* The promise to the workers *)

HandledIds == {id \in 1..MaxEntries : handlings[id] > 0}

\* Each step of the controllers is one that AtLeastOnce allows, or none.
LEMMA StepsArePromised ==
    ASSUME HandledInvariant, [Next]_vars
    PROVE  [ALO!Next]_(ALO!vars)
<1>. SUFFICES ALO!Next \/ UNCHANGED ALO!vars
  OBVIOUS
<1>0. ASSUME UNCHANGED <<Len(stream), HandledIds, Acknowledged>>
      PROVE  UNCHANGED ALO!vars
  BY <1>0 DEF ALO!vars, HandledIds
<1>1. \/ \E session \in Session : Publish(session)
      \/ UNCHANGED stream
  BY DEF Next, Listener, Read, Reading, Inspect, ReadOwn, ReadNew, Deliver,
         NothingNew, Handle, Handled, AckEntry, Acknowledge, Resolver,
         Resolve, ResolverFails, CallFails, ReadFails, HandlingFails,
         AckReplyLost, Restart,
         Connect, ServeClient, Disconnect, groupVars, vars
<1>2. ASSUME NEW session \in Session, Publish(session)
      PROVE  ALO!Next
  <2>1. Len(stream') = Len(stream) + 1
    BY <1>2 DEF Publish, HandledInvariant, GroupInvariant, StreamShape
  <2>2. UNCHANGED <<HandledIds, Acknowledged>>
    BY <1>2 DEF Publish, HandledIds, Acknowledged, AllPending
  <2>. QED  BY <2>1, <2>2 DEF ALO!Next, ALO!Publish, HandledIds
<1>3. CASE UNCHANGED stream /\ Stays
  BY <1>0, <1>3 DEF Stays, HandledIds, Acknowledged, AllPending
<1>4. ASSUME UNCHANGED stream, NEW c \in Controller, Takes(c)
      PROVE  UNCHANGED <<Len(stream), HandledIds, Acknowledged>>
  <2>1. Acknowledged' = Acknowledged
    BY <1>4, DeliverSettlesNothing
       DEF Takes, Acknowledged, AllPending, HandledInvariant
  <2>. QED  BY <1>4, <2>1 DEF Takes, HandledIds
<1>5. ASSUME UNCHANGED stream, NEW c \in Controller, Handle(c)
      PROVE  ALO!Next \/ UNCHANGED <<Len(stream), HandledIds, Acknowledged>>
  <2>1. PICK id \in batch[c] : HandlesIt(c, id)
    BY <1>5, HandlingHandles
  <2>2. id \in 1..Len(stream) /\ id \in 1..MaxEntries
    BY BatchIsPublished DEF HandledInvariant
  <2>3. HandledIds' = HandledIds \union {id}
    BY <2>1, <2>2, HandlingCounts
       DEF HandledInvariant, HandledIds, WasHandled
  <2>4. Acknowledged' = Acknowledged
    BY <2>1 DEF HandlesIt, Acknowledged, AllPending
  <2>5. CASE id \in Acknowledged
    BY <1>5, <2>2, <2>3, <2>4, <2>5
       DEF HandledInvariant, HandledFirst, WasHandled, HandledIds
  <2>6. CASE id \notin Acknowledged
    BY <1>5, <2>2, <2>3, <2>4, <2>6 DEF ALO!Next, ALO!Handle, HandledIds
  <2>. QED  BY <2>5, <2>6
<1>6. ASSUME UNCHANGED stream, NEW c \in Controller, Acks(c)
      PROVE  ALO!Next
  <2>1. PICK id \in batch[c] :
            InHand(c, id) /\ Ack(id) /\ UNCHANGED <<cursor, handlings>>
    BY <1>6 DEF Acks
  <2>2. /\ id \in 1..Len(stream) /\ id \in 1..MaxEntries
        /\ Acknowledged' = Acknowledged \union {id}
    BY <2>1, BatchIsPublished, AckSettles DEF HandledInvariant
  <2>3. id \in HandledIds /\ HandledIds' = HandledIds
    BY <2>1, <2>2 DEF HandledInvariant, HandledFirst, WasHandled, HandledIds
  <2>. QED  BY <1>6, <2>2, <2>3 DEF ALO!Next, ALO!Finish, HandledIds
<1>7. GroupInvariant
  BY DEF HandledInvariant
<1>. QED  BY <1>0, <1>1, <1>2, <1>3, <1>4, <1>5, <1>6, <1>7, StepsOfGroup

\* The group of controllers keeps the promise AtLeastOnce states, over every
\* failed call, lost reply and restart, with or without names of their own:
\* what is acknowledged was handled (handle_stream_id, acknowledge).
THEOREM GroupHandlesAtLeastOnce == Spec => HandlesAtLeastOnce
<1>1. Init => ALO!Init
  BY DEF Init, GroupInit, ALO!Init, Acknowledged
<1>. QED  BY <1>1, StepsArePromised, HandledHolds, PTL
          DEF Spec, HandlesAtLeastOnce, ALO!Spec


-----------------------------------------------------------------------------
(* Handled more than once only after faults *)

\* With names of their own, controllers own what they have before them, and
\* no two of them own the same.
Owned ==
    /\ \A c \in Controller : batch[c] \subseteq pel[ConsumerOf[c]]
    /\ \A m, n \in Consumer : m # n => pel[m] \intersect pel[n] = {}

\* The last handling of an entry counts, or is about to.
Settled(id) == id \in Acknowledged \/ \E c \in Controller : InHand(c, id)

\* Any other handling was followed by a fault of its own.
HandlingsCounted ==
    \A id \in 1..MaxEntries :
        /\ handlings[id] <= faults + 1
        /\ ~Settled(id) => handlings[id] <= faults

LEMMA OwnersDiffer ==
    ASSUME DistinctNames, Owned, NEW c \in Controller, NEW d \in Controller,
           d # c, NEW id \in batch[c]
    PROVE  id \notin batch[d]
<1>1. ConsumerOf[c] # ConsumerOf[d]
  BY DEF DistinctNames
<1>. QED  BY <1>1, ConsumerAssumption DEF Owned

\* What a delivery adds was nobody's.
LEMMA TakingKeepsOwned ==
    ASSUME GroupInvariant, Owned, NEW c \in Controller, Takes(c)
    PROVE  Owned'
<1>1. /\ pel \in [Consumer -> SUBSET (1..cursor)]
      /\ ConsumerOf[c] \in Consumer
      /\ batch[c] \subseteq pel[ConsumerOf[c]]
  BY CursorType, ConsumerAssumption DEF Owned
<1>2. ASSUME UNCHANGED pel, NEW ids \in SUBSET pel[ConsumerOf[c]],
             Leaves(c, ids)
      PROVE  Owned'
  <2>1. \A d \in Controller : batch'[d] = batch[d] \/ (batch'[d] = ids /\ d = c)
    BY <1>2 DEF Leaves, Goes, GroupInvariant, GroupTypeOK
  <2>2. \A d \in Controller : batch'[d] \subseteq pel[ConsumerOf[d]]
    BY <2>1 DEF Owned
  <2>. QED  BY <1>2, <2>2 DEF Owned
<1>3. ASSUME Deliver(c), NEW ids \in SUBSET NewIds, Leaves(c, ids)
      PROVE  Owned'
  <2>1. pel' = [pel EXCEPT ![ConsumerOf[c]] = @ \union NewIds]
    BY <1>3 DEF Deliver
  <2>2. NewIds \intersect (1..cursor) = {}
    <3>1. NewIds \subseteq (cursor + 1)..Len(stream) /\ cursor \in Nat
      BY CursorType DEF NewIds, Oldest
    <3>. QED  BY <3>1
  <2>3. \A m, n \in Consumer : m # n => pel'[m] \intersect pel'[n] = {}
    BY <1>1, <2>1, <2>2 DEF Owned
  <2>4. \A n \in Consumer : pel[n] \subseteq pel'[n]
    BY <1>1, <2>1
  <2>5. ids \subseteq pel'[ConsumerOf[c]]
    BY <1>1, <2>1
  <2>6. \A d \in Controller : batch'[d] = batch[d] \/ (batch'[d] = ids /\ d = c)
    BY <1>3 DEF Leaves, Goes, GroupInvariant, GroupTypeOK
  <2>7. \A d \in Controller : batch'[d] \subseteq pel'[ConsumerOf[d]]
    BY <2>4, <2>5, <2>6, ConsumerAssumption DEF Owned
  <2>. QED  BY <2>3, <2>7 DEF Owned
<1>. QED  BY <1>1, <1>2, <1>3 DEF Takes

LEMMA AckingKeepsOwned ==
    ASSUME GroupInvariant, DistinctNames, Owned, NEW c \in Controller, Acks(c)
    PROVE  Owned'
<1>1. PICK id \in batch[c] :
          Ack(id) /\ \E ids \in SUBSET (batch[c] \ {id}) : Leaves(c, ids)
  BY DEF Acks
<1>2. PICK ids \in SUBSET (batch[c] \ {id}) : Leaves(c, ids)
  BY <1>1
<1>3. \A n \in Consumer : pel'[n] = pel[n] \ {id}
  BY <1>1 DEF Ack
<1>4. \A d \in Controller : d # c => batch'[d] = batch[d] /\ id \notin batch[d]
  BY <1>2, OwnersDiffer DEF Leaves, Goes, GroupInvariant, GroupTypeOK
<1>5. batch'[c] = ids
  BY <1>2 DEF Leaves, Goes, GroupInvariant, GroupTypeOK
<1>6. \A d \in Controller : batch'[d] \subseteq pel[ConsumerOf[d]] \ {id}
  BY <1>4, <1>5 DEF Owned
<1>. QED  BY <1>3, <1>6, ConsumerAssumption DEF Owned

\* What the others have in hand stays there.
LEMMA OthersKeepTheirs ==
    ASSUME GroupInvariant, NEW c \in Controller, NEW d \in Controller, d # c,
           NEW id, InHand(d, id), (\E ids : Leaves(c, ids)) \/
                                  \E other : HandlesIt(c, other)
    PROVE  InHand(d, id)'
BY DEF GroupInvariant, GroupTypeOK, Leaves, Goes, HandlesIt, InHand, Current

CountInvariant ==
    /\ HandledInvariant
    /\ faults \in Nat
    /\ DistinctNames => Owned /\ HandlingsCounted

\* An entry that a controller is about to handle is not settled.
LEMMA HandlingUnsettled ==
    ASSUME GroupInvariant, DistinctNames, Owned, NEW c \in Controller,
           NEW id \in batch[c], phase[c] = "handle"
    PROVE  ~Settled(id)
<1>1. id \in AllPending
  BY ConsumerAssumption DEF Owned, AllPending
<1>2. ASSUME NEW d \in Controller, InHand(d, id)
      PROVE  FALSE
  <2>1. id \in batch[d] /\ d # c
    BY <1>2 DEF InHand, Current, IsLeast
  <2>. QED  BY <2>1, OwnersDiffer
<1>. QED  BY <1>1, <1>2 DEF Settled, Acknowledged

LEMMA NextKeepsCount ==
    ASSUME CountInvariant, [Next]_vars
    PROVE  faults' \in Nat /\ (DistinctNames => Owned' /\ HandlingsCounted')
<1>0. GroupInvariant /\ HandlingsType /\ faults \in Nat
  BY DEF CountInvariant, HandledInvariant
<1>1. faults' \in Nat /\ (UNCHANGED faults \/ faults' = faults + 1)
  BY <1>0, StepsOfGroup, HandlingHandles DEF Stays, Takes, Acks, HandlesIt
<1>. SUFFICES ASSUME DistinctNames  PROVE Owned' /\ HandlingsCounted'
  BY <1>1
<1>2. Owned /\ HandlingsCounted
  BY DEF CountInvariant
<1>3. ASSUME UNCHANGED handlings,
             UNCHANGED faults =>
                 \A id \in 1..MaxEntries : Settled(id) => Settled(id)'
      PROVE  HandlingsCounted'
  <2>1. CASE UNCHANGED faults
    BY <1>2, <1>3, <2>1 DEF HandlingsCounted
  <2>2. CASE faults' = faults + 1
    <3>1. \A id \in 1..MaxEntries : handlings[id] \in Nat
      BY <1>0 DEF HandlingsType
    <3>2. \A id \in 1..MaxEntries :
              handlings'[id] <= faults' /\ handlings'[id] <= faults' + 1
      BY <1>0, <1>2, <1>3, <2>2, <3>1 DEF HandlingsCounted
    <3>. QED  BY <3>2 DEF HandlingsCounted
  <2>. QED  BY <1>1, <2>1, <2>2
<1>4. CASE Stays
  <2>1. Owned'
    BY <1>2, <1>4 DEF Stays, Owned
  <2>2. \A id : Settled(id) => Settled(id)'
    BY <1>4 DEF Stays, Settled, Acknowledged, AllPending, InHand, Current
  <2>. QED  BY <1>3, <1>4, <2>1, <2>2 DEF Stays
<1>5. ASSUME NEW c \in Controller, Takes(c)
      PROVE  Owned' /\ HandlingsCounted'
  <2>1. Acknowledged' = Acknowledged
    BY <1>0, <1>5, DeliverSettlesNothing DEF Takes, Acknowledged, AllPending
  <2>2. UNCHANGED handlings /\ \E ids : Leaves(c, ids)
    BY <1>5 DEF Takes
  <2>3. ASSUME UNCHANGED faults, NEW id \in 1..MaxEntries, Settled(id)
        PROVE  Settled(id)'
    <3>1. phase[c] # "ack"
      BY <1>0, <1>5, <2>3 DEF Takes
    <3>2. \A d \in Controller : InHand(d, id) => InHand(d, id)'
      BY <1>0, <2>2, <3>1, OthersKeepTheirs DEF InHand
    <3>. QED  BY <2>1, <2>3, <3>2 DEF Settled
  <2>4. HandlingsCounted'
    BY <1>3, <2>2, <2>3
  <2>. QED  BY <1>0, <1>2, <1>5, <2>4, TakingKeepsOwned
<1>6. ASSUME NEW c \in Controller, Acks(c)
      PROVE  Owned' /\ HandlingsCounted'
  <2>1. PICK id \in batch[c] :
            /\ InHand(c, id) /\ Ack(id)
            /\ UNCHANGED <<cursor, handlings>>
            /\ \E ids : Leaves(c, ids)
    BY <1>6 DEF Acks
  <2>2. Acknowledged' = Acknowledged \union {id}
    BY <1>0, <2>1, BatchIsPublished, AckSettles
  <2>3. ASSUME NEW other \in 1..MaxEntries, Settled(other)
        PROVE  Settled(other)'
    <3>1. CASE other \in Acknowledged
      BY <2>2, <3>1 DEF Settled
    <3>2. ASSUME NEW d \in Controller, InHand(d, other)
          PROVE  Settled(other)'
      <4>1. CASE d = c
        BY <1>0, <2>1, <2>2, <3>2, <4>1, CurrentIsUnique DEF InHand, Settled
      <4>2. CASE d # c
        BY <1>0, <2>1, <3>2, <4>2, OthersKeepTheirs DEF Settled
      <4>. QED  BY <4>1, <4>2
    <3>. QED  BY <2>3, <3>1, <3>2 DEF Settled
  <2>4. HandlingsCounted'
    BY <1>3, <2>1, <2>3
  <2>. QED  BY <1>0, <1>2, <1>6, <2>4, AckingKeepsOwned
<1>7. ASSUME NEW c \in Controller, Handle(c)
      PROVE  Owned' /\ HandlingsCounted'
  <2>1. PICK id \in batch[c] : HandlesIt(c, id)
    BY <1>7, HandlingHandles
  <2>2. Owned' /\ Acknowledged' = Acknowledged
    BY <1>2, <2>1 DEF HandlesIt, Owned, Acknowledged, AllPending
  <2>3. ~Settled(id) /\ id \in 1..MaxEntries
    BY <1>0, <1>2, <2>1, HandlingUnsettled, BatchIsPublished DEF HandlesIt
  <2>4. /\ handlings'[id] = handlings[id] + 1
        /\ \A other \in 1..MaxEntries :
               other # id => handlings'[other] = handlings[other]
    BY <1>0, <2>1, HandlingCounts
  <2>5. Settled(id)'
    <3>1. InHand(c, id)'
      BY <1>0, <2>1
         DEF HandlesIt, InHand, Current, GroupInvariant, GroupTypeOK
    <3>. QED  BY <3>1 DEF Settled
  <2>6. ASSUME NEW other \in 1..MaxEntries, Settled(other)
        PROVE  Settled(other)'
    <3>1. \A d \in Controller : InHand(d, other) => d # c
      BY <2>1 DEF HandlesIt, InHand
    <3>2. \A d \in Controller : InHand(d, other) => InHand(d, other)'
      BY <1>0, <2>1, <3>1, OthersKeepTheirs
    <3>. QED  BY <2>2, <2>6, <3>2 DEF Settled
  <2>7. UNCHANGED faults
    BY <2>1 DEF HandlesIt
  <2>8. handlings[id] <= faults /\ handlings[id] \in Nat
    BY <1>0, <1>2, <2>3 DEF HandlingsCounted, HandlingsType
  <2>9. handlings'[id] <= faults' + 1
    BY <1>0, <2>4, <2>7, <2>8
  <2>10. HandlingsCounted'
    BY <1>2, <2>4, <2>5, <2>6, <2>7, <2>9 DEF HandlingsCounted
  <2>. QED  BY <2>2, <2>10
<1>. QED  BY <1>0, <1>4, <1>5, <1>6, <1>7, StepsOfGroup

LEMMA CountStarts == Init => CountInvariant
<1>. SUFFICES ASSUME Init
              PROVE  faults \in Nat /\ Owned /\ HandlingsCounted
  BY HandledStarts DEF CountInvariant
<1>1. Owned
  BY DEF Init, GroupInit, Owned
<1>2. faults = 0 /\ \A id \in 1..MaxEntries : handlings[id] = 0
  BY DEF Init
<1>. QED  BY <1>1, <1>2 DEF HandlingsCounted

\* Controllers with names of their own handle an entry once, and once more for
\* each failed call, lost reply and restart: nothing about how their XPENDING
\* and XREADGROUP calls interleave adds to it (pending_start_id).
THEOREM EntriesAreHandledOnce == Spec => []HandlingsNeedFaults
<1>1. CountInvariant /\ [Next]_vars => CountInvariant'
  BY NextKeepsGroup, NextKeepsHandled, NextKeepsCount
     DEF CountInvariant, HandledInvariant
<1>2. CountInvariant => HandlingsNeedFaults
  <2>. SUFFICES ASSUME CountInvariant, DistinctNames,
                       NEW id \in 1..MaxEntries
                PROVE  handlings[id] <= 1 + faults
    BY DEF HandlingsNeedFaults
  <2>1. handlings[id] <= faults + 1 /\ faults \in Nat
    BY DEF CountInvariant, HandlingsCounted
  <2>. QED  BY <2>1
<1>. QED  BY CountStarts, <1>1, <1>2, PTL DEF Spec


-----------------------------------------------------------------------------
(* Who asked waits for the answer *)

IdentityInvariant ==
    /\ faults \in Nat
    /\ kept \in [Controller -> [Session -> Seq(1..MaxEntries)]]
    /\ requested \in [Controller -> SUBSET Session]
    /\ underWay \in [Session -> Nat]

AskingInvariant == HandledInvariant /\ IdentityInvariant /\ AnswersHaveAskers

LEMMA AskingIsFinite ==
    ASSUME NEW session
    PROVE  /\ IsFiniteSet(Asking(session))
           /\ Cardinality(Asking(session)) \in Nat
BY ControllerAssumption, FS_Subset, FS_CardinalityType DEF Asking

\* Buffering a segment, and asking with it.
LEMMA KeepingKeepsTypes ==
    ASSUME IdentityInvariant, NEW c \in Controller, NEW session \in Session,
           NEW id \in 1..MaxEntries, Keep(c, session, id)
    PROVE  /\ kept' \in [Controller -> [Session -> Seq(1..MaxEntries)]]
           /\ kept'[c][session] # <<>>
           /\ \A d \in Controller, other \in Session :
                  kept[d][other] # <<>> => kept'[d][other] # <<>>
<1> DEFINE longer == Append(kept[c][session], id)
           own    == [kept[c] EXCEPT ![session] = longer]
<1>1. longer \in Seq(1..MaxEntries) /\ longer # <<>>
  BY DEF IdentityInvariant
<1>2. own \in [Session -> Seq(1..MaxEntries)] /\ own[session] = longer
      /\ \A other \in Session : other # session => own[other] = kept[c][other]
  BY <1>1 DEF IdentityInvariant
<1>3. kept' = [kept EXCEPT ![c] = own]
  BY DEF Keep
<1>. HIDE DEF longer, own
<1>. QED  BY <1>1, <1>2, <1>3 DEF IdentityInvariant

LEMMA HandlingKeepsAskers ==
    ASSUME AskingInvariant, NEW c \in Controller, Handle(c)
    PROVE  IdentityInvariant' /\ AnswersHaveAskers'
<1>0. GroupInvariant /\ IdentityInvariant /\ AnswersHaveAskers
  BY DEF AskingInvariant, HandledInvariant
<1>1. UNCHANGED faults
  BY DEF Handle
<1>2. CASE UNCHANGED <<kept, requested, underWay>>
  BY <1>0, <1>1, <1>2 DEF IdentityInvariant, AnswersHaveAskers, Asking
<1>3. CASE ~UNCHANGED <<kept, requested, underWay>>
  <2>1. PICK id \in batch[c] :
            /\ Keep(c, stream[id], id)
            /\ \/ UNCHANGED <<requested, underWay>>
               \/ /\ Asks(c, stream[id])
                  /\ requested' = [requested EXCEPT ![c] =
                                      @ \union {stream[id]}]
                  /\ underWay' = [underWay EXCEPT ![stream[id]] = @ + 1]
    BY <1>3 DEF Handle
  <2>2. id \in 1..MaxEntries /\ id \in 1..Len(stream)
    BY <1>0, BatchIsPublished
  <2>3. PICK session \in Session : session = stream[id]
    BY <1>0, <2>2 DEF GroupInvariant, StreamShape
  <2>4. /\ kept' \in [Controller -> [Session -> Seq(1..MaxEntries)]]
        /\ kept'[c][session] # <<>>
        /\ \A d \in Controller, other \in Session :
               kept[d][other] # <<>> => kept'[d][other] # <<>>
    BY <1>0, <2>1, <2>2, <2>3, KeepingKeepsTypes
  <2>5. CASE UNCHANGED <<requested, underWay>>
    BY <1>0, <1>1, <2>4, <2>5
       DEF IdentityInvariant, AnswersHaveAskers, Asking
  <2>6. CASE /\ Asks(c, session)
             /\ requested' = [requested EXCEPT ![c] = @ \union {session}]
             /\ underWay' = [underWay EXCEPT ![session] = @ + 1]
    <3>1. IdentityInvariant'
      BY <1>0, <1>1, <2>3, <2>4, <2>6 DEF IdentityInvariant
    <3>2. /\ Asking(session)' = Asking(session) \union {c}
          /\ c \notin Asking(session)
      <4>1. session \notin requested[c]
        BY <2>6 DEF Asks
      <4>2. \A d \in Controller :
                session \in requested'[d] <=> (session \in requested[d] \/ d = c)
        BY <1>0, <2>6 DEF IdentityInvariant
      <4>. QED  BY <4>1, <4>2 DEF Asking
    <3>3. Cardinality(Asking(session)') = Cardinality(Asking(session)) + 1
      BY <3>2, AskingIsFinite, FS_AddElement
    <3>4. \A other \in Session \ {session} :
              Asking(other)' = Asking(other) /\ underWay'[other] = underWay[other]
      BY <1>0, <2>6 DEF IdentityInvariant, Asking
    <3>5. underWay'[session] = underWay[session] + 1 /\ underWay[session] \in Nat
      BY <1>0, <2>3, <2>6 DEF IdentityInvariant
    <3>6. Cardinality(Asking(session)) \in Nat
      BY AskingIsFinite
    <3>7. SUFFICES ASSUME faults' = 0, NEW other \in Session
                   PROVE  /\ underWay'[other] <= Cardinality(Asking(other)')
                          /\ \A d \in Asking(other)' : kept'[d][other] # <<>>
      BY <3>1 DEF AnswersHaveAskers
    <3>8. /\ underWay[other] <= Cardinality(Asking(other))
          /\ \A d \in Asking(other) : kept[d][other] # <<>>
      BY <1>0, <1>1, <3>7 DEF AnswersHaveAskers
    <3>9. CASE other # session
      BY <2>4, <3>4, <3>8, <3>9 DEF Asking
    <3>10. CASE other = session
      <4>0. Asking(other)' = Asking(session)'
        BY <3>10 DEF Asking
      <4>1. underWay'[session] <= Cardinality(Asking(session)')
        BY <3>3, <3>5, <3>6, <3>8, <3>10
      <4>2. \A d \in Asking(session)' : kept'[d][session] # <<>>
        BY <2>3, <2>4, <3>2, <3>8, <3>10 DEF Asking
      <4>. QED  BY <3>10, <4>0, <4>1, <4>2
    <3>. QED  BY <3>9, <3>10
  <2>. QED  BY <2>1, <2>3, <2>5, <2>6
<1>. QED  BY <1>2, <1>3

\* An answer taken away takes an asker away at most, whoever gets it.
LEMMA ResolvingKeepsAskers ==
    ASSUME AskingInvariant, NEW c \in Controller,
           NEW session \in Session, Resolve(c, session)
    PROVE  IdentityInvariant' /\ AnswersHaveAskers'
<1>0. IdentityInvariant /\ AnswersHaveAskers
  BY DEF AskingInvariant
<1>1. /\ UNCHANGED faults
      /\ underWay[session] > 0
      /\ underWay' = [underWay EXCEPT ![session] = @ - 1]
  BY DEF Resolve
<1>2. /\ underWay' \in [Session -> Nat]
      /\ underWay'[session] = underWay[session] - 1
      /\ \A other \in Session \ {session} : underWay'[other] = underWay[other]
      /\ \A other \in Session : underWay[other] \in Nat
  BY <1>0, <1>1 DEF IdentityInvariant
<1>3. CASE kept[c][session] = <<>> /\ UNCHANGED <<kept, requested>>
  <2>1. IdentityInvariant'
    BY <1>0, <1>1, <1>2, <1>3 DEF IdentityInvariant
  <2>. SUFFICES ASSUME faults' = 0, NEW other \in Session
                PROVE  /\ underWay'[other] <= Cardinality(Asking(other)')
                       /\ \A d \in Asking(other)' : kept'[d][other] # <<>>
    BY <2>1 DEF AnswersHaveAskers
  <2>2. /\ underWay[other] <= Cardinality(Asking(other))
        /\ \A d \in Asking(other) : kept[d][other] # <<>>
    BY <1>0, <1>1 DEF AnswersHaveAskers
  <2>3. Asking(other)' = Asking(other) /\ UNCHANGED kept
    BY <1>3 DEF Asking
  <2>4. underWay'[other] <= underWay[other]
    BY <1>2
  <2>5. /\ Cardinality(Asking(other)) \in Nat
        /\ underWay[other] \in Nat /\ underWay'[other] \in Nat
    BY <1>2, AskingIsFinite
  <2>6. underWay'[other] <= Cardinality(Asking(other)')
    BY <2>2, <2>3, <2>4, <2>5
  <2>. QED  BY <2>2, <2>3, <2>6
<1>4. CASE Forget(c, session)
  <2>1. /\ kept' \in [Controller -> [Session -> Seq(1..MaxEntries)]]
        /\ \A d \in Controller, other \in Session :
               (d # c \/ other # session) => kept'[d][other] = kept[d][other]
    <3> DEFINE own == [kept[c] EXCEPT ![session] = <<>>]
    <3>1. own \in [Session -> Seq(1..MaxEntries)]
          /\ \A other \in Session : other # session => own[other] = kept[c][other]
      BY <1>0 DEF IdentityInvariant
    <3>2. kept' = [kept EXCEPT ![c] = own]
      BY <1>4 DEF Forget
    <3>. HIDE DEF own
    <3>. QED  BY <1>0, <3>1, <3>2 DEF IdentityInvariant
  <2>2. /\ requested' \in [Controller -> SUBSET Session]
        /\ \A d \in Controller, other \in Session :
               other \in requested'[d] <=>
                   (other \in requested[d] /\ (d # c \/ other # session))
    BY <1>0, <1>4 DEF Forget, IdentityInvariant
  <2>3. IdentityInvariant'
    BY <1>0, <1>1, <1>2, <2>1, <2>2 DEF IdentityInvariant
  <2>4. /\ Asking(session)' = Asking(session) \ {c}
        /\ \A other \in Session \ {session} : Asking(other)' = Asking(other)
    BY <2>2 DEF Asking
  <2>. SUFFICES ASSUME faults' = 0, NEW other \in Session
                PROVE  /\ underWay'[other] <= Cardinality(Asking(other)')
                       /\ \A d \in Asking(other)' : kept'[d][other] # <<>>
    BY <2>3 DEF AnswersHaveAskers
  <2>5. /\ underWay[other] <= Cardinality(Asking(other))
        /\ \A d \in Asking(other) : kept[d][other] # <<>>
    BY <1>0, <1>1 DEF AnswersHaveAskers
  <2>6. CASE other # session
    BY <1>2, <2>1, <2>4, <2>5, <2>6 DEF Asking
  <2>7. CASE other = session
    <3>1. Asking(other)' = Asking(other) \ {c}
      BY <2>4, <2>7
    <3>2. /\ IsFiniteSet(Asking(other))
          /\ Cardinality(Asking(other)) \in Nat
      BY AskingIsFinite
    <3>3. Cardinality(Asking(other) \ {c}) >= Cardinality(Asking(other)) - 1
      <4>1. CASE c \in Asking(other)
        <5>1. Cardinality(Asking(other) \ {c}) = Cardinality(Asking(other)) - 1
          BY <3>2, <4>1, FS_RemoveElement
        <5>. QED  BY <3>2, <5>1
      <4>2. CASE c \notin Asking(other)
        <5>1. Asking(other) \ {c} = Asking(other)
          BY <4>2
        <5>. QED  BY <3>2, <5>1
      <4>. QED  BY <4>1, <4>2
    <3>4. Cardinality(Asking(other) \ {c}) \in Nat
      BY <3>2, FS_Subset, FS_CardinalityType
    <3>5. underWay'[other] = underWay[other] - 1 /\ underWay[other] \in Nat
      BY <1>2, <2>7
    <3>6. underWay'[other] <= Cardinality(Asking(other)')
      BY <2>5, <3>1, <3>2, <3>3, <3>4, <3>5
    <3>7. \A d \in Asking(other)' : kept'[d][other] # <<>>
      BY <2>1, <2>5, <3>1 DEF Asking
    <3>. QED  BY <3>6, <3>7
  <2>. QED  BY <2>6, <2>7
<1>. QED  BY <1>3, <1>4 DEF Resolve

LEMMA NextKeepsAskers ==
    ASSUME AskingInvariant, [Next]_vars
    PROVE  IdentityInvariant' /\ AnswersHaveAskers'
<1>0. IdentityInvariant /\ AnswersHaveAskers
  BY DEF AskingInvariant
<1>1. ASSUME UNCHANGED <<kept, requested, underWay, faults>>
      PROVE  IdentityInvariant' /\ AnswersHaveAskers'
  BY <1>0, <1>1 DEF IdentityInvariant, AnswersHaveAskers, Asking
<1>2. ASSUME faults' = faults + 1,
             kept' \in [Controller -> [Session -> Seq(1..MaxEntries)]],
             requested' \in [Controller -> SUBSET Session],
             underWay' \in [Session -> Nat]
      PROVE  IdentityInvariant' /\ AnswersHaveAskers'
  <2>1. faults' \in Nat /\ faults' # 0
    BY <1>0, <1>2 DEF IdentityInvariant
  <2>. QED  BY <1>0, <1>2, <2>1 DEF IdentityInvariant, AnswersHaveAskers
<1>3. ASSUME NEW session \in Session, Publish(session)
      PROVE  UNCHANGED <<kept, requested, underWay, faults>>
  BY <1>3 DEF Publish, identityVars
<1>4. ASSUME NEW c \in Controller, Read(c) \/ AckEntry(c)
      PROVE  UNCHANGED <<kept, requested, underWay, faults>>
  BY <1>4 DEF Read, AckEntry, identityVars
<1>5. ASSUME NEW c \in Controller, CallFails(c)
      PROVE  IdentityInvariant' /\ AnswersHaveAskers'
  BY <1>0, <1>2, <1>5 DEF CallFails, Fault, identityVars, IdentityInvariant
<1>6. ASSUME NEW c \in Controller, Restart(c)
      PROVE  IdentityInvariant' /\ AnswersHaveAskers'
  <2>1. NothingKept \in [Session -> Seq(1..MaxEntries)]
    BY DEF NothingKept
  <2>2. /\ kept' \in [Controller -> [Session -> Seq(1..MaxEntries)]]
        /\ requested' \in [Controller -> SUBSET Session]
    BY <1>0, <1>6, <2>1 DEF Restart, IdentityInvariant
  <2>. QED  BY <1>0, <1>2, <1>6, <2>2 DEF Restart, Fault, IdentityInvariant
<1>9. ASSUME NEW c \in Controller, NEW session \in Session,
             ResolverFails(c, session)
      PROVE  IdentityInvariant' /\ AnswersHaveAskers'
  <2>1. underWay' \in [Session -> Nat]
    BY <1>0, <1>9 DEF ResolverFails, IdentityInvariant
  <2>2. /\ kept' \in [Controller -> [Session -> Seq(1..MaxEntries)]]
        /\ requested' \in [Controller -> SUBSET Session]
    <3>1. CASE UNCHANGED <<kept, requested>>
      BY <1>0, <3>1 DEF IdentityInvariant
    <3>2. CASE Forget(c, session)
      <4> DEFINE own == [kept[c] EXCEPT ![session] = <<>>]
      <4>1. own \in [Session -> Seq(1..MaxEntries)]
        BY <1>0 DEF IdentityInvariant
      <4>2. kept' = [kept EXCEPT ![c] = own]
        BY <3>2 DEF Forget
      <4>. HIDE DEF own
      <4>. QED  BY <1>0, <3>2, <4>1, <4>2 DEF Forget, IdentityInvariant
    <3>. QED  BY <1>9, <3>1, <3>2 DEF ResolverFails
  <2>. QED  BY <1>2, <1>9, <2>1, <2>2 DEF ResolverFails, Fault
<1>7. ASSUME NEW client \in Client,
             Connect(client) \/ ServeClient(client) \/ Disconnect(client)
      PROVE  UNCHANGED <<kept, requested, underWay, faults>>
  BY <1>7 DEF Connect, ServeClient, Disconnect, identityVars
<1>8. CASE UNCHANGED vars
  BY <1>1, <1>8 DEF vars, identityVars
<1>. QED  BY <1>1, <1>3, <1>4, <1>5, <1>6, <1>7, <1>8, <1>9,
             HandlingKeepsAskers, ResolvingKeepsAskers
          DEF Next, Listener, Resolver

LEMMA AskersStart == Init => AskingInvariant
<1>. SUFFICES ASSUME Init
              PROVE  IdentityInvariant /\ AnswersHaveAskers
  BY HandledStarts DEF AskingInvariant
<1>1. IdentityInvariant
  BY DEF Init, NothingKept, IdentityInvariant
<1>2. \A session \in Session : Asking(session) = {}
  BY DEF Init, Asking
<1>3. \A session \in Session : underWay[session] = 0
  BY DEF Init
<1>4. \A session \in Session : Cardinality(Asking(session)) = 0
  BY <1>2, FS_EmptySet
<1>5. \A session \in Session :
          /\ underWay[session] <= Cardinality(Asking(session))
          /\ \A c \in Asking(session) : kept[c][session] # <<>>
  BY <1>2, <1>3, <1>4
<1>. QED  BY <1>1, <1>5 DEF AnswersHaveAskers

LEMMA AskersHold == Spec => []AskingInvariant
<1>1. AskingInvariant /\ [Next]_vars => AskingInvariant'
  BY NextKeepsGroup, NextKeepsHandled, NextKeepsAskers
     DEF AskingInvariant, HandledInvariant
<1>. QED  BY AskersStart, <1>1, PTL DEF Spec

\* Among any number of controllers that take each other's answers, there are
\* never more answers of a session under way than controllers that asked and
\* wait with its segments, until something fails: an answer taken by one that
\* has none of the segments leaves another without
\* (handle_resolution_payload).
THEOREM AnswersHaveTheirAskers == Spec => []AnswersHaveAskers
BY AskersHold, PTL DEF AskingInvariant

-----------------------------------------------------------------------------
(* What a client is given *)

\* Along a channel that never overran a client, it was given a whole range.
GivenWhole(connection, channel) ==
    /\ connection.from[channel] <= connection.next[channel]
    /\ connection.got[channel] =
          (connection.from[channel] + 1)..connection.next[channel]

FanoutType ==
    /\ sent \in [Controller -> [Channel -> Nat]]
    /\ link \in [Client -> Link]

LinksAreWhole ==
    \A client \in Client : \A channel \in Channel \ link[client].lagged :
        GivenWhole(link[client], channel)

FanoutInvariant == FanoutType /\ LinksAreWhole

\* A new connection has been given nothing.
LEMMA LinkedIsWhole ==
    ASSUME NEW open \in BOOLEAN, NEW position \in [Channel -> Nat]
    PROVE  /\ Linked(open, position) \in Link
           /\ \A channel \in Channel :
                  GivenWhole(Linked(open, position), channel)
<1>1. Linked(open, position) \in Link
  BY DEF Linked, Link
<1>2. ASSUME NEW channel \in Channel
      PROVE  GivenWhole(Linked(open, position), channel)
  <2>1. position[channel] \in Nat
    OBVIOUS
  <2>2. (position[channel] + 1)..position[channel] = {}
    BY <2>1
  <2>. QED  BY <2>1, <2>2 DEF Linked, GivenWhole
<1>. QED  BY <1>1, <1>2

LEMMA NothingType == Nothing \in [Channel -> Nat]
BY DEF Nothing

\* Fields of a connection.
LEMMA LinkFields ==
    ASSUME NEW connection \in Link, NEW channel \in Channel
    PROVE  /\ connection.next \in [Channel -> Nat]
           /\ connection.from[channel] \in Nat
           /\ connection.next[channel] \in Nat
           /\ connection.got \in [Channel -> SUBSET Nat]
BY DEF Link

\* The next item extends the range.
LEMMA GivenIsWhole ==
    ASSUME NEW connection \in Link, NEW channel \in Channel,
           NEW other \in Channel,
           other \notin connection.lagged => GivenWhole(connection, other)
    PROVE  /\ Given(connection, channel) \in Link
           /\ Given(connection, channel).lagged = connection.lagged
           /\ other \notin connection.lagged =>
                  GivenWhole(Given(connection, channel), other)
<1> DEFINE item == connection.next[channel] + 1
           next == [connection.next EXCEPT ![channel] = item]
           got  == [connection.got EXCEPT
                       ![channel] = connection.got[channel] \union {item}]
<1>1. /\ item \in Nat
      /\ next \in [Channel -> Nat] /\ got \in [Channel -> SUBSET Nat]
  BY LinkFields
<1>2. Given(connection, channel) =
          [connection EXCEPT !.next = next, !.got = got]
  BY DEF Given
<1>3. /\ next[other] = IF other = channel THEN item ELSE connection.next[other]
      /\ got[other] = IF other = channel
                      THEN connection.got[other] \union {item}
                      ELSE connection.got[other]
  BY LinkFields
<1>. HIDE DEF next, got
<1>4. /\ Given(connection, channel) \in Link
      /\ Given(connection, channel).lagged = connection.lagged
      /\ Given(connection, channel).from = connection.from
      /\ Given(connection, channel).next = next
      /\ Given(connection, channel).got = got
  BY <1>1, <1>2 DEF Link
<1>5. ASSUME other \notin connection.lagged
      PROVE  connection.from[other] <= next[other]
             /\ got[other] = (connection.from[other] + 1)..next[other]
  <2>1. CASE other = channel
    <3>1. /\ connection.from[other] \in Nat /\ connection.next[other] \in Nat
          /\ connection.from[other] <= connection.next[other]
          /\ connection.got[other] =
                (connection.from[other] + 1)..connection.next[other]
      BY <1>5, LinkFields DEF GivenWhole
    <3>2. next[other] = connection.next[other] + 1
      BY <1>3, <2>1
    <3>3. got[other] = connection.got[other] \union {connection.next[other] + 1}
      BY <1>3, <2>1
    <3>. QED  BY <3>1, <3>2, <3>3
  <2>2. CASE other # channel
    BY <1>3, <1>5, <2>2 DEF GivenWhole
  <2>. QED  BY <2>1, <2>2
<1>. QED  BY <1>4, <1>5 DEF GivenWhole

\* Being moved on along one channel changes nothing on the other.
LEMMA MovedOnIsWhole ==
    ASSUME NEW connection \in Link, NEW channel \in Channel,
           NEW other \in Channel, NEW position \in Nat,
           other \notin connection.lagged => GivenWhole(connection, other)
    PROVE  /\ MovedOn(connection, channel, position) \in Link
           /\ other \notin MovedOn(connection, channel, position).lagged =>
                  GivenWhole(MovedOn(connection, channel, position), other)
<1> DEFINE next == [connection.next EXCEPT ![channel] = position]
           moved == MovedOn(connection, channel, position)
<1>1. next \in [Channel -> Nat]
      /\ (other # channel => next[other] = connection.next[other])
  BY LinkFields
<1>2. moved = [connection EXCEPT !.next = next,
                                 !.lagged = @ \union {channel}]
  BY DEF MovedOn
<1>. HIDE DEF next, moved
<1>3. /\ moved \in Link
      /\ moved.lagged = connection.lagged \union {channel}
      /\ moved.from = connection.from /\ moved.got = connection.got
      /\ moved.next = next
  BY <1>1, <1>2 DEF Link
<1>. QED  BY <1>1, <1>3 DEF GivenWhole, moved

\* One connection changes.
LEMMA OneLinkKeepsFanout ==
    ASSUME FanoutInvariant, NEW client \in Client, NEW new \in Link,
           \A channel \in Channel \ new.lagged : GivenWhole(new, channel),
           link' = [link EXCEPT ![client] = new], UNCHANGED sent
    PROVE  FanoutInvariant'
<1>1. /\ link' \in [Client -> Link]
      /\ \A other \in Client :
             link'[other] = IF other = client THEN new ELSE link[other]
  BY DEF FanoutInvariant, FanoutType
<1>2. LinksAreWhole'
  BY <1>1 DEF FanoutInvariant, LinksAreWhole
<1>. QED  BY <1>1, <1>2 DEF FanoutInvariant, FanoutType

LEMMA SendKeepsFanout ==
    ASSUME FanoutInvariant, NEW c \in Controller,
           NEW live \in Nat, NEW identity \in Nat,
           Send(c, live, identity), UNCHANGED link
    PROVE  FanoutInvariant'
<1> DEFINE more == [channel \in Channel |->
                sent[c][channel] + (IF channel = "live" THEN live ELSE identity)]
<1>1. more \in [Channel -> Nat]
  BY DEF FanoutInvariant, FanoutType
<1>2. sent' = [sent EXCEPT ![c] = more]
  BY DEF Send
<1>. HIDE DEF more
<1>3. FanoutType'
  BY <1>1, <1>2 DEF FanoutInvariant, FanoutType
<1>. QED  BY <1>3 DEF FanoutInvariant, LinksAreWhole

LEMMA ConnectionsKeepFanout ==
    ASSUME FanoutInvariant, NEW client \in Client,
           Subscribe(client) \/ ClientTask(client) \/ Leave(client)
    PROVE  FanoutInvariant'
<1>1. /\ link[client] \in Link /\ Server[client] \in Controller
      /\ sent[Server[client]] \in [Channel -> Nat]
      /\ \A channel \in Channel \ link[client].lagged :
             GivenWhole(link[client], channel)
  BY FanoutAssumption DEF FanoutInvariant, FanoutType, LinksAreWhole
<1>2. CASE Subscribe(client)
  BY <1>1, <1>2, LinkedIsWhole, OneLinkKeepsFanout DEF Subscribe
<1>3. CASE Leave(client)
  BY <1>3, NothingType, LinkedIsWhole, OneLinkKeepsFanout DEF Leave, NoLink
<1>4. ASSUME NEW channel \in Channel, Receive(client, channel)
      PROVE  FanoutInvariant'
  <2>1. link' = [link EXCEPT ![client] = Given(link[client], channel)]
        /\ UNCHANGED sent
    BY <1>4 DEF Receive
  <2>2. Given(link[client], channel) \in Link
        /\ \A other \in Channel \ Given(link[client], channel).lagged :
               GivenWhole(Given(link[client], channel), other)
    BY <1>1, GivenIsWhole
  <2>. QED  BY <2>1, <2>2, OneLinkKeepsFanout
<1>5. ASSUME NEW channel \in Channel, Lag(client, channel)
      PROVE  FanoutInvariant'
  <2> DEFINE position == sent[Server[client]][channel] - Capacity
             moved    == MovedOn(link[client], channel, position)
  <2>1. link' = [link EXCEPT ![client] = moved] /\ UNCHANGED sent
    BY <1>5 DEF Lag
  <2>2. position \in Nat
    <3>1. Behind(client, channel) > Capacity
      BY <1>5 DEF Lag
    <3>2. Capacity \in Nat /\ Capacity > 0
      BY FanoutAssumption
    <3>3. Behind(client, channel) =
              sent[Server[client]][channel] - link[client].next[channel]
      BY <3>1, <3>2 DEF Behind
    <3>4. /\ sent[Server[client]][channel] \in Nat
          /\ link[client].next[channel] \in Nat
      BY <1>1, LinkFields
    <3>. QED  BY <3>1, <3>2, <3>3, <3>4
  <2>. HIDE DEF position
  <2>3. moved \in Link
        /\ \A other \in Channel \ moved.lagged : GivenWhole(moved, other)
    BY <1>1, <2>2, MovedOnIsWhole
  <2>. HIDE DEF moved
  <2>. QED  BY <2>1, <2>3, OneLinkKeepsFanout
<1>. QED  BY <1>2, <1>3, <1>4, <1>5 DEF ClientTask

LEMMA ResetKeepsFanout ==
    ASSUME FanoutInvariant, NEW c \in Controller, ResetFanout(c)
    PROVE  FanoutInvariant'
<1>1. NoLink \in Link /\ \A channel \in Channel : GivenWhole(NoLink, channel)
  BY NothingType, LinkedIsWhole DEF NoLink
<1>2. /\ link' \in [Client -> Link]
      /\ \A client \in Client : link'[client] \in {NoLink, link[client]}
  BY <1>1 DEF ResetFanout, FanoutInvariant, FanoutType
<1>3. LinksAreWhole'
  BY <1>1, <1>2 DEF FanoutInvariant, LinksAreWhole
<1>4. sent' \in [Controller -> [Channel -> Nat]]
  BY NothingType DEF ResetFanout, FanoutInvariant, FanoutType
<1>. QED  BY <1>2, <1>3, <1>4 DEF FanoutInvariant, FanoutType

LEMMA NextKeepsFanout ==
    ASSUME AskingInvariant, FanoutInvariant, [Next]_vars
    PROVE  FanoutInvariant'
<1>1. CASE UNCHANGED fanoutVars
  BY <1>1 DEF fanoutVars, FanoutInvariant, FanoutType, LinksAreWhole
<1>2. ASSUME NEW c \in Controller, Handle(c)
      PROVE  FanoutInvariant'
  <2>1. UNCHANGED link /\ (UNCHANGED sent \/ Send(c, 1, 0))
    BY <1>2 DEF Handle
  <2>. QED  BY <1>1, <2>1, SendKeepsFanout DEF fanoutVars
<1>3. ASSUME NEW c \in Controller, NEW session \in Session, Resolve(c, session)
      PROVE  FanoutInvariant'
  <2>1. /\ UNCHANGED link
        /\ UNCHANGED sent \/ Send(c, Len(kept[c][session]), 1)
    BY <1>3 DEF Resolve
  <2>2. Len(kept[c][session]) \in Nat
    BY DEF AskingInvariant, IdentityInvariant
  <2>. QED  BY <1>1, <2>1, <2>2, SendKeepsFanout DEF fanoutVars
<1>9. ASSUME NEW c \in Controller, NEW session \in Session,
             ResolverFails(c, session)
      PROVE  FanoutInvariant'
  <2>1. Len(kept[c][session]) \in Nat
    BY DEF AskingInvariant, IdentityInvariant
  <2>2. /\ UNCHANGED link
        /\ \/ UNCHANGED sent
           \/ \E n \in 0..(Len(kept[c][session]) - 1) : Send(c, n, 1)
    BY <1>9 DEF ResolverFails
  <2>3. UNCHANGED sent \/ \E n \in Nat : Send(c, n, 1)
    BY <2>1, <2>2
  <2>. QED  BY <1>1, <2>2, <2>3, SendKeepsFanout DEF fanoutVars
<1>4. ASSUME NEW c \in Controller, Restart(c)
      PROVE  FanoutInvariant'
  BY <1>4, ResetKeepsFanout DEF Restart
<1>5. ASSUME NEW client \in Client,
             Connect(client) \/ ServeClient(client) \/ Disconnect(client)
      PROVE  FanoutInvariant'
  BY <1>5, ConnectionsKeepFanout DEF Connect, ServeClient, Disconnect
<1>6. ASSUME NEW c \in Controller, Read(c) \/ AckEntry(c) \/ CallFails(c)
      PROVE  UNCHANGED fanoutVars
  BY <1>6 DEF Read, AckEntry, CallFails
<1>7. ASSUME NEW session \in Session, Publish(session)
      PROVE  UNCHANGED fanoutVars
  BY <1>7 DEF Publish
<1>8. CASE UNCHANGED vars
  BY <1>1, <1>8 DEF vars
<1>. QED  BY <1>1, <1>2, <1>3, <1>4, <1>5, <1>6, <1>7, <1>8, <1>9
          DEF Next, Listener, Resolver

LEMMA FanoutStarts == Init => FanoutInvariant
<1>1. NoLink \in Link /\ \A channel \in Channel : GivenWhole(NoLink, channel)
  BY NothingType, LinkedIsWhole DEF NoLink
<1>. QED  BY <1>1, NothingType
          DEF Init, FanoutInit, FanoutInvariant, FanoutType, LinksAreWhole

LEMMA FanoutHolds == Spec => [](AskingInvariant /\ FanoutInvariant)
<1>1. FanoutInvariant /\ AskingInvariant /\ [Next]_vars => FanoutInvariant'
  BY NextKeepsFanout
<1>. QED  BY FanoutStarts, AskersHold, <1>1, PTL DEF Spec

\* Whatever the number of clients and of items and the capacity, a connected
\* client misses nothing between two items it was given, unless that channel
\* overran it (handle_live_socket).
THEOREM ClientsMissOnlyOverruns == Spec => []GapsNeedOverrun
<1>1. FanoutInvariant => GapsNeedOverrun
  BY DEF FanoutInvariant, LinksAreWhole, GivenWhole, GapsNeedOverrun
<1>. QED  BY <1>1, FanoutHolds, PTL

\* The variables of the group keep their types.
THEOREM ControllerGroupTypes == Spec => []TypeOK
<1> DEFINE Rest == stored \subseteq Session /\ connections \in Nat
           All  == AskingInvariant /\ FanoutInvariant
<1>1. Init => Rest
  BY DEF Init
<1>2. Rest /\ [Next]_vars => Rest'
  <2>. SUFFICES ASSUME Rest, [Next]_vars  PROVE Rest'
    OBVIOUS
  <2>1. /\ \/ UNCHANGED stored
           \/ \E session \in Session : stored' = stored \union {session}
        /\ UNCHANGED connections \/ connections' = connections + 1
    BY DEF Next, Publish, Listener, Read, Handle, AckEntry, Resolver, Resolve,
           ResolverFails, CallFails, Restart, Connect, ServeClient, Disconnect, identityVars,
           vars
  <2>. QED  BY <2>1
<1>3. All /\ Rest => TypeOK
  BY DEF AskingInvariant, HandledInvariant, GroupInvariant, StreamShape,
         HandlingsType, IdentityInvariant, FanoutInvariant, FanoutType, TypeOK
<1>4. Spec => []All
  BY FanoutHolds
<1>. HIDE DEF Rest, All
<1>. QED  BY <1>1, <1>2, <1>3, <1>4, PTL DEF Spec

=============================================================================
