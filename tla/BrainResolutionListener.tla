----------------------- MODULE BrainResolutionListener -----------------------
(***************************************************************************)
(* BrainResolutionListener of teto-controller (queue.rs): takes an answer  *)
(* of the brain, removes the session's entry from the shared map, and for  *)
(* each named speaker, in the order of the map of names: stores the voice, *)
(* announces the identity, replays the speaker's buffered segments.  What  *)
(* is left of the entry when the names are applied goes out of scope.      *)
(*                                                                         *)
(* rpc is where the task is in handle_resolution_payload, hand its locals. *)
(* An error leaves the loop and the locals with it.                        *)
(***************************************************************************)
EXTENDS ControllerState

Applying(tag) == IsLeast(tag, hand.todo)

BackToIdle == rpc' = "idle" /\ hand' = NoHand

\* BRPOP of a resolution and the removal of its session's entry.  Between
\* the two the task holds a payload taken from the list's tail, and every
\* step of another task commutes with that pop: others only push at the
\* head.
TakeResolution ==
    /\ rpc = "idle"
    /\ resolutions # <<>>
    /\ resolutions' = AfterPop(resolutions)
    /\ LET response == Popped(resolutions)
           entry    == pending[response.session] IN
       /\ pending' = [pending EXCEPT ![response.session] = NoEntry]
       /\ IF entry = NoEntry \/ ~MemoryUp
          THEN UNCHANGED resolverVars
          ELSE /\ rpc' = "upsert"
               /\ hand' = [session |-> response.session, entry |-> entry,
                           names |-> response.names,
                           todo |-> NamedBy(response.names), left |-> {}]
    /\ UNCHANGED <<stream, cursor, pel, brainQueue, memory, listenerVars,
                   brainJob, liveVars, buffered, upserted, faults>>

\* A name for a speaker the entry holds no fingerprint of is skipped.
SkipUnprinted ==
    /\ rpc = "upsert"
    /\ \E tag \in hand.todo :
        /\ Applying(tag)
        /\ hand.entry.prints[tag] = NoVoice
        /\ hand' = [hand EXCEPT !.todo = @ \ {tag}]
    /\ UNCHANGED <<redisVars, memory, listenerVars, pending, rpc, brainJob,
                   liveVars, buffered, upserted, faults>>

\* upsert_voice_identity replaces whatever the point held.
Upsert(tag) ==
    LET voice == hand.entry.prints[tag]
        name  == hand.names[tag] IN
    /\ voice # NoVoice
    /\ <<hand.session, tag>> \notin Refused
    /\ memory' = [memory EXCEPT ![<<hand.session, tag>>] =
                      [voice |-> voice, name |-> name]]
    /\ upserted' = upserted \union
          {[session |-> hand.session, tag |-> tag,
            voice |-> voice, name |-> name]}

UpsertVoiceIdentity ==
    /\ rpc = "upsert"
    /\ \E tag \in hand.todo : Applying(tag) /\ Upsert(tag)
    /\ rpc' = "announce"
    /\ UNCHANGED <<redisVars, listenerVars, pending, hand, brainJob, liveVars,
                   buffered, faults>>

\* The storage refuses the point's id.  The error ends the handling of the
\* answer, and the removed entry goes with it.
UpsertRefused ==
    /\ rpc = "upsert"
    /\ \E tag \in hand.todo :
        /\ Applying(tag)
        /\ hand.entry.prints[tag] # NoVoice
        /\ <<hand.session, tag>> \in Refused
    /\ BackToIdle
    /\ UNCHANGED <<redisVars, memory, listenerVars, pending, brainJob,
                   liveVars, buffered, upserted, faults>>

\* Mutant: every name of the answer is announced with the first.
AnnounceAll(tag) ==
    /\ announced' = announced \union
          {[session |-> hand.session, tag |-> other,
            name |-> hand.names[other]] : other \in hand.todo}
    /\ UNCHANGED <<shown, showings>>

\* PUBLISH of IdentityResolved, and identity_tx.send.
Announce(tag) ==
    /\ announced' = announced \union
          {[session |-> hand.session, tag |-> tag, name |-> hand.names[tag]]}
    /\ UNCHANGED <<shown, showings>>

\* Mutant: the replay starts one segment late.
EmitAndSkipFirst ==
    /\ rpc = "announce"
    /\ \E tag \in hand.todo :
        /\ Applying(tag)
        /\ Announce(tag)
        /\ hand' = [hand EXCEPT !.left =
              {i \in DOMAIN hand.entry.segments :
                  i > 1 /\ TagOf[hand.entry.segments[i]] = tag}]
    /\ rpc' = "replay"
    /\ UNCHANGED <<redisVars, memory, listenerVars, pending, brainJob,
                   buffered, upserted, faults>>

EmitIdentityResolved ==
    /\ rpc = "announce"
    /\ \E tag \in hand.todo :
        /\ Applying(tag)
        /\ Announce(tag)
        /\ hand' = [hand EXCEPT !.left =
              {i \in DOMAIN hand.entry.segments :
                  TagOf[hand.entry.segments[i]] = tag}]
    /\ rpc' = "replay"
    /\ UNCHANGED <<redisVars, memory, listenerVars, pending, brainJob,
                   buffered, upserted, faults>>

\* One round of the loop of replay_buffered_segments.
Replay(i) ==
    \E tag \in hand.todo :
        /\ Applying(tag)
        /\ Show(hand.entry.segments[i], hand.names[tag])

ReplayBufferedSegment ==
    /\ rpc = "replay"
    /\ \E i \in hand.left :
        /\ IsLeast(i, hand.left)
        /\ Replay(i)
        /\ hand' = [hand EXCEPT !.left = @ \ {i}]
    /\ UNCHANGED <<redisVars, memory, listenerVars, pending, rpc, brainJob,
                   buffered, upserted, faults>>

\* Mutant: the replay may stop before its last segment.
ReplayCutShort ==
    /\ rpc = "replay"
    /\ \E tag \in hand.todo :
        /\ Applying(tag)
        /\ hand' = [hand EXCEPT !.todo = @ \ {tag}, !.left = {}]
    /\ rpc' = "upsert"
    /\ UNCHANGED <<redisVars, memory, listenerVars, pending, brainJob,
                   liveVars, buffered, upserted, faults>>

\* Mutant: the loop over the names does not move on.
SameNameAgain ==
    /\ rpc = "replay"
    /\ hand.left = {}
    /\ rpc' = "upsert"
    /\ UNCHANGED <<redisVars, memory, listenerVars, pending, hand, brainJob,
                   liveVars, buffered, upserted, faults>>

ReplayDone ==
    /\ rpc = "replay"
    /\ hand.left = {}
    /\ \E tag \in hand.todo :
        /\ Applying(tag)
        /\ hand' = [hand EXCEPT !.todo = @ \ {tag}]
    /\ rpc' = "upsert"
    /\ UNCHANGED <<redisVars, memory, listenerVars, pending, brainJob,
                   liveVars, buffered, upserted, faults>>

\* The loop over the names is over: the entry is dropped.
ResolutionApplied ==
    /\ rpc = "upsert"
    /\ hand.todo = {}
    /\ BackToIdle
    /\ UNCHANGED <<redisVars, memory, listenerVars, pending, brainJob,
                   liveVars, buffered, upserted, faults>>

ResolverStep ==
    \/ TakeResolution \/ SkipUnprinted \/ UpsertVoiceIdentity
    \/ UpsertRefused \/ EmitIdentityResolved \/ ReplayBufferedSegment
    \/ ReplayDone \/ ResolutionApplied

-----------------------------------------------------------------------------
(* Failures.  The entry was removed from the map before any of them.       *)

\* The reply to BRPOP is lost, and the resolution with it.
ResolutionLost ==
    /\ rpc = "idle"
    /\ resolutions # <<>>
    /\ resolutions' = AfterPop(resolutions)
    /\ Fault
    /\ UNCHANGED <<stream, cursor, pel, brainQueue, memory, listenerVars,
                   pending, resolverVars, brainJob, liveVars, buffered,
                   upserted>>

ResolverCallFails ==
    /\ rpc # "idle"
    /\ hand.todo # {}
    /\ rpc = "replay" => hand.left # {}
    /\ Fault
    /\ BackToIdle
    /\ UNCHANGED <<redisVars, memory, listenerVars, pending, brainJob,
                   liveVars, buffered, upserted>>

\* The call took effect, its reply did not reach the listener.
ResolverReplyLost ==
    /\ \/ /\ rpc = "upsert"
          /\ \E tag \in hand.todo : Applying(tag) /\ Upsert(tag)
          /\ UNCHANGED liveVars
       \/ /\ rpc = "announce"
          /\ \E tag \in hand.todo : Applying(tag) /\ Announce(tag)
          /\ UNCHANGED <<memory, upserted>>
       \/ /\ rpc = "replay"
          /\ \E i \in hand.left : IsLeast(i, hand.left) /\ Replay(i)
          /\ UNCHANGED <<memory, upserted>>
    /\ Fault
    /\ BackToIdle
    /\ UNCHANGED <<redisVars, listenerVars, pending, brainJob, buffered>>

ResolverFault == ResolutionLost \/ ResolverCallFails \/ ResolverReplyLost

=============================================================================
