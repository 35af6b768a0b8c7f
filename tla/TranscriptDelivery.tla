------------------------- MODULE TranscriptDelivery --------------------------
(***************************************************************************)
(* What the identity loop promises the readers of the live channel, with   *)
(* no queue, task or failure in it: only published segments are shown; a   *)
(* segment with a voice is never shown nameless; a name on it is one the   *)
(* system had learned before, for that very speaker of that session or for *)
(* that very voice; and a speaker is announced only under a learned name.  *)
(* It does not promise that a segment is shown, or shown once.             *)
(***************************************************************************)
CONSTANTS Segment, Session, Tag, Voice, Name, NoVoice, NoName,
          SessionOf, TagOf, VoiceOf

VARIABLES published, known, shown, announced

vars == <<published, known, shown, announced>>

Fact == [session : Session, tag : Tag, voice : Voice, name : Name]

Init == published = {} /\ known = {} /\ shown = {} /\ announced = {}

Publish(segment) ==
    /\ published' = published \union {segment}
    /\ UNCHANGED <<known, shown, announced>>

Learn(fact) ==
    /\ known' = known \union {fact}
    /\ UNCHANGED <<published, shown, announced>>

\* A fact that justifies showing the segment under the fact's name.
IsAbout(fact, segment) ==
    \/ fact.session = SessionOf[segment] /\ fact.tag = TagOf[segment]
    \/ fact.voice = VoiceOf[segment]

Show(segment) ==
    /\ segment \in published
    /\ \/ /\ VoiceOf[segment] = NoVoice
          /\ shown' = shown \union {[segment |-> segment, name |-> NoName]}
       \/ \E fact \in known :
            /\ IsAbout(fact, segment)
            /\ shown' = shown \union
                            {[segment |-> segment, name |-> fact.name]}
    /\ UNCHANGED <<published, known, announced>>

Announce(fact) ==
    /\ fact \in known
    /\ announced' = announced \union
          {[session |-> fact.session, tag |-> fact.tag, name |-> fact.name]}
    /\ UNCHANGED <<published, known, shown>>

Next ==
    \/ \E segment \in Segment : Publish(segment) \/ Show(segment)
    \/ \E fact \in Fact : Learn(fact) \/ Announce(fact)

Spec == Init /\ [][Next]_vars

=============================================================================
