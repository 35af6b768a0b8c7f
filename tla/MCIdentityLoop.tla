--------------------------- MODULE MCIdentityLoop ----------------------------
(***************************************************************************)
(* Small instances of IdentityLoop for TLC.                                *)
(***************************************************************************)
EXTENDS IdentityLoop

CONSTANTS s1, s2, v1, v2, ana, bob, a0, a1, a0v2, b0, c, x

\* Session s1 has speakers 0 (voice v1, once misheard as v2) and 1 (voice
\* v2); session s2 hears voice v1 again, as speaker 0; c has no fingerprint;
\* x does not decode.
MCSessionOf == [segment \in Segment |-> IF segment = b0 THEN s2 ELSE s1]
MCTagOf     == [segment \in Segment |-> IF segment = a1 THEN 1 ELSE 0]
MCVoiceOf   == [segment \in Segment |->
                   IF segment \in {a0, b0} THEN v1
                   ELSE IF segment \in {a1, a0v2} THEN v2 ELSE NoVoice]

\* Nobody is named, or the first speaker is, or both are.
Names(zero, one) == [tag \in Tag |-> IF tag = 0 THEN zero ELSE one]

BothOrNone == {Names(NoName, NoName), Names(ana, bob)}

FirstOrNone == {Names(NoName, NoName), Names(ana, NoName)}

\* A storage that takes no point of session s2.
SecondSession == {<<s2, tag>> : tag \in Tag}

=============================================================================
