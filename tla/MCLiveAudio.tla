----------------------------- MODULE MCLiveAudio ------------------------------
(***************************************************************************)
(* Small instances of LiveAudio for TLC: two chunks with three utterances   *)
(* between them and an empty one.                                           *)
(***************************************************************************)
EXTENDS LiveAudio

CONSTANTS one, two, none, u1, u2, u3

MCUtterancesOf == [message \in Chunk |->
                      IF message = one THEN <<u1, u2>>
                      ELSE IF message = two THEN <<u3>> ELSE <<>>]

=============================================================================
