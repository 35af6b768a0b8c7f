--------------------------- MODULE MCAudioTimeline ---------------------------
(***************************************************************************)
(* Small instances of AudioTimeline for TLC: 16 bit mono at a rate low      *)
(* enough that a chunk of a few bytes lasts a few milliseconds.             *)
(***************************************************************************)
EXTENDS AudioTimeline

\* Two bytes to the millisecond.
MCLiveInfo == [rate |-> 1000, channels |-> 1, bits |-> 16]

\* Three bytes to two milliseconds.
MCOddInfo == [rate |-> 750, channels |-> 1, bits |-> 16]

=============================================================================
