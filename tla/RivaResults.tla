----------------------------- MODULE RivaResults ------------------------------
(***************************************************************************)
(* What the worker makes of one of Riva's final results (result_to_segment *)
(* in riva_client.rs): whose it is and which time it spans.  Word times    *)
(* are milliseconds; a time or a speaker Riva does not know is negative or *)
(* zero.  Of a result's text only its words' tags and times matter here.   *)
(***************************************************************************)
EXTENDS Integers

Word == [start : Int, end : Int, speaker : Int]

Minimum(set) == CHOOSE m \in set : \A n \in set : m <= n
Maximum(set) == CHOOSE m \in set : \A n \in set : m >= n

\* speaker_tag_from_words: the greatest tag; 0 stands for Speaker_unknown.
SpeakerTag(words) ==
    Maximum(({word.speaker : word \in words} \intersect Nat) \union {0})

StartTimes(words) == {word.start : word \in words} \intersect Nat
EndTimes(words)   == {word.end : word \in words} \intersect Nat

StartMs(words) == IF StartTimes(words) = {} THEN 0
                  ELSE Minimum(StartTimes(words))

\* Mutant: the range ends with the word that starts last.
EndOfLastWord(words, processed) ==
    IF words = {} THEN processed
    ELSE LET last == CHOOSE word \in words :
                        \A other \in words : other.start <= word.start IN
         Maximum({last.end, StartMs(words)})

\* time_range_from_words; audio_processed stands in where no word has an end.
EndMs(words, processed) ==
    Maximum({StartMs(words),
             IF EndTimes(words) = {} THEN processed
             ELSE Maximum(EndTimes(words))})

SegmentOf(words, processed) ==
    [tag |-> SpeakerTag(words), start |-> StartMs(words),
     end |-> EndMs(words, processed)]

=============================================================================
