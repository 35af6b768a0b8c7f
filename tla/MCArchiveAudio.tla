---------------------------- MODULE MCArchiveAudio ----------------------------
(***************************************************************************)
(* Small instances of ArchiveAudio for TLC: files of at most 76 bytes at   *)
(* rates where a millisecond takes two, four or one and a half bytes.      *)
(***************************************************************************)
EXTENDS ArchiveAudio

As(pcm, rate, channels, bits) ==
    [pcm |-> pcm, rate |-> rate, channels |-> channels, bits |-> bits]

MCFormat == {As(TRUE, 1000, 1, 16), As(TRUE, 1000, 2, 16),
             As(TRUE, 750, 1, 16), As(TRUE, 1000, 1, 24),
             As(FALSE, 1000, 1, 16), As(TRUE, 1000, 0, 16),
             As(TRUE, 1000, 1, 12), As(TRUE, 1000, 1, 0)}

MCDefaultInfo == [rate |-> 1000, channels |-> 1, bits |-> 16]

At(start, end, speaker) == [start |-> start, end |-> end, speaker |-> speaker]

\* Words in and out of order, nested, without times or speaker, and none.
MCWords == {{}, {At(1, 3, 1)}, {At(0, 6, 1), At(1, 2, 2)},
            {At(2, 3, 0), At(5, 7, 2)}, {At(-1, 2, 1)}, {At(4, -1, 1)},
            {At(6, -1, 0), At(-1, 2, 1)}, {At(1, 40, 1)}}

=============================================================================
