---------------------------- MODULE MCArchiveJobs -----------------------------
(***************************************************************************)
(* Small instances of ArchiveJobs for TLC: two bytes of PCM to Riva's       *)
(* millisecond, chunks of four bytes.                                       *)
(***************************************************************************)
EXTENDS ArchiveJobs

CONSTANTS long, short, bad

Mono(rate) == [rate |-> rate, channels |-> 1, bits |-> 16]

MCRivaInfo == Mono(1000)
SameInfo   == [path \in Path |-> Mono(1000)]
MixedInfo  == [path \in Path |-> IF path = short THEN Mono(2000) ELSE Mono(1000)]

\* Three chunks, the last one shorter; two; one.
MCFileLength == [path \in Path |->
                    IF path = long THEN 10 ELSE IF path = short THEN 8 ELSE 4]

MCChunk == UNION {{path} \X (1..ChunksOf(path)) : path \in Path}
MCUtterancesOf == [chunk \in MCChunk |-> <<chunk>>]

=============================================================================
