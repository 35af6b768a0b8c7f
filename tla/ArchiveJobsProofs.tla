-------------------------- MODULE ArchiveJobsProofs ---------------------------
(***************************************************************************)
(* Theorems about ArchiveJobs, for any files, sizes of chunk, channel and   *)
(* window and number of failures: its types, that what is published of a    *)
(* file is the beginning of its transcript, that a failure costs one job,   *)
(* and, for files of the format Riva is told, that excerpts are exact.      *)
(***************************************************************************)
EXTENDS ArchiveJobs, FiniteSetTheorems, TLAPS

-----------------------------------------------------------------------------
(* The invariant *)

NoRepeat(list) == \A i, j \in DOMAIN list : list[i] = list[j] => i = j

\* A path is enqueued once and goes from the list to the task's hands.
JobInvariant ==
    /\ \A path, other \in job : path = other
    /\ NoRepeat(jobs)
    /\ ToSet(jobs) \subseteq ToSet(requested)
    /\ ToSet(taken) \subseteq ToSet(requested)
    /\ ToSet(jobs) \cap ToSet(taken) = {}
    /\ job \subseteq ToSet(taken)
    /\ \A i \in DOMAIN published : published[i].utterance[1] \in ToSet(taken)
    /\ apc # "publish" => \A path \in job : Transcript(path) = {}

\* What the place of the task says of its session.
PlaceInvariant ==
    /\ apc \notin {"pop", "decode"} => job \cap Undecodable = {}
    /\ apc \notin {"close", "publish"} => found = <<>>
    /\ apc \notin {"send", "close"} => AtEnd
    /\ apc = "send" => senderOpen
    /\ apc = "send" => \A path \in job : next <= ChunksOf(path) + 1
    /\ apc = "close" => \A path \in job : next = ChunksOf(path) + 1

\* The utterances of a path after the first `from` of them.
Run(list, path, from) == \A i \in DOMAIN list : list[i] = <<path, from + i>>

\* Replies with the utterances of a path from one to another.
Replied(lists, path, from, to) ==
    \E starts \in [1..(Len(lists) + 1) -> Nat] :
        /\ starts[1] = from /\ starts[Len(lists) + 1] = to
        /\ \A r \in 1..Len(lists) :
              /\ Run(lists[r], path, starts[r])
              /\ starts[r + 1] = starts[r] + Len(lists[r])

\* The chunks sent are, in their order, in the channel, in Riva's memory, in
\* replies and in the worker's hands.
Pipeline(path) ==
    \E reported \in Nat :
        /\ Run(found, path, 0)
        /\ Replied(replies, path, Len(found), reported)
        /\ Run(heard, path, reported)
        /\ Run(requests, path, reported + Len(heard))
        /\ reported + Len(heard) + Len(requests) + 1 = next

Count(path) == Cardinality(Transcript(path))

PipelineInvariant ==
    \A path \in job :
        /\ apc \in {"send", "close"} => Pipeline(path)
        /\ apc = "publish" => Run(found, path, Count(path))

\* The job in hand will not be published whole.
Broken(path) ==
    \/ apc = "send" /\ reply # "open"
    \/ apc = "close" /\ reply # "open"
                     /\ ~(reply = "ended" /\ heard = <<>> /\ requests = <<>>)
    \/ apc = "publish" /\ Count(path) + Len(found) < ChunksOf(path)

Hit == {path \in Path : Spoiled(path) \/ (path \in job /\ Broken(path))}

FaultInvariant == IsFiniteSet(Hit) /\ Cardinality(Hit) <= faults

-----------------------------------------------------------------------------
(* Sequences *)

\* The empty sequence.
LEMMA Empty ==
    ASSUME NEW S
    PROVE  /\ <<>> \in Seq(S) /\ Len(<<>>) = 0 /\ DOMAIN <<>> = {}
           /\ ToSet(<<>>) = {} /\ NoRepeat(<<>>)
           /\ \A path, from : Run(<<>>, path, from)
<1>1. <<>> \in Seq(S) /\ Len(<<>>) = 0 /\ DOMAIN <<>> = {}
  OBVIOUS
<1>. QED  BY <1>1 DEF ToSet, NoRepeat, Run

LEMMA Elements ==
    ASSUME NEW S, NEW list \in Seq(S), NEW i \in DOMAIN list
    PROVE  list[i] \in S
OBVIOUS

\* One more element.
LEMMA OneMore ==
    ASSUME NEW S, NEW list \in Seq(S), NEW element \in S
    PROVE  /\ Append(list, element) \in Seq(S)
           /\ Len(list) \in Nat /\ Len(Append(list, element)) = Len(list) + 1
           /\ DOMAIN Append(list, element) = DOMAIN list \union {Len(list) + 1}
           /\ Len(list) + 1 \notin DOMAIN list
           /\ \A i \in DOMAIN list : Append(list, element)[i] = list[i]
           /\ Append(list, element)[Len(list) + 1] = element
           /\ ToSet(Append(list, element)) = ToSet(list) \union {element}
           /\ NoRepeat(Append(list, element))
                  <=> NoRepeat(list) /\ element \notin ToSet(list)
<1>. PICK longer : longer = Append(list, element)
  OBVIOUS
<1>1. /\ longer \in Seq(S) /\ Len(longer) = Len(list) + 1 /\ Len(list) \in Nat
      /\ DOMAIN longer = DOMAIN list \union {Len(list) + 1}
      /\ Len(list) + 1 \notin DOMAIN list
      /\ \A i \in DOMAIN list : longer[i] = list[i]
      /\ longer[Len(list) + 1] = element
  OBVIOUS
<1>2. ToSet(longer) = ToSet(list) \union {element}
  BY <1>1 DEF ToSet
<1>3. NoRepeat(longer) <=> NoRepeat(list) /\ element \notin ToSet(list)
  BY <1>1 DEF NoRepeat, ToSet
<1>. QED  BY <1>1, <1>2, <1>3

\* Without the head.
LEMMA HeadAndTail ==
    ASSUME NEW S, NEW list \in Seq(S), list # <<>>
    PROVE  /\ Head(list) \in S /\ Tail(list) \in Seq(S)
           /\ Len(list) \in Nat \ {0} /\ Len(Tail(list)) = Len(list) - 1
OBVIOUS

\* BRPOP takes the last element and leaves the others.
LEMMA PopTakesLast ==
    ASSUME NEW S, NEW list \in Seq(S), list # <<>>, NoRepeat(list)
    PROVE  /\ Popped(list) \in S /\ AfterPop(list) \in Seq(S)
           /\ ToSet(list) = ToSet(AfterPop(list)) \union {Popped(list)}
           /\ Popped(list) \notin ToSet(AfterPop(list))
           /\ NoRepeat(AfterPop(list))
<1>0. /\ AfterPop(list) \in Seq(S) /\ Popped(list) \in S
  BY DEF AfterPop, Popped, Front, Last
<1>. PICK rest \in Seq(S), last \in S :
        rest = AfterPop(list) /\ last = Popped(list)
  BY <1>0
<1>1. list = Append(rest, last)
  BY DEF AfterPop, Popped, Front, Last
<1>. QED  BY <1>1, OneMore

-----------------------------------------------------------------------------
(* Runs of utterances *)

LEMMA RunGrows ==
    ASSUME NEW S, NEW list \in Seq(S), NEW path, NEW from \in Nat,
           Run(list, path, from), NEW element \in S,
           element = <<path, from + Len(list) + 1>>
    PROVE  Run(Append(list, element), path, from)
<1>1. /\ DOMAIN Append(list, element) = DOMAIN list \union {Len(list) + 1}
      /\ \A i \in DOMAIN list : Append(list, element)[i] = list[i]
      /\ Append(list, element)[Len(list) + 1] = element
      /\ Len(list) \in Nat
  BY OneMore
<1>2. from + Len(list) + 1 = from + (Len(list) + 1)
  BY <1>1
<1>. QED  BY <1>1, <1>2 DEF Run

LEMMA RunShrinks ==
    ASSUME NEW S, NEW list \in Seq(S), NEW path, NEW from \in Nat,
           Run(list, path, from), list # <<>>
    PROVE  /\ Head(list) = <<path, from + 1>>
           /\ Run(Tail(list), path, from + 1)
<1>1. /\ Head(list) = list[1] /\ 1 \in DOMAIN list
      /\ \A i \in DOMAIN Tail(list) :
            /\ i \in Nat /\ i + 1 \in DOMAIN list
            /\ Tail(list)[i] = list[i + 1]
  OBVIOUS
<1>2. \A i \in Nat : from + (i + 1) = from + 1 + i
  OBVIOUS
<1>. QED  BY <1>1, <1>2 DEF Run

LEMMA RunsMeet ==
    ASSUME NEW S, NEW one \in Seq(S), NEW two \in Seq(S), NEW path,
           NEW from \in Nat, Run(one, path, from),
           Run(two, path, from + Len(one))
    PROVE  /\ one \o two \in Seq(S)
           /\ Len(one) \in Nat /\ Len(two) \in Nat
           /\ Len(one \o two) = Len(one) + Len(two)
           /\ Run(one \o two, path, from)
<1>. PICK both : both = one \o two
  OBVIOUS
<1>1. /\ both \in Seq(S)
      /\ Len(one) \in Nat /\ Len(two) \in Nat
      /\ Len(both) = Len(one) + Len(two)
      /\ \A i \in DOMAIN both :
            /\ i \in Nat
            /\ \/ i \in DOMAIN one /\ both[i] = one[i]
               \/ i - Len(one) \in DOMAIN two
  OBVIOUS
<1>2. \A i \in DOMAIN both :
          i \in DOMAIN one \/ both[i] = two[i - Len(one)]
  OBVIOUS
<1>3. \A i \in Nat : from + Len(one) + (i - Len(one)) = from + i
  BY <1>1
<1>4. Run(both, path, from)
  <2>. SUFFICES ASSUME NEW i \in DOMAIN both
                PROVE  both[i] = <<path, from + i>>
    BY DEF Run
  <2>1. CASE i \in DOMAIN one
    BY <1>1, <2>1 DEF Run
  <2>2. CASE i \notin DOMAIN one
    <3>1. both[i] = two[i - Len(one)] /\ i - Len(one) \in DOMAIN two
      BY <1>1, <1>2, <2>2
    <3>2. two[i - Len(one)] = <<path, from + Len(one) + (i - Len(one))>>
      BY <3>1 DEF Run
    <3>. QED  BY <1>1, <1>3, <3>1, <3>2
  <2>. QED  BY <2>1, <2>2
<1>. QED  BY <1>1, <1>4

LEMMA RunIsCut ==
    ASSUME NEW S, NEW list \in Seq(S), NEW count \in 1..Len(list), NEW path,
           NEW from \in Nat, Run(list, path, from)
    PROVE  LET one == SubSeq(list, 1, count)
               two == SubSeq(list, count + 1, Len(list)) IN
           /\ one \in Seq(S) /\ two \in Seq(S)
           /\ Len(one) = count /\ Len(two) = Len(list) - count
           /\ Run(one, path, from) /\ Run(two, path, from + count)
<1>. PICK one, two : /\ one = SubSeq(list, 1, count)
                     /\ two = SubSeq(list, count + 1, Len(list))
  OBVIOUS
<1>1. /\ one \in Seq(S) /\ two \in Seq(S)
      /\ Len(list) \in Nat /\ count \in Nat /\ count <= Len(list)
      /\ Len(one) = count /\ Len(two) = Len(list) - count
      /\ \A i \in DOMAIN one : i \in DOMAIN list /\ one[i] = list[i]
  OBVIOUS
<1>2. \A i \in DOMAIN two :
          /\ i \in Nat /\ i + count \in DOMAIN list
          /\ two[i] = list[i + count]
  OBVIOUS
<1>3. \A i \in Nat : from + (i + count) = from + count + i
  BY <1>1
<1>. QED  BY <1>1, <1>2, <1>3 DEF Run

-----------------------------------------------------------------------------
(* Replies with runs of utterances *)

LEMMA NothingReplied ==
    ASSUME NEW path, NEW from \in Nat, NEW to
    PROVE  Replied(<<>>, path, from, to) <=> from = to
<1>1. Len(<<>>) = 0 /\ 1..0 = {} /\ 0 + 1 = 1
  OBVIOUS
<1>2. ASSUME from = to PROVE Replied(<<>>, path, from, to)
  <2>1. [n \in 1..1 |-> from] \in [1..1 -> Nat] /\ [n \in 1..1 |-> from][1] = from
    OBVIOUS
  <2>. QED  BY <1>1, <1>2, <2>1 DEF Replied
<1>. QED  BY <1>1, <1>2 DEF Replied

LEMMA RepliedGrows ==
    ASSUME NEW S, NEW lists \in Seq(Seq(S)), NEW path, NEW from \in Nat,
           NEW to \in Nat, Replied(lists, path, from, to),
           NEW list \in Seq(S), Run(list, path, to)
    PROVE  Replied(Append(lists, list), path, from, to + Len(list))
<1>. PICK more : more = Append(lists, list)
  OBVIOUS
<1>. PICK n \in Nat : n = Len(lists)
  OBVIOUS
<1>1. /\ Len(more) = n + 1 /\ more[n + 1] = list
      /\ \A r \in 1..n : more[r] = lists[r]
  OBVIOUS
<1>2. PICK starts \in [1..(n + 1) -> Nat] :
        /\ starts[1] = from /\ starts[n + 1] = to
        /\ \A r \in 1..n : /\ Run(lists[r], path, starts[r])
                           /\ starts[r + 1] = starts[r] + Len(lists[r])
  BY DEF Replied
<1>3. to + Len(list) \in Nat
  OBVIOUS
<1>. PICK ends : ends = [k \in 1..(n + 2) |->
                            IF k = n + 2 THEN to + Len(list) ELSE starts[k]]
  OBVIOUS
<1>4. /\ ends \in [1..(n + 1 + 1) -> Nat] /\ ends[1] = from
      /\ ends[n + 1 + 1] = to + Len(list)
      /\ \A k \in 1..(n + 1) : ends[k] = starts[k]
  BY <1>2, <1>3
<1>5. ASSUME NEW r \in 1..(n + 1)
      PROVE  /\ Run(more[r], path, ends[r])
             /\ ends[r + 1] = ends[r] + Len(more[r])
  <2>1. CASE r = n + 1
    BY <1>1, <1>2, <1>4, <2>1
  <2>2. CASE r \in 1..n
    BY <1>1, <1>2, <1>4, <2>2
  <2>. QED  BY <2>1, <2>2
<1>6. Replied(more, path, from, to + Len(list))
  <2>1. \E some \in [1..(Len(more) + 1) -> Nat] :
           /\ some[1] = from /\ some[Len(more) + 1] = to + Len(list)
           /\ \A r \in 1..Len(more) :
                 /\ Run(more[r], path, some[r])
                 /\ some[r + 1] = some[r] + Len(more[r])
    <3>1. ends \in [1..(Len(more) + 1) -> Nat]
      BY <1>1, <1>4
    <3>. WITNESS ends \in [1..(Len(more) + 1) -> Nat]
    <3>. QED  BY <1>1, <1>4, <1>5
  <2>. QED  BY <2>1 DEF Replied
<1>. QED  BY <1>6

LEMMA RepliedShrinks ==
    ASSUME NEW S, NEW lists \in Seq(Seq(S)), NEW path, NEW from \in Nat,
           NEW to \in Nat, Replied(lists, path, from, to), lists # <<>>
    PROVE  /\ Run(Head(lists), path, from)
           /\ Replied(Tail(lists), path, from + Len(Head(lists)), to)
<1>. PICK rest : rest = Tail(lists)
  OBVIOUS
<1>1. PICK n \in Nat : Len(lists) = n + 1
  <2>1. Len(lists) \in Nat \ {0}
    OBVIOUS
  <2>2. Len(lists) - 1 \in Nat /\ Len(lists) = (Len(lists) - 1) + 1
    BY <2>1
  <2>. QED  BY <2>2
<1>2. /\ Len(rest) = n /\ Head(lists) = lists[1]
      /\ \A r \in 1..n : rest[r] = lists[r + 1]
  BY <1>1
<1>3. PICK starts \in [1..(n + 1 + 1) -> Nat] :
        /\ starts[1] = from /\ starts[n + 1 + 1] = to
        /\ \A r \in 1..(n + 1) : /\ Run(lists[r], path, starts[r])
                                 /\ starts[r + 1] = starts[r] + Len(lists[r])
  BY <1>1 DEF Replied
<1>4. 1 \in 1..(n + 1) /\ 1 + 1 = 2
  OBVIOUS
<1>5. Run(lists[1], path, from) /\ starts[2] = from + Len(lists[1])
  BY <1>3, <1>4
<1>. PICK later : later = [k \in 1..(n + 1) |-> starts[k + 1]]
  OBVIOUS
<1>6. /\ later \in [1..(n + 1) -> Nat]
      /\ later[1] = starts[2] /\ later[n + 1] = to
      /\ \A r \in 1..n : later[r] = starts[r + 1] /\ later[r + 1] = starts[r + 1 + 1]
  BY <1>3
<1>7. ASSUME NEW r \in 1..n
      PROVE  Run(rest[r], path, later[r]) /\ later[r + 1] = later[r] + Len(rest[r])
  <2>1. r + 1 \in 1..(n + 1)
    OBVIOUS
  <2>. QED  BY <1>2, <1>3, <1>6, <2>1
<1>8. later[1] = from + Len(lists[1]) /\ rest \in Seq(Seq(S))
  BY <1>5, <1>6
<1>9. Replied(rest, path, from + Len(lists[1]), to)
  <2>1. \E some \in [1..(Len(rest) + 1) -> Nat] :
           /\ some[1] = from + Len(lists[1]) /\ some[Len(rest) + 1] = to
           /\ \A r \in 1..Len(rest) :
                 /\ Run(rest[r], path, some[r])
                 /\ some[r + 1] = some[r] + Len(rest[r])
    <3>1. later \in [1..(Len(rest) + 1) -> Nat]
      BY <1>2, <1>6
    <3>. WITNESS later \in [1..(Len(rest) + 1) -> Nat]
    <3>. QED  BY <1>2, <1>6, <1>7, <1>8
  <2>. QED  BY <2>1 DEF Replied
<1>. QED  BY <1>2, <1>5, <1>9

-----------------------------------------------------------------------------
(* Chunks of a file *)

LEMMA Quotient ==
    ASSUME NEW n \in Nat, NEW b \in Nat \ {0}
    PROVE  /\ n \div b \in Nat
           /\ (n \div b) * b <= n
           /\ n < (n \div b) * b + b
BY SMTT(30)

LEMMA ChunksAreCounted ==
    ASSUME NEW path \in Path
    PROVE  ChunksOf(path) \in Nat
<1>1. FileLength[path] + ChunkBytes - 1 \in Nat /\ ChunkBytes \in Nat \ {0}
  BY FileAssumption
<1>. QED  BY <1>1, Quotient DEF ChunksOf

\* The chunks are the numbered parts of the files, and their utterances.
LEMMA ChunksAreNumbered ==
    /\ \A path \in Path : \A k \in 1..ChunksOf(path) : <<path, k>> \in Chunk
    /\ \A chunk \in Chunk : /\ chunk = <<chunk[1], chunk[2]>>
                            /\ chunk[1] \in Path
                            /\ chunk[2] \in 1..ChunksOf(chunk[1])
<1>1. \A path \in Path : {path} \X (1..ChunksOf(path)) \subseteq Chunk
  BY ChunksAssumption
<1>2. \A path \in Path : \A k \in 1..ChunksOf(path) : <<path, k>> \in Chunk
  BY <1>1
<1>3. ASSUME NEW chunk \in Chunk
      PROVE  /\ chunk = <<chunk[1], chunk[2]>> /\ chunk[1] \in Path
             /\ chunk[2] \in 1..ChunksOf(chunk[1])
  <2>1. PICK path \in Path : chunk \in {path} \X (1..ChunksOf(path))
    BY ChunksAssumption
  <2>. QED  BY <2>1
<1>. QED  BY <1>2, <1>3

\* What a session in use holds is typed, whoever moves it.
LEMMA SessionParts ==
    ASSUME TypeOK
    PROVE  /\ requests \in Seq(Chunk) /\ heard \in Seq(Utterance)
           /\ replies \in Seq(Seq(Utterance)) /\ found \in Seq(Utterance)
           /\ job \subseteq Path /\ next \in Nat /\ Chunk = Utterance
           /\ published \in Seq(Segment) /\ jobs \in Seq(Path)
           /\ requested \in Seq(Path) /\ taken \in Seq(Path)
           /\ Len(found) \in Nat /\ Len(heard) \in Nat /\ Len(requests) \in Nat
BY ChunksAssumption DEF TypeOK, SessionTypeOK

-----------------------------------------------------------------------------
(* The pipeline *)

\* Publishing the first of the segments in hand.
LEMMA XAddCounts ==
    ASSUME TypeOK, found # <<>>, XAdd
    PROVE  /\ \A path : Transcript(path)' =
                 IF path = Head(found)[1]
                 THEN Transcript(path) \union {Len(published) + 1}
                 ELSE Transcript(path)
           /\ Len(published) + 1 \notin DOMAIN published
           /\ Len(published) \in Nat
           /\ DOMAIN published' = DOMAIN published \union {Len(published) + 1}
           /\ \A i \in DOMAIN published : published'[i] = published[i]
           /\ published'[Len(published) + 1].utterance = Head(found)
           /\ published' \in Seq(Segment)
<1>1. Head(found) \in Utterance
  BY HeadAndTail DEF TypeOK
<1>. PICK one : one = Bridged(Head(found))
  OBVIOUS
<1>2. one \in Segment /\ one.utterance = Head(found)
  <2>1. \A length, start, end, info :
           AudioSlice(length, start, end, info) \subseteq 0..length
    BY DEF AudioSlice
  <2>2. FileLength[Head(found)[1]] \in Nat
    BY <1>1, ChunksAssumption, ChunksAreNumbered, FileAssumption
  <2>3. \A length \in Nat : 0..length \subseteq Nat
    OBVIOUS
  <2>4. AudioSlice(FileLength[Head(found)[1]], RivaStart(Head(found)),
                   RivaEnd(Head(found)), FileInfo[Head(found)[1]])
           \in SUBSET Nat
    BY <2>1, <2>2, <2>3
  <2>. QED  BY <1>1, <2>4 DEF Bridged, Segment
<1>3. published' = Append(published, one) /\ published \in Seq(Segment)
  BY DEF XAdd, TypeOK
<1>4. /\ DOMAIN published' = DOMAIN published \union {Len(published) + 1}
      /\ Len(published) + 1 \notin DOMAIN published /\ Len(published) \in Nat
      /\ \A i \in DOMAIN published : published'[i] = published[i]
      /\ published'[Len(published) + 1] = one
      /\ published' \in Seq(Segment)
  BY <1>2, <1>3, OneMore
<1>5. /\ \A i \in DOMAIN published :
            published'[i].utterance[1] = published[i].utterance[1]
      /\ published'[Len(published) + 1].utterance = Head(found)
  BY <1>2, <1>4
<1>6. ASSUME NEW path
      PROVE  Transcript(path)' = IF path = Head(found)[1]
                                 THEN Transcript(path) \union {Len(published) + 1}
                                 ELSE Transcript(path)
  <2>1. Transcript(path)' = {i \in DOMAIN published' :
                                published'[i].utterance[1] = path}
    BY DEF Transcript
  <2>2. Transcript(path) = {i \in DOMAIN published :
                                published[i].utterance[1] = path}
    BY DEF Transcript
  <2>3. published'[Len(published) + 1].utterance[1] = Head(found)[1]
    BY <1>5
  <2>4. CASE path = Head(found)[1]
    BY <1>4, <1>5, <2>1, <2>2, <2>3, <2>4
  <2>5. CASE path # Head(found)[1]
    BY <1>4, <1>5, <2>1, <2>2, <2>3, <2>5
  <2>. QED  BY <2>4, <2>5
<1>. QED  BY <1>4, <1>5, <1>6

LEMMA TranscriptsAreFinite ==
    ASSUME TypeOK, NEW path
    PROVE  /\ IsFiniteSet(Transcript(path)) /\ Count(path) \in Nat
           /\ Transcript(path) \subseteq DOMAIN published
<1>1. Transcript(path) \subseteq 1..Len(published) /\ Len(published) \in Nat
  BY DEF Transcript, TypeOK
<1>2. IsFiniteSet(1..Len(published))
  BY <1>1, FS_Interval
<1>. QED  BY <1>1, <1>2, FS_Subset, FS_CardinalityType DEF Count, Transcript

\* The count of the file goes up by one.
LEMMA XAddIsCounted ==
    ASSUME TypeOK, found # <<>>, XAdd
    PROVE  \A path : /\ Count(path) \in Nat
                     /\ Count(path)' = IF path = Head(found)[1]
                                       THEN Count(path) + 1 ELSE Count(path)
<1>. SUFFICES ASSUME NEW path
              PROVE  /\ Count(path) \in Nat
                     /\ Count(path)' = IF path = Head(found)[1]
                                       THEN Count(path) + 1 ELSE Count(path)
  OBVIOUS
<1>1. /\ Len(published) + 1 \notin Transcript(path)
      /\ IsFiniteSet(Transcript(path)) /\ Count(path) \in Nat
  BY XAddCounts, TranscriptsAreFinite
<1>2. Cardinality(Transcript(path) \union {Len(published) + 1})
         = Cardinality(Transcript(path)) + 1
  BY <1>1, FS_AddElement
<1>3. Transcript(path)' = IF path = Head(found)[1]
                          THEN Transcript(path) \union {Len(published) + 1}
                          ELSE Transcript(path)
  BY XAddCounts
<1>4. Count(path)' = Cardinality(Transcript(path)')
  BY DEF Count
<1>. QED  BY <1>1, <1>2, <1>3, <1>4 DEF Count

\* The chunks of the job, in order, from the sender to the hands of the task:
\* each step moves some of them one place on.
LEMMA RivaKeepsPipeline ==
    ASSUME TypeOK, PlaceInvariant, PipelineInvariant, RivaStep
    PROVE  PipelineInvariant'
<1>1. UNCHANGED <<apc, job, next, found, published>>
  BY DEF RivaStep
<1>. SUFFICES ASSUME NEW path \in job
              PROVE  /\ apc \in {"send", "close"} => Pipeline(path)'
                     /\ apc = "publish" => Run(found, path, Count(path))
  BY <1>1 DEF PipelineInvariant, Count, Transcript
<1>2. apc = "publish" => Run(found, path, Count(path))
  BY DEF PipelineInvariant
<1>. SUFFICES ASSUME apc \in {"send", "close"} PROVE Pipeline(path)'
  BY <1>2
<1>3. PICK reported \in Nat :
        /\ Run(found, path, 0)
        /\ Replied(replies, path, Len(found), reported)
        /\ Run(heard, path, reported)
        /\ Run(requests, path, reported + Len(heard))
        /\ reported + Len(heard) + Len(requests) + 1 = next
  BY DEF PipelineInvariant, Pipeline
<1>4. CASE RivaHears
  <2>1. /\ requests # <<>> /\ requests' = Tail(requests)
        /\ heard' = heard \o UtterancesOf[Head(requests)]
        /\ replies' = replies \/ replies' = Append(replies, <<>>)
    BY <1>4 DEF RivaHears
  <2>2. /\ Head(requests) \in Utterance
        /\ UtterancesOf[Head(requests)] = <<Head(requests)>>
        /\ Len(requests) \in Nat \ {0} /\ Len(requests') = Len(requests) - 1
    BY <2>1, SessionParts, HeadAndTail, ChunksAssumption
  <2>3. heard' = Append(heard, Head(requests))
    BY <2>1, <2>2, SessionParts
  <2>4. Len(heard') = Len(heard) + 1
    BY <2>2, <2>3, SessionParts, OneMore
  <2>5. /\ Head(requests) = <<path, reported + Len(heard) + 1>>
        /\ Run(requests', path, reported + Len(heard) + 1)
    BY <1>3, <2>1, SessionParts, RunShrinks
  <2>6. Run(heard', path, reported)
    BY <1>3, <2>2, <2>3, <2>5, SessionParts, RunGrows
  <2>7. Replied(replies', path, Len(found), reported)
    <3>1. CASE replies' = replies
      BY <1>3, <3>1
    <3>2. CASE replies' = Append(replies, <<>>)
      <4>1. <<>> \in Seq(Utterance) /\ Run(<<>>, path, reported) /\ Len(<<>>) = 0
        BY Empty
      <4>2. Replied(Append(replies, <<>>), path, Len(found), reported + Len(<<>>))
        BY <1>3, <4>1, SessionParts, RepliedGrows
      <4>. QED  BY <3>2, <4>1, <4>2
    <3>. QED  BY <2>1, <3>1, <3>2
  <2>8. /\ reported + Len(heard') = reported + Len(heard) + 1
        /\ reported + Len(heard') + Len(requests') + 1 = next
    <3>1. /\ Len(heard) \in Nat /\ Len(requests) \in Nat /\ next \in Nat
      BY SessionParts
    <3>2. /\ reported + Len(heard) + Len(requests) + 1 = next
          /\ Len(requests') = Len(requests) - 1
          /\ Len(heard') = Len(heard) + 1
      BY <1>3, <2>2, <2>4
    <3>. QED  BY <3>1, <3>2
  <2>. QED  BY <1>1, <1>3, <2>5, <2>6, <2>7, <2>8 DEF Pipeline
<1>5. CASE RivaReports
  <2>1. PICK count \in 1..MaxResults :
          /\ count <= Len(heard)
          /\ replies' = Append(replies, SubSeq(heard, 1, count))
          /\ heard' = SubSeq(heard, count + 1, Len(heard))
    BY <1>5 DEF RivaReports
  <2>2. count \in 1..Len(heard) /\ count \in Nat
    BY <2>1, SessionParts, SizeAssumption
  <2>. PICK one : one = SubSeq(heard, 1, count)
    OBVIOUS
  <2>3. /\ one \in Seq(Utterance)
        /\ Len(one) = count /\ Len(heard') = Len(heard) - count
        /\ Run(one, path, reported) /\ Run(heard', path, reported + count)
    BY <1>3, <2>1, <2>2, SessionParts, RunIsCut
  <2>4. Replied(replies', path, Len(found), reported + count)
    <3>1. Replied(Append(replies, one), path, Len(found), reported + Len(one))
      BY <1>3, <2>3, SessionParts, RepliedGrows
    <3>. QED  BY <2>1, <2>3, <3>1
  <2>5. requests' = requests
    BY <1>5 DEF RivaReports
  <2>6. /\ reported + count \in Nat
        /\ reported + count + Len(heard') = reported + Len(heard)
        /\ reported + count + Len(heard') + Len(requests') + 1 = next
    BY <1>3, <2>2, <2>3, <2>5, SessionParts
  <2>. QED  BY <1>1, <1>3, <2>3, <2>4, <2>5, <2>6 DEF Pipeline
<1>6. CASE RivaEnds \/ RivaFails
  BY <1>1, <1>3, <1>6 DEF RivaEnds, RivaFails, Pipeline
<1>. QED  BY <1>4, <1>5, <1>6 DEF RivaStep

LEMMA NextKeepsPipeline ==
    ASSUME TypeOK, JobInvariant, PlaceInvariant, PipelineInvariant, [Next]_vars
    PROVE  PipelineInvariant'
<1>. USE DEF sessionVars
<1>1. CASE RivaStep
  BY <1>1, RivaKeepsPipeline
<1>2. CASE (\E path \in Path : Enqueue(path)) \/ UNCHANGED vars
  BY <1>2 DEF Enqueue, vars, PipelineInvariant, Pipeline, Count, Transcript
<1>3. CASE TakeJob \/ Decode \/ DecodeFails \/ JobDone \/ SessionFails
             \/ JobFails \/ JobLost
  <2>1. apc' \notin {"send", "close", "publish"}
    BY <1>3 DEF TakeJob, Decode, DecodeFails, JobDone, SessionFails, JobFails,
                JobLost, Leave
  <2>. QED  BY <2>1 DEF PipelineInvariant
<1>4. CASE OpenSession
  <2>1. /\ requests' = <<>> /\ heard' = <<>> /\ replies' = <<>> /\ found' = <<>>
        /\ next' = 1 /\ apc' = "send"
    BY <1>4 DEF OpenSession, OpenStream, PlaceInvariant
  <2>. SUFFICES ASSUME NEW path \in job' PROVE Pipeline(path)'
    BY <2>1 DEF PipelineInvariant
  <2>2. Len(<<>>) = 0 /\ \A from : Run(<<>>, path, from)
    BY Empty
  <2>3. Replied(<<>>, path, 0, 0)
    BY NothingReplied
  <2>. QED  BY <2>1, <2>2, <2>3 DEF Pipeline
<1>5. CASE SendNext
  <2>1. /\ apc = "send" /\ UNCHANGED <<apc, job, found, heard, replies>>
        /\ next' = next + 1
    BY <1>5 DEF SendNext, Send
  <2>. SUFFICES ASSUME NEW path \in job PROVE Pipeline(path)'
    BY <2>1 DEF PipelineInvariant
  <2>2. next <= ChunksOf(path) /\ requests' = Append(requests, <<path, next>>)
    BY <1>5 DEF SendNext, Send, JobInvariant
  <2>3. PICK reported \in Nat :
          /\ Run(found, path, 0)
          /\ Replied(replies, path, Len(found), reported)
          /\ Run(heard, path, reported)
          /\ Run(requests, path, reported + Len(heard))
          /\ reported + Len(heard) + Len(requests) + 1 = next
    BY <2>1 DEF PipelineInvariant, Pipeline
  <2>4. /\ path \in Path /\ ChunksOf(path) \in Nat
        /\ reported + Len(heard) \in Nat /\ next \in 1..ChunksOf(path)
    BY <2>2, <2>3, SessionParts, ChunksAreCounted
  <2>5. <<path, next>> \in Chunk
    BY <2>4, ChunksAreNumbered
  <2>6. Run(requests', path, reported + Len(heard))
    BY <2>2, <2>3, <2>4, <2>5, SessionParts, RunGrows
  <2>7. Len(requests') = Len(requests) + 1
    BY <2>2, <2>5, SessionParts, OneMore
  <2>8. reported + Len(heard) + Len(requests') + 1 = next'
    BY <2>1, <2>3, <2>7, SessionParts
  <2>. QED  BY <2>1, <2>3, <2>6, <2>8 DEF Pipeline
<1>6. CASE CloseSession
  BY <1>6 DEF CloseSession, CloseSender, DropSender, PipelineInvariant, Pipeline
<1>7. CASE Collect
  <2>1. /\ apc = "close" /\ UNCHANGED <<apc, job, next, heard, requests>>
        /\ replies # <<>> /\ replies' = Tail(replies)
        /\ found' = found \o Head(replies)
    BY <1>7 DEF Collect, ReadReply, AllResults
  <2>. SUFFICES ASSUME NEW path \in job PROVE Pipeline(path)'
    BY <2>1 DEF PipelineInvariant
  <2>2. PICK reported \in Nat :
          /\ Run(found, path, 0)
          /\ Replied(replies, path, Len(found), reported)
          /\ Run(heard, path, reported)
          /\ Run(requests, path, reported + Len(heard))
          /\ reported + Len(heard) + Len(requests) + 1 = next
    BY <2>1 DEF PipelineInvariant, Pipeline
  <2>3. /\ Run(Head(replies), path, Len(found))
        /\ Replied(replies', path, Len(found) + Len(Head(replies)), reported)
    BY <2>1, <2>2, SessionParts, RepliedShrinks
  <2>4. Head(replies) \in Seq(Utterance)
    BY <2>1, SessionParts, HeadAndTail
  <2>5. 0 + Len(found) = Len(found)
    BY SessionParts
  <2>6. /\ Len(found') = Len(found) + Len(Head(replies))
        /\ Run(found', path, 0)
    BY <2>1, <2>2, <2>3, <2>4, <2>5, SessionParts, RunsMeet
  <2>. QED  BY <2>1, <2>2, <2>3, <2>6 DEF Pipeline
<1>8. CASE CloseDone
  <2>1. /\ apc = "close" /\ apc' = "publish" /\ replies = <<>>
        /\ UNCHANGED <<job, found, published>>
    BY <1>8 DEF CloseDone, AllRead, AtEnd
  <2>. SUFFICES ASSUME NEW path \in job PROVE Run(found, path, Count(path))
    BY <2>1 DEF PipelineInvariant, Count, Transcript
  <2>2. Transcript(path) = {}
    BY <2>1 DEF JobInvariant
  <2>3. Count(path) = 0
    BY <2>2, FS_EmptySet DEF Count
  <2>. QED  BY <2>1, <2>3 DEF PipelineInvariant, Pipeline
<1>9. CASE PublishNext
  <2>1. /\ apc = "publish" /\ UNCHANGED <<apc, job>> /\ found # <<>> /\ XAdd
        /\ found' = Tail(found)
    BY <1>9 DEF PublishNext
  <2>. SUFFICES ASSUME NEW path \in job PROVE Run(found', path, Count(path)')
    BY <2>1 DEF PipelineInvariant
  <2>2. Run(found, path, Count(path)) /\ Count(path) \in Nat
    BY <2>1, TranscriptsAreFinite DEF PipelineInvariant
  <2>3. /\ Head(found) = <<path, Count(path) + 1>>
        /\ Run(found', path, Count(path) + 1)
    BY <2>1, <2>2, SessionParts, RunShrinks
  <2>4. Count(path)' = Count(path) + 1
    BY <2>1, <2>3, XAddIsCounted
  <2>. QED  BY <2>3, <2>4
<1>. QED  BY <1>1, <1>2, <1>3, <1>4, <1>5, <1>6, <1>7, <1>8, <1>9
          DEF Next, WorkerStep

-----------------------------------------------------------------------------
(* Types *)

LEMMA FaultsCounted ==
    ASSUME TypeOK, Fault
    PROVE  faults' \in 0..MaxFaults /\ faults' = faults + 1
BY SizeAssumption DEF Fault, TypeOK, SessionTypeOK

\* A dropped session and a fresh one are typed.
LEMMA EmptySession ==
    ASSUME DropSession \/ OpenStream, faults' \in 0..MaxFaults
    PROVE  SessionTypeOK'
<1>1. /\ requests' = <<>> /\ heard' = <<>> /\ replies' = <<>>
      /\ senderOpen' \in BOOLEAN /\ reply' \in {"open", "ended", "failed"}
  BY DEF DropSession, OpenStream
<1>2. requests' \in Seq(Chunk) /\ Len(requests') <= ChannelCapacity
  BY <1>1, Empty, SizeAssumption
<1>3. replies' \in Seq(Seq(Utterance)) /\ Len(replies') <= ReplyWindow
  BY <1>1, Empty, SizeAssumption
<1>4. heard' \in Seq(Utterance)
  BY <1>1, Empty
<1>. QED  BY <1>1, <1>2, <1>3, <1>4 DEF SessionTypeOK

\* A reply Riva adds keeps the window.
LEMMA WindowKept ==
    ASSUME TypeOK, MayReply, NEW list \in Seq(Utterance),
           replies' = Append(replies, list)
    PROVE  replies' \in Seq(Seq(Utterance)) /\ Len(replies') <= ReplyWindow
<1>1. replies \in Seq(Seq(Utterance)) /\ Len(replies) < ReplyWindow
  BY DEF MayReply, TypeOK, SessionTypeOK
<1>2. /\ replies' \in Seq(Seq(Utterance)) /\ Len(replies') = Len(replies) + 1
      /\ Len(replies) \in Nat
  BY <1>1, OneMore
<1>. QED  BY <1>1, <1>2, SizeAssumption

LEMMA RivaKeepsTypes ==
    ASSUME TypeOK, RivaStep
    PROVE  TypeOK'
<1>. SUFFICES SessionTypeOK'
  BY DEF RivaStep, TypeOK
<1>1. CASE RivaHears
  <2>1. /\ requests # <<>> /\ requests' = Tail(requests) /\ MayReply
        /\ heard' = heard \o UtterancesOf[Head(requests)]
        /\ replies' = replies \/ replies' = Append(replies, <<>>)
    BY <1>1 DEF RivaHears
  <2>2. /\ Head(requests) \in Chunk /\ requests' \in Seq(Chunk)
        /\ Len(requests) \in Nat /\ Len(requests') = Len(requests) - 1
    BY <2>1, SessionParts, HeadAndTail
  <2>3. Len(requests') <= ChannelCapacity
    BY <2>2, SizeAssumption DEF TypeOK, SessionTypeOK
  <2>4. UtterancesOf[Head(requests)] \in Seq(Utterance)
    BY <2>2, ChunkAssumption
  <2>5. heard' \in Seq(Utterance)
    BY <2>1, <2>4, SessionParts
  <2>6. <<>> \in Seq(Utterance)
    BY Empty
  <2>7. replies' \in Seq(Seq(Utterance)) /\ Len(replies') <= ReplyWindow
    <3>1. CASE replies' = replies
      BY <3>1 DEF TypeOK, SessionTypeOK
    <3>. QED  BY <2>1, <2>6, <3>1, WindowKept
  <2>. QED  BY <1>1, <2>2, <2>3, <2>5, <2>7
            DEF RivaHears, TypeOK, SessionTypeOK
<1>2. CASE RivaReports
  <2>1. PICK count \in 1..MaxResults :
          /\ count <= Len(heard)
          /\ replies' = Append(replies, SubSeq(heard, 1, count))
          /\ heard' = SubSeq(heard, count + 1, Len(heard))
    BY <1>2 DEF RivaReports
  <2>2. count \in 1..Len(heard)
    BY <2>1, SessionParts, SizeAssumption
  <2>3. SubSeq(heard, 1, count) \in Seq(Utterance) /\ heard' \in Seq(Utterance)
    <3>1. heard \in Seq(Utterance) /\ Len(heard) \in Nat
      BY SessionParts
    <3>2. heard' = SubSeq(heard, count + 1, Len(heard))
      BY <2>1
    <3>3. SubSeq(heard, 1, count) \in Seq(Utterance)
      BY <2>2, <3>1
    <3>4. SubSeq(heard, count + 1, Len(heard)) \in Seq(Utterance)
      BY <2>2, <3>1
    <3>. QED  BY <3>2, <3>3, <3>4
  <2>4. replies' \in Seq(Seq(Utterance)) /\ Len(replies') <= ReplyWindow
    BY <1>2, <2>1, <2>3, WindowKept DEF RivaReports
  <2>. QED  BY <1>2, <2>3, <2>4 DEF RivaReports, TypeOK, SessionTypeOK
<1>3. CASE RivaEnds
  BY <1>3 DEF RivaEnds, TypeOK, SessionTypeOK
<1>4. CASE RivaFails
  BY <1>4, FaultsCounted DEF RivaFails, TypeOK, SessionTypeOK
<1>. QED  BY <1>1, <1>2, <1>3, <1>4 DEF RivaStep

\* A run of utterances of a path is of that path.
LEMMA RunIsOfJob ==
    ASSUME NEW list, NEW path, NEW from, Run(list, path, from), NEW set,
           path \in set
    PROVE  \A i \in DOMAIN list : list[i][1] \in set
BY DEF Run

LEMMA NextKeepsTypes ==
    ASSUME TypeOK, JobInvariant, PlaceInvariant, PipelineInvariant,
           [Next]_vars
    PROVE  TypeOK'
<1>. USE DEF sessionVars
<1>1. CASE RivaStep
  BY <1>1, RivaKeepsTypes
<1>2. CASE UNCHANGED vars
  BY <1>2 DEF vars, TypeOK, SessionTypeOK
<1>3. ASSUME NEW path \in Path, Enqueue(path)
      PROVE  TypeOK'
  <2>1. jobs' \in Seq(Path) /\ requested' \in Seq(Path)
    BY <1>3, SessionParts, OneMore DEF Enqueue, RPush
  <2>. QED  BY <1>3, <2>1 DEF Enqueue, TypeOK, SessionTypeOK
<1>4. CASE TakeJob
  <2>1. /\ jobs # <<>> /\ jobs' = AfterPop(jobs) /\ job' = {Popped(jobs)}
        /\ taken' = Append(taken, Popped(jobs))
        /\ apc' = "decode" /\ found' = found /\ found = <<>>
    BY <1>4 DEF TakeJob, PlaceInvariant
  <2>2. Popped(jobs) \in Path /\ jobs' \in Seq(Path)
    BY <2>1, SessionParts, PopTakesLast DEF JobInvariant
  <2>3. taken' \in Seq(Path)
    BY <2>1, <2>2, SessionParts, OneMore
  <2>. QED  BY <1>4, <2>1, <2>2, <2>3 DEF TakeJob, TypeOK, SessionTypeOK
<1>5. CASE JobLost
  <2>1. /\ jobs # <<>> /\ jobs' = AfterPop(jobs)
        /\ taken' = Append(taken, Popped(jobs))
    BY <1>5 DEF JobLost
  <2>2. Popped(jobs) \in Path /\ jobs' \in Seq(Path)
    BY <2>1, SessionParts, PopTakesLast DEF JobInvariant
  <2>3. taken' \in Seq(Path)
    BY <2>1, <2>2, SessionParts, OneMore
  <2>4. faults' \in 0..MaxFaults
    BY <1>5, FaultsCounted DEF JobLost
  <2>5. SessionTypeOK'
    BY <1>5, <2>4 DEF JobLost, TypeOK, SessionTypeOK
  <2>. QED  BY <1>5, <2>2, <2>3, <2>5 DEF JobLost, TypeOK
<1>6. CASE Decode
  BY <1>6 DEF Decode, TypeOK, SessionTypeOK
<1>7. CASE OpenSession
  <2>1. SessionTypeOK'
    BY <1>7, EmptySession DEF OpenSession, TypeOK, SessionTypeOK
  <2>. QED  BY <1>7, <2>1 DEF OpenSession, TypeOK
<1>8. CASE SendNext
  <2>1. PICK path \in job : next <= ChunksOf(path) /\ Send(<<path, next>>)
    BY <1>8 DEF SendNext
  <2>2. next \in 1..ChunksOf(path) /\ path \in Path
    <3>1. apc = "send"
      BY <1>8 DEF SendNext
    <3>2. PICK reported \in Nat :
            reported + Len(heard) + Len(requests) + 1 = next
      BY <3>1 DEF PipelineInvariant, Pipeline
    <3>. QED  BY <2>1, <3>2, SessionParts, ChunksAreCounted
  <2>3. <<path, next>> \in Chunk
    BY <2>2, ChunksAreNumbered
  <2>4. /\ requests' = Append(requests, <<path, next>>)
        /\ Len(requests) < ChannelCapacity
    BY <2>1 DEF Send
  <2>5. requests' \in Seq(Chunk) /\ Len(requests') = Len(requests) + 1
    BY <2>3, <2>4, SessionParts, OneMore
  <2>6. Len(requests') <= ChannelCapacity
    BY <2>4, <2>5, SessionParts, SizeAssumption
  <2>7. SessionTypeOK'
    BY <1>8, <2>1, <2>5, <2>6 DEF SendNext, Send, TypeOK, SessionTypeOK
  <2>8. next' \in Nat
    BY <1>8, SessionParts DEF SendNext
  <2>. QED  BY <1>8, <2>7, <2>8 DEF SendNext, TypeOK
<1>9. CASE CloseSession
  BY <1>9 DEF CloseSession, CloseSender, DropSender, TypeOK, SessionTypeOK
<1>10. CASE Collect
  <2>1. /\ apc = "close" /\ UNCHANGED <<apc, job, next, heard, requests>>
        /\ replies # <<>> /\ replies' = Tail(replies)
        /\ found' = found \o Head(replies)
    BY <1>10 DEF Collect, ReadReply, AllResults
  <2>2. /\ Head(replies) \in Seq(Utterance) /\ replies' \in Seq(Seq(Utterance))
        /\ Len(replies') = Len(replies) - 1 /\ Len(replies) \in Nat
    BY <2>1, SessionParts, HeadAndTail
  <2>3. Len(replies') <= ReplyWindow
    BY <2>2, SizeAssumption DEF TypeOK, SessionTypeOK
  <2>4. found' \in Seq(Utterance)
    BY <2>1, <2>2, SessionParts
  <2>5. PICK path \in job : TRUE
    BY <2>1 DEF TypeOK
  <2>6. Run(found', path, 0)
    <3>1. PipelineInvariant'
      BY NextKeepsPipeline
    <3>. QED  BY <2>1, <2>5, <3>1 DEF PipelineInvariant, Pipeline
  <2>7. \A i \in DOMAIN found' : found'[i][1] \in job
    BY <2>5, <2>6, RunIsOfJob
  <2>8. SessionTypeOK'
    BY <1>10, <2>2, <2>3 DEF Collect, ReadReply, TypeOK, SessionTypeOK
  <2>. QED  BY <1>10, <2>4, <2>7, <2>8 DEF Collect, TypeOK
<1>11. CASE CloseDone
  BY <1>11 DEF CloseDone, AllRead, TypeOK, SessionTypeOK
<1>12. CASE PublishNext
  <2>1. /\ apc = "publish" /\ UNCHANGED <<apc, job>> /\ found # <<>> /\ XAdd
        /\ found' = Tail(found)
    BY <1>12 DEF PublishNext
  <2>2. published' \in Seq(Segment)
    BY <2>1, XAddCounts
  <2>3. found' \in Seq(Utterance)
    BY <2>1, SessionParts, HeadAndTail
  <2>4. PICK path \in job : TRUE
    BY <2>1 DEF TypeOK
  <2>5. Run(found', path, Count(path)')
    <3>1. PipelineInvariant'
      BY NextKeepsPipeline
    <3>. QED  BY <2>1, <2>4, <3>1 DEF PipelineInvariant
  <2>6. \A i \in DOMAIN found' : found'[i][1] \in job
    BY <2>4, <2>5, RunIsOfJob
  <2>. QED  BY <1>12, <2>2, <2>3, <2>6 DEF PublishNext, TypeOK, SessionTypeOK
<1>13. CASE JobDone
  <2>1. found = <<>> /\ DOMAIN <<>> = {}
    BY <1>13, Empty DEF JobDone
  <2>. QED  BY <1>13, <2>1 DEF JobDone, TypeOK, SessionTypeOK
<1>14. ASSUME Leave, faults' \in 0..MaxFaults, published' \in Seq(Segment)
       PROVE  TypeOK'
  <2>1. SessionTypeOK'
    BY <1>14, EmptySession DEF Leave
  <2>2. found' \in Seq(Utterance) /\ DOMAIN found' = {}
    BY <1>14, Empty DEF Leave
  <2>. QED  BY <1>14, <2>1, <2>2 DEF Leave, TypeOK
<1>15. CASE DecodeFails \/ SessionFails
  BY <1>14, <1>15 DEF DecodeFails, SessionFails, TypeOK, SessionTypeOK
<1>16. CASE JobFails
  <2>1. faults' \in 0..MaxFaults
    BY <1>16, FaultsCounted DEF JobFails
  <2>2. published' \in Seq(Segment)
    BY <1>16, XAddCounts, SessionParts DEF JobFails
  <2>. QED  BY <1>14, <1>16, <2>1, <2>2 DEF JobFails
<1>. QED  BY <1>1, <1>2, <1>3, <1>4, <1>5, <1>6, <1>7, <1>8, <1>9, <1>10,
             <1>11, <1>12, <1>13, <1>15, <1>16 DEF Next, WorkerStep

-----------------------------------------------------------------------------
(* Jobs and places *)

\* Publishing adds segments of the job only, while it publishes.
LEMMA PublishedOfJob ==
    ASSUME TypeOK, JobInvariant, found # <<>>, XAdd
    PROVE  \A i \in DOMAIN published' :
              published'[i].utterance[1] \in ToSet(taken)
<1>1. Head(found)[1] \in job
  <2>1. 1 \in DOMAIN found /\ Head(found) = found[1]
    BY SessionParts
  <2>. QED  BY <2>1 DEF TypeOK
<1>. QED  BY <1>1, XAddCounts DEF JobInvariant

LEMMA NextKeepsJobs ==
    ASSUME TypeOK, JobInvariant, PlaceInvariant, [Next]_vars
    PROVE  JobInvariant'
<1>1. ASSUME UNCHANGED <<job, jobs, requested, taken, published>>,
             apc' # "publish" => apc # "publish"
      PROVE  JobInvariant'
  BY <1>1 DEF JobInvariant, Transcript
<1>2. CASE RivaStep \/ UNCHANGED vars
  BY <1>1, <1>2 DEF RivaStep, vars
<1>3. CASE Decode \/ OpenSession \/ SendNext \/ CloseSession \/ Collect
             \/ CloseDone
  BY <1>1, <1>3 DEF Decode, OpenSession, SendNext, CloseSession, CloseSender,
                    Collect, CloseDone
<1>4. ASSUME NEW path \in Path, Enqueue(path)
      PROVE  JobInvariant'
  <2>1. /\ path \notin ToSet(requested)
        /\ jobs' = Append(jobs, path) /\ requested' = Append(requested, path)
        /\ UNCHANGED <<apc, job, published, taken>>
    BY <1>4 DEF Enqueue, RPush
  <2>2. /\ ToSet(jobs') = ToSet(jobs) \union {path}
        /\ NoRepeat(jobs') <=> NoRepeat(jobs) /\ path \notin ToSet(jobs)
        /\ ToSet(requested') = ToSet(requested) \union {path}
    BY <2>1, SessionParts, OneMore
  <2>. QED  BY <2>1, <2>2 DEF JobInvariant, Transcript
<1>5. ASSUME jobs # <<>>, jobs' = AfterPop(jobs),
             taken' = Append(taken, Popped(jobs)),
             job' = {Popped(jobs)} \/ job' = {}, UNCHANGED <<requested, published>>
      PROVE  JobInvariant'
  <2>1. /\ ToSet(jobs) = ToSet(jobs') \union {Popped(jobs)}
        /\ Popped(jobs) \notin ToSet(jobs') /\ NoRepeat(jobs')
        /\ Popped(jobs) \in Path
    BY <1>5, SessionParts, PopTakesLast DEF JobInvariant
  <2>2. ToSet(taken') = ToSet(taken) \union {Popped(jobs)}
    BY <1>5, <2>1, SessionParts, OneMore
  <2>3. \A path \in job' : Transcript(path)' = {}
    <3>1. Popped(jobs) \notin ToSet(taken)
      BY <2>1 DEF JobInvariant
    <3>2. Transcript(Popped(jobs)) = {}
      BY <3>1 DEF JobInvariant, Transcript
    <3>3. \A path : Transcript(path)' = Transcript(path)
      BY <1>5 DEF Transcript
    <3>. QED  BY <1>5, <3>2, <3>3
  <2>. QED  BY <1>5, <2>1, <2>2, <2>3 DEF JobInvariant
<1>6. CASE TakeJob \/ JobLost
  BY <1>5, <1>6 DEF TakeJob, JobLost, TypeOK
<1>7. ASSUME UNCHANGED <<jobs, requested, taken>>, job' = {},
             UNCHANGED published \/ (found # <<>> /\ XAdd)
      PROVE  JobInvariant'
  <2>1. \A i \in DOMAIN published' :
            published'[i].utterance[1] \in ToSet(taken)
    BY <1>7, PublishedOfJob DEF JobInvariant
  <2>. QED  BY <1>7, <2>1 DEF JobInvariant
<1>8. CASE DecodeFails \/ SessionFails \/ JobFails \/ JobDone
  BY <1>7, <1>8 DEF DecodeFails, SessionFails, JobFails, JobDone, Leave
<1>9. CASE PublishNext
  <2>1. /\ UNCHANGED <<job, jobs, requested, taken>> /\ apc' = "publish"
        /\ \A i \in DOMAIN published' :
              published'[i].utterance[1] \in ToSet(taken)
    BY <1>9, PublishedOfJob DEF PublishNext
  <2>. QED  BY <2>1 DEF JobInvariant
<1>. QED  BY <1>2, <1>3, <1>4, <1>6, <1>8, <1>9 DEF Next, WorkerStep

LEMMA NextKeepsPlace ==
    ASSUME TypeOK, JobInvariant, PlaceInvariant, [Next]_vars
    PROVE  PlaceInvariant'
<1>. USE DEF sessionVars
<1>1. CASE RivaStep
  <2>1. UNCHANGED <<apc, job, next, found, senderOpen>>
    BY <1>1 DEF RivaStep, RivaHears, RivaReports, RivaEnds, RivaFails
  <2>2. apc \in {"send", "close"}
    BY <1>1 DEF RivaStep, RivaHears, RivaReports, RivaEnds, RivaFails, MayReply,
                PlaceInvariant, AtEnd
  <2>. QED  BY <2>1, <2>2 DEF PlaceInvariant
<1>2. CASE UNCHANGED vars \/ \E path \in Path : Enqueue(path)
  BY <1>2 DEF vars, Enqueue, PlaceInvariant, AtEnd
<1>3. CASE TakeJob \/ Decode \/ JobDone \/ JobLost \/ PublishNext
  BY <1>3 DEF TakeJob, Decode, JobDone, JobLost, PublishNext, PlaceInvariant,
              AtEnd, TypeOK
<1>4. CASE DecodeFails \/ SessionFails \/ JobFails
  BY <1>4 DEF DecodeFails, SessionFails, JobFails, Leave, DropSession,
              PlaceInvariant, AtEnd
<1>5. CASE SendNext
  <2>1. /\ UNCHANGED <<apc, job, found, senderOpen>> /\ apc = "send"
        /\ next' = next + 1
    BY <1>5 DEF SendNext, Send
  <2>2. \A path \in job : next' <= ChunksOf(path) + 1
    <3>1. \A path \in job : next <= ChunksOf(path) /\ ChunksOf(path) \in Nat
      BY <1>5, SessionParts, ChunksAreCounted DEF SendNext, JobInvariant
    <3>. QED  BY <2>1, <3>1, SessionParts
  <2>. QED  BY <2>1, <2>2 DEF PlaceInvariant
<1>6. CASE CloseSession
  <2>1. /\ UNCHANGED <<job, next, found>> /\ apc = "send" /\ apc' = "close"
        /\ \A path \in job : next > ChunksOf(path)
    BY <1>6 DEF CloseSession, CloseSender
  <2>2. \A path \in job : next = ChunksOf(path) + 1
    <3>1. \A path \in job : ChunksOf(path) \in Nat /\ next <= ChunksOf(path) + 1
      BY <2>1, SessionParts, ChunksAreCounted DEF PlaceInvariant
    <3>. QED  BY <2>1, <3>1, SessionParts
  <2>. QED  BY <2>1, <2>2 DEF PlaceInvariant
<1>7. CASE Collect
  BY <1>7 DEF Collect, ReadReply, PlaceInvariant
<1>8. CASE CloseDone
  BY <1>8 DEF CloseDone, AllRead, AtEnd, PlaceInvariant
<1>9. CASE OpenSession
  <2>1. /\ apc = "open" /\ apc' = "send" /\ senderOpen' /\ next' = 1
        /\ UNCHANGED <<job, found>>
    BY <1>9 DEF OpenSession, OpenStream
  <2>2. \A path \in job : next' <= ChunksOf(path) + 1
    <3>1. \A path \in job : ChunksOf(path) \in Nat
      BY SessionParts, ChunksAreCounted
    <3>. QED  BY <2>1, <3>1
  <2>. QED  BY <2>1, <2>2 DEF PlaceInvariant
<1>. QED  BY <1>1, <1>2, <1>3, <1>4, <1>5, <1>6, <1>7, <1>8, <1>9
          DEF Next, WorkerStep

-----------------------------------------------------------------------------
(* Transcripts *)

\* A segment is published of the job in hand, as the next of its utterances.
LEMMA PublishedInTurn ==
    ASSUME TypeOK, PipelineInvariant, apc = "publish", found # <<>>
    PROVE  /\ Head(found)[1] \in job
           /\ Head(found)[2] = Count(Head(found)[1]) + 1
<1>1. 1 \in DOMAIN found /\ Head(found) = found[1]
  BY SessionParts
<1>. PICK path : path = Head(found)[1]
  OBVIOUS
<1>2. path \in job
  BY <1>1 DEF TypeOK
<1>3. Run(found, path, Count(path)) /\ Count(path) \in Nat
  BY <1>2, TranscriptsAreFinite DEF PipelineInvariant
<1>4. Head(found) = <<path, Count(path) + 1>>
  BY <1>3, SessionParts, RunShrinks
<1>. QED  BY <1>2, <1>4

LEMMA NextKeepsTranscripts ==
    ASSUME TypeOK, PipelineInvariant, TranscriptsHaveNoGaps, [Next]_vars
    PROVE  TranscriptsHaveNoGaps'
<1>1. CASE UNCHANGED published
  BY <1>1 DEF TranscriptsHaveNoGaps, Transcript
<1>2. ASSUME apc = "publish", found # <<>>, XAdd
      PROVE  TranscriptsHaveNoGaps'
  <2>. PICK last \in Nat : last = Len(published) + 1
    BY SessionParts
  <2>1. /\ \A path : Transcript(path)' =
               IF path = Head(found)[1]
               THEN Transcript(path) \union {last} ELSE Transcript(path)
        /\ \A i \in DOMAIN published : published'[i] = published[i]
        /\ published'[last].utterance = Head(found)
    BY <1>2, XAddCounts
  <2>2. Head(found)[2] = Count(Head(found)[1]) + 1
    BY <1>2, PublishedInTurn
  <2>3. \A i \in DOMAIN published : i \in Nat /\ i < last
    BY SessionParts
  <2>4. ASSUME NEW path \in Path, NEW i \in Transcript(path)
        PROVE  published'[i].utterance[2] =
                  Cardinality({j \in Transcript(path)' : j <= i})
    <3>1. i \in DOMAIN published /\ published'[i] = published[i]
      BY <2>1 DEF Transcript
    <3>2. last \in Nat /\ i \in Nat /\ ~(last <= i)
      BY <2>3, <3>1
    <3>3. {j \in Transcript(path)' : j <= i} = {j \in Transcript(path) : j <= i}
      BY <2>1, <3>2
    <3>. QED  BY <3>1, <3>3 DEF TranscriptsHaveNoGaps
  <2>5. ASSUME NEW path \in Path, path = Head(found)[1]
        PROVE  published'[last].utterance[2] =
                  Cardinality({j \in Transcript(path)' : j <= last})
    <3>1. Transcript(path) \subseteq DOMAIN published
      BY TranscriptsAreFinite
    <3>2. \A j \in Transcript(path) \union {last} : j <= last
      BY <2>3, <3>1
    <3>3. {j \in Transcript(path)' : j <= last} = Transcript(path)'
      BY <2>1, <2>5, <3>2
    <3>4. Count(path)' = Count(path) + 1
      BY <1>2, <2>5, XAddIsCounted
    <3>5. Cardinality(Transcript(path)') = Count(path)'
      BY DEF Count
    <3>. QED  BY <2>1, <2>2, <2>5, <3>3, <3>4, <3>5
  <2>. SUFFICES ASSUME NEW path \in Path, NEW i \in Transcript(path)'
                PROVE  published'[i].utterance[2] =
                          Cardinality({j \in Transcript(path)' : j <= i})
    BY DEF TranscriptsHaveNoGaps
  <2>6. i \in Transcript(path) \/ (i = last /\ path = Head(found)[1])
    BY <2>1
  <2>. QED  BY <2>4, <2>5, <2>6
<1>3. UNCHANGED published \/ (apc = "publish" /\ found # <<>> /\ XAdd)
  BY DEF Next, WorkerStep, RivaStep, Enqueue, TakeJob, Decode, DecodeFails,
         OpenSession, SendNext, CloseSession, Collect, CloseDone, PublishNext,
         JobDone, SessionFails, JobFails, JobLost, vars
<1>. QED  BY <1>1, <1>2, <1>3

-----------------------------------------------------------------------------
(* Failures *)

\* No job is newly hit, whatever failed.
LEMMA NobodyIsHit ==
    ASSUME TypeOK, FaultInvariant, Hit' \subseteq Hit,
           faults' = faults \/ faults' = faults + 1
    PROVE  FaultInvariant'
<1>1. /\ IsFiniteSet(Hit') /\ Cardinality(Hit') <= Cardinality(Hit)
      /\ Cardinality(Hit) \in Nat /\ Cardinality(Hit') \in Nat
  BY FS_Subset, FS_CardinalityType DEF FaultInvariant
<1>2. faults \in Nat /\ Cardinality(Hit) <= faults
  BY DEF TypeOK, SessionTypeOK, FaultInvariant
<1>3. Cardinality(Hit') <= faults'
  BY <1>1, <1>2
<1>. QED  BY <1>1, <1>3 DEF FaultInvariant

\* A failure hits one job.
LEMMA OneIsHit ==
    ASSUME TypeOK, FaultInvariant, NEW path, Hit' \subseteq Hit \union {path},
           faults' = faults + 1
    PROVE  FaultInvariant'
<1>1. /\ IsFiniteSet(Hit) /\ Cardinality(Hit) \in Nat
      /\ Cardinality(Hit) <= faults /\ faults \in Nat
  BY FS_CardinalityType DEF TypeOK, SessionTypeOK, FaultInvariant
<1>2. /\ IsFiniteSet(Hit \union {path})
      /\ Cardinality(Hit \union {path}) =
            IF path \in Hit THEN Cardinality(Hit) ELSE Cardinality(Hit) + 1
  BY <1>1, FS_AddElement
<1>3. /\ IsFiniteSet(Hit') /\ Cardinality(Hit') <= Cardinality(Hit \union {path})
      /\ Cardinality(Hit') \in Nat
  BY <1>2, FS_Subset, FS_CardinalityType
<1>4. Cardinality(Hit') <= faults'
  BY <1>1, <1>2, <1>3
<1>. QED  BY <1>3, <1>4 DEF FaultInvariant

\* Who is done with before and after a step that publishes nothing.
LEMMA NothingPublished ==
    ASSUME UNCHANGED published, NEW path
    PROVE  /\ Transcript(path)' = Transcript(path) /\ Count(path)' = Count(path)
           /\ Spoiled(path)' <=> /\ path \in ToSet(taken') \ (job' \union Undecodable)
                                 /\ Count(path) < ChunksOf(path)
<1>1. Transcript(path)' = Transcript(path)
  BY DEF Transcript
<1>. QED  BY <1>1 DEF Spoiled, Count, ChunksOf

\* An error of the session was counted when it came: the job it ends was hit.
LEMMA NextKeepsFaults ==
    ASSUME TypeOK, JobInvariant, PlaceInvariant, PipelineInvariant,
           FaultInvariant, [Next]_vars
    PROVE  FaultInvariant'
<1>. USE DEF sessionVars
<1>1. ASSUME UNCHANGED <<taken, job, published, faults>>,
             \A path \in job : Broken(path)' => Broken(path)
      PROVE  FaultInvariant'
  <2>1. \A path : Spoiled(path)' <=> Spoiled(path)
    BY <1>1, NothingPublished DEF Spoiled, Count
  <2>2. Hit' \subseteq Hit
    BY <1>1, <2>1 DEF Hit
  <2>. QED  BY <1>1, <2>2, NobodyIsHit
<1>2. CASE UNCHANGED vars \/ \E path \in Path : Enqueue(path)
  <2>1. /\ UNCHANGED <<taken, job, published, faults, apc, reply, heard,
                       requests, found>>
    BY <1>2 DEF vars, Enqueue
  <2>. QED  BY <1>1, <2>1 DEF Broken, Count, Transcript
<1>3. CASE Decode \/ OpenSession \/ SendNext
  <2>1. UNCHANGED <<taken, job, published, faults>>
    BY <1>3 DEF Decode, OpenSession, SendNext
  <2>2. \A path \in job : Broken(path)' => Broken(path)
    BY <1>3 DEF Broken, Decode, OpenSession, OpenStream, SendNext, Send
  <2>. QED  BY <1>1, <2>1, <2>2
<1>4. CASE CloseSession
  <2>1. /\ UNCHANGED <<taken, job, published, faults, reply>>
        /\ apc = "send" /\ apc' = "close"
    BY <1>4 DEF CloseSession, CloseSender, DropSender
  <2>. QED  BY <1>1, <2>1 DEF Broken
<1>5. CASE Collect
  <2>1. /\ UNCHANGED <<taken, job, published, faults, apc, reply, heard, requests>>
        /\ apc = "close"
    BY <1>5 DEF Collect, ReadReply
  <2>. QED  BY <1>1, <2>1 DEF Broken
<1>6. CASE CloseDone
  <2>1. /\ UNCHANGED <<taken, job, published, faults, found>>
        /\ apc = "close" /\ apc' = "publish" /\ AtEnd
    BY <1>6 DEF CloseDone, AllRead
  <2>2. ASSUME NEW path \in job, ~Broken(path)
        PROVE  ~Broken(path)'
    <3>1. heard = <<>> /\ requests = <<>> /\ replies = <<>>
      BY <2>1, <2>2 DEF Broken, AtEnd
    <3>2. PICK reported \in Nat :
            /\ Replied(replies, path, Len(found), reported)
            /\ reported + Len(heard) + Len(requests) + 1 = next
      BY <2>1 DEF PipelineInvariant, Pipeline
    <3>3. reported = Len(found) /\ Len(heard) = 0 /\ Len(requests) = 0
      BY <3>1, <3>2, SessionParts, NothingReplied
    <3>4. next = ChunksOf(path) + 1 /\ ChunksOf(path) \in Nat
      BY <2>1, SessionParts, ChunksAreCounted DEF PlaceInvariant
    <3>5. Len(found) = ChunksOf(path)
      BY <3>2, <3>3, <3>4, SessionParts
    <3>6. Count(path)' = Count(path) /\ Count(path) \in Nat
      BY <2>1, NothingPublished, TranscriptsAreFinite
    <3>7. ~(Count(path) + Len(found) < ChunksOf(path))
      BY <3>4, <3>5, <3>6
    <3>. QED  BY <2>1, <3>6, <3>7 DEF Broken, ChunksOf
  <2>. QED  BY <1>1, <2>1, <2>2
<1>7. CASE (RivaHears \/ RivaReports \/ RivaEnds) /\ RivaStep
  <2>1. UNCHANGED <<taken, job, published, faults, apc, found>>
    BY <1>7 DEF RivaStep, RivaHears, RivaReports, RivaEnds
  <2>2. apc \in {"send", "close"}
    BY <1>7 DEF RivaHears, RivaReports, RivaEnds, MayReply, PlaceInvariant, AtEnd
  <2>3. CASE RivaHears \/ RivaReports
    <3>1. reply' = "open"
      BY <2>3 DEF RivaHears, RivaReports, MayReply
    <3>. QED  BY <1>1, <2>1, <2>2, <3>1 DEF Broken
  <2>4. CASE RivaEnds
    <3>1. ~senderOpen /\ reply' = "ended" /\ heard' = <<>> /\ requests' = <<>>
      BY <2>4 DEF RivaEnds
    <3>2. apc = "close"
      BY <2>2, <3>1 DEF PlaceInvariant
    <3>. QED  BY <1>1, <2>1, <3>1, <3>2 DEF Broken
  <2>. QED  BY <1>7, <2>3, <2>4
<1>8. CASE RivaFails /\ RivaStep
  <2>1. /\ UNCHANGED <<taken, job, published>> /\ faults' = faults + 1
    BY <1>8, FaultsCounted DEF RivaStep, RivaFails
  <2>2. \A path : Spoiled(path)' <=> Spoiled(path)
    BY <2>1, NothingPublished DEF Spoiled, Count
  <2>3. Hit' \subseteq Hit \union job
    BY <2>1, <2>2 DEF Hit
  <2>4. CASE job = {}
    BY <2>1, <2>3, <2>4, NobodyIsHit
  <2>5. ASSUME NEW path \in job
        PROVE  FaultInvariant'
    <3>1. job = {path}
      BY <2>5 DEF JobInvariant
    <3>. QED  BY <2>1, <2>3, <3>1, OneIsHit
  <2>. QED  BY <2>4, <2>5
<1>9. CASE TakeJob \/ JobLost
  <2>1. /\ jobs # <<>> /\ taken' = Append(taken, Popped(jobs)) /\ apc = "pop"
        /\ UNCHANGED published /\ job = {} /\ apc' \in {"pop", "decode"}
    BY <1>9 DEF TakeJob, JobLost, TypeOK
  <2>2. Popped(jobs) \in Path
    BY <2>1, SessionParts, PopTakesLast DEF JobInvariant
  <2>3. ToSet(taken') = ToSet(taken) \union {Popped(jobs)}
    BY <2>1, <2>2, SessionParts, OneMore
  <2>4. \A path : Spoiled(path)' =>
            Spoiled(path) \/ (path = Popped(jobs) /\ path \notin job')
    BY <2>1, <2>3, NothingPublished DEF Spoiled, Count
  <2>5. Hit' \subseteq Hit \union ({Popped(jobs)} \ job')
    BY <2>1, <2>4 DEF Hit, Broken
  <2>6. CASE TakeJob
    <3>1. job' = {Popped(jobs)} /\ faults' = faults
      BY <2>6 DEF TakeJob
    <3>. QED  BY <2>5, <3>1, NobodyIsHit
  <2>7. CASE JobLost
    <3>1. faults' = faults + 1
      BY <2>7, FaultsCounted DEF JobLost
    <3>. QED  BY <2>5, <3>1, OneIsHit
  <2>. QED  BY <1>9, <2>6, <2>7
<1>10. CASE PublishNext
  <2>1. /\ apc = "publish" /\ apc' = "publish" /\ found # <<>> /\ XAdd
        /\ found' = Tail(found) /\ UNCHANGED <<taken, job, faults>>
    BY <1>10 DEF PublishNext
  <2>2. \A path : /\ Count(path) \in Nat
                  /\ Count(path)' = IF path = Head(found)[1]
                                    THEN Count(path) + 1 ELSE Count(path)
    BY <2>1, XAddIsCounted
  <2>3. \A path : path \in Path => ChunksOf(path)' = ChunksOf(path) /\ ChunksOf(path) \in Nat
    BY ChunksAreCounted DEF ChunksOf
  <2>4. \A path \in Path : Spoiled(path)' => Spoiled(path)
    BY <2>1, <2>2, <2>3 DEF Spoiled, Count
  <2>5. \A path \in job : Broken(path)' => Broken(path)
    <3>. SUFFICES ASSUME NEW path \in job, Broken(path)' PROVE Broken(path)
      OBVIOUS
    <3>1. Head(found)[1] = path
      BY <2>1, PublishedInTurn DEF JobInvariant
    <3>2. /\ Len(found') = Len(found) - 1 /\ Len(found) \in Nat
          /\ ChunksOf(path) \in Nat /\ Count(path) \in Nat
          /\ Count(path)' = Count(path) + 1 /\ ChunksOf(path)' = ChunksOf(path)
      BY <2>1, <2>2, <2>3, <3>1, SessionParts, HeadAndTail
    <3>3. Count(path)' + Len(found') < ChunksOf(path)'
      BY <2>1 DEF Broken
    <3>4. Count(path) + Len(found) < ChunksOf(path)
      BY <3>2, <3>3
    <3>. QED  BY <2>1, <3>4 DEF Broken
  <2>6. Hit' \subseteq Hit
    BY <2>1, <2>4, <2>5 DEF Hit
  <2>. QED  BY <2>1, <2>6, NobodyIsHit
<1>11. CASE JobDone
  <2>1. /\ apc = "publish" /\ found = <<>> /\ job' = {} /\ apc' = "pop"
        /\ UNCHANGED <<taken, published, faults>>
    BY <1>11 DEF JobDone
  <2>2. ASSUME NEW path \in Path, Spoiled(path)'
        PROVE  path \in Hit
    <3>1. /\ path \in ToSet(taken) \ Undecodable /\ Count(path) < ChunksOf(path)
          /\ Count(path) \in Nat /\ ChunksOf(path) \in Nat
      BY <2>1, <2>2, NothingPublished, TranscriptsAreFinite, ChunksAreCounted
    <3>2. CASE path \in job
      <4>1. Len(found) = 0
        BY <2>1, Empty
      <4>2. Count(path) + Len(found) < ChunksOf(path)
        BY <3>1, <4>1
      <4>. QED  BY <2>1, <3>2, <4>2 DEF Hit, Broken
    <3>3. CASE path \notin job
      BY <3>1, <3>3 DEF Hit, Spoiled, Count
    <3>. QED  BY <3>2, <3>3
  <2>3. Hit' \subseteq Hit
    BY <2>1, <2>2 DEF Hit
  <2>. QED  BY <2>1, <2>3, NobodyIsHit
<1>12. CASE DecodeFails \/ SessionFails
  <2>1. job' = {} /\ UNCHANGED <<taken, published, faults>>
    BY <1>12 DEF DecodeFails, SessionFails, Leave
  <2>2. \A path \in job : path \in Undecodable \/ Broken(path)
    BY <1>12 DEF DecodeFails, SessionFails, Broken, AtError
  <2>3. \A path \in Path : Spoiled(path)' => path \in Hit
    BY <2>1, <2>2, NothingPublished DEF Hit, Spoiled, Count
  <2>4. Hit' \subseteq Hit
    BY <2>1, <2>3 DEF Hit
  <2>. QED  BY <2>1, <2>4, NobodyIsHit
<1>13. CASE JobFails
  <2>1. /\ job' = {} /\ UNCHANGED taken /\ faults' = faults + 1
        /\ UNCHANGED published \/ (found # <<>> /\ XAdd)
    BY <1>13, FaultsCounted DEF JobFails, Leave
  <2>2. ASSUME NEW path \in Path
        PROVE  Count(path) <= Count(path)' /\ Count(path) \in Nat
               /\ Count(path)' \in Nat /\ ChunksOf(path) \in Nat
               /\ ChunksOf(path)' = ChunksOf(path)
    <3>1. Count(path) \in Nat /\ ChunksOf(path) \in Nat
          /\ ChunksOf(path)' = ChunksOf(path)
      BY TranscriptsAreFinite, ChunksAreCounted DEF ChunksOf
    <3>2. Count(path)' = Count(path) \/ Count(path)' = Count(path) + 1
      BY <2>1, NothingPublished, XAddIsCounted
    <3>. QED  BY <3>1, <3>2
  <2>3. \A path \in Path : Spoiled(path)' => Spoiled(path) \/ path \in job
    BY <2>1, <2>2 DEF Spoiled, Count
  <2>4. PICK path \in job : TRUE
    BY <1>13 DEF JobFails, TypeOK
  <2>5. job = {path}
    BY <2>4 DEF JobInvariant
  <2>6. Hit' \subseteq Hit \union {path}
    BY <2>1, <2>3, <2>5 DEF Hit
  <2>. QED  BY <2>1, <2>6, OneIsHit
<1>. QED  BY <1>2, <1>3, <1>4, <1>5, <1>6, <1>7, <1>8, <1>9, <1>10, <1>11,
             <1>12, <1>13 DEF Next, WorkerStep, RivaStep

-----------------------------------------------------------------------------
(* Excerpts *)

LEMMA Distribute ==
    ASSUME NEW x \in Nat, NEW y \in Nat, NEW b \in Nat
    PROVE  (x + y) * b = x * b + y * b
BY SMTT(30)

LEMMA TimesMonotone ==
    ASSUME NEW x \in Nat, NEW y \in Nat, NEW b \in Nat, x <= y
    PROVE  x * b <= y * b
<1>1. PICK z \in Nat : y = x + z
  <2>1. y - x \in Nat /\ y = x + (y - x)
    OBVIOUS
  <2>. QED  BY <2>1
<1>2. y * b = x * b + z * b
  BY <1>1, Distribute
<1>3. x * b \in Nat /\ z * b \in Nat
  OBVIOUS
<1>. QED  BY <1>2, <1>3

\* What a quotient is, and is not.
LEMMA QuotientIs ==
    ASSUME NEW n \in Nat, NEW b \in Nat \ {0}, NEW q \in Nat
    PROVE  n \div b = q <=> q * b <= n /\ n < q * b + b
<1>. PICK d \in Nat : d = n \div b
  BY Quotient
<1>1. d * b <= n /\ n < d * b + b /\ d * b \in Nat /\ q * b \in Nat
  BY Quotient
<1>2. ASSUME q * b <= n, n < q * b + b, d < q
      PROVE  FALSE
  <2>1. (d + 1) * b <= q * b
    BY <1>2, TimesMonotone
  <2>2. (d + 1) * b = d * b + 1 * b /\ 1 * b = b
    BY Distribute
  <2>. QED  BY <1>1, <1>2, <2>1, <2>2
<1>3. ASSUME q * b <= n, n < q * b + b, q < d
      PROVE  FALSE
  <2>1. (q + 1) * b <= d * b
    BY <1>3, TimesMonotone
  <2>2. (q + 1) * b = q * b + 1 * b /\ 1 * b = b
    BY Distribute
  <2>. QED  BY <1>1, <1>3, <2>1, <2>2
<1>. QED  BY <1>1, <1>2, <1>3

\* A byte at a whole millisecond is found again by its time.
WholeMs(byte) == \E ms \in Nat : byte * 1000 = ms * BytesPerSecond(RivaInfo)

LEMMA RateIsPositive == BytesPerSecond(RivaInfo) \in Nat \ {0}
<1>1. /\ RivaInfo.rate \in Nat \ {0} /\ RivaInfo.channels \in Nat \ {0}
      /\ RivaInfo.bits \in {8, 16, 24, 32}
  BY FileAssumption DEF AudioInfo
<1>2. RivaInfo.bits \div 8 \in Nat \ {0}
  BY <1>1
<1>. QED  BY <1>1, <1>2 DEF BytesPerSecond

LEMMA TimeAndBack ==
    ASSUME NEW byte \in Nat, WholeMs(byte)
    PROVE  SampleIndex(RivaMs(byte), RivaInfo) = byte
<1>. PICK rate \in Nat \ {0} : rate = BytesPerSecond(RivaInfo)
  BY RateIsPositive
<1>1. PICK ms \in Nat : byte * 1000 = ms * rate
  BY DEF WholeMs
<1>2. /\ byte * 1000 \in Nat /\ ms * rate \in Nat
      /\ ms * rate < ms * rate + rate /\ byte * 1000 < byte * 1000 + 1000
  OBVIOUS
<1>3. (byte * 1000) \div rate = ms
  BY <1>1, <1>2, QuotientIs
<1>4. (byte * 1000) \div 1000 = byte
  BY <1>2, QuotientIs
<1>5. RivaMs(byte) = ms
  BY <1>3 DEF RivaMs
<1>6. SampleIndex(ms, RivaInfo) = (byte * 1000) \div 1000
  BY <1>1 DEF SampleIndex
<1>. QED  BY <1>4, <1>5, <1>6

LEMMA WholeMsAgain ==
    ASSUME NEW byte \in Nat, WholeMs(byte), NEW k \in Nat
    PROVE  WholeMs(k * byte)
<1>. PICK rate \in Nat \ {0} : rate = BytesPerSecond(RivaInfo)
  BY RateIsPositive
<1>1. PICK ms \in Nat : byte * 1000 = ms * rate
  BY DEF WholeMs
<1>2. (k * byte) * 1000 = k * (byte * 1000)
  BY SMTT(30)
<1>3. k * (ms * rate) = (k * ms) * rate
  BY SMTT(30)
<1>4. (k * byte) * 1000 = (k * ms) * rate /\ k * ms \in Nat
  BY <1>1, <1>2, <1>3
<1>. QED  BY <1>4 DEF WholeMs

\* Files of the format Riva is told, cut into chunks of whole milliseconds.
FormatIsTold == \A path \in Path : FileInfo[path] = RivaInfo
TimesAreWhole ==
    WholeMs(ChunkBytes) /\ \A path \in Path : WholeMs(FileLength[path])

\* The excerpt of an utterance is its chunk.
LEMMA ExcerptIsChunk ==
    ASSUME FormatIsTold, TimesAreWhole, NEW utterance \in Utterance
    PROVE  Bridged(utterance).excerpt = BytesOf(utterance)
<1>. PICK path, k : path = utterance[1] /\ k = utterance[2]
  OBVIOUS
<1>1. path \in Path /\ ChunksOf(path) \in Nat /\ k \in 1..ChunksOf(path)
  BY ChunksAssumption, ChunksAreNumbered, ChunksAreCounted
<1>. PICK size \in Nat \ {0} : size = ChunkBytes
  BY FileAssumption
<1>. PICK length \in Nat : length = FileLength[path]
  BY <1>1, FileAssumption
<1>2. /\ k \in Nat /\ k - 1 \in Nat /\ (k - 1) * size \in Nat
      /\ k * size \in Nat /\ k = (k - 1) + 1
  BY <1>1
<1>3. k * size = (k - 1) * size + size
  <2>1. ((k - 1) + 1) * size = (k - 1) * size + 1 * size
    BY <1>2, Distribute
  <2>. QED  BY <1>2, <2>1
<1>4. SampleIndex(RivaStart(utterance), RivaInfo) = (k - 1) * size
  <2>1. WholeMs((k - 1) * size)
    BY <1>2, WholeMsAgain DEF TimesAreWhole
  <2>. QED  BY <1>2, <2>1, TimeAndBack DEF RivaStart
<1>. PICK stop : stop = SampleIndex(RivaEnd(utterance), RivaInfo)
  OBVIOUS
<1>5. \/ k = ChunksOf(path) /\ stop = length
      \/ k # ChunksOf(path) /\ stop = k * size
  <2>1. CASE k = ChunksOf(path)
    <3>1. WholeMs(length)
      BY <1>1 DEF TimesAreWhole
    <3>2. RivaEnd(utterance) = RivaMs(length)
      BY <2>1 DEF RivaEnd
    <3>. QED  BY <2>1, <3>1, <3>2, TimeAndBack
  <2>2. CASE k # ChunksOf(path)
    <3>1. WholeMs(k * size)
      BY <1>2, WholeMsAgain DEF TimesAreWhole
    <3>2. RivaEnd(utterance) = RivaMs(k * size)
      BY <2>2 DEF RivaEnd
    <3>. QED  BY <1>2, <2>2, <3>1, <3>2, TimeAndBack
  <2>. QED  BY <2>1, <2>2
<1>6. k = ChunksOf(path) => length <= k * size
  <2>. SUFFICES ASSUME k = ChunksOf(path) PROVE length <= k * size
    OBVIOUS
  <2>1. k = (length + size - 1) \div size /\ length + size - 1 \in Nat
    BY DEF ChunksOf
  <2>2. length + size - 1 < k * size + size
    BY <2>1, Quotient
  <2>. QED  BY <1>2, <2>2
<1>7. \A byte \in Nat : byte < length =>
         (byte < k * size <=> byte < IF stop < length THEN stop ELSE length)
  BY <1>2, <1>5, <1>6
<1>8. \A byte \in Nat :
         byte \div size = k - 1 <=> (k - 1) * size <= byte /\ byte < k * size
  <2>. PICK q \in Nat : q = k - 1
    BY <1>2
  <2>1. \A byte \in Nat :
           byte \div size = q <=> q * size <= byte /\ byte < q * size + size
    BY QuotientIs
  <2>. QED  BY <1>3, <2>1
<1>9. /\ stop \in Nat
      /\ SliceEnd(RivaEnd(utterance), length, RivaInfo) =
            IF stop < length THEN stop ELSE length
  BY <1>2, <1>5 DEF SliceEnd
<1>10. AudioSlice(length, RivaStart(utterance), RivaEnd(utterance), RivaInfo)
          = {byte \in 0..(length - 1) : byte \div size = k - 1}
  <2>1. AudioSlice(length, RivaStart(utterance), RivaEnd(utterance), RivaInfo)
           = {byte \in 0..length :
                 /\ (k - 1) * size <= byte
                 /\ byte < IF stop < length THEN stop ELSE length}
    BY <1>4, <1>9 DEF AudioSlice
  <2>2. \A byte \in 0..length :
           /\ byte \in Nat
           /\ byte < (IF stop < length THEN stop ELSE length) => byte < length
    BY <1>9
  <2>3. \A byte : byte \in 0..(length - 1)
                     <=> byte \in 0..length /\ byte < length
    OBVIOUS
  <2>. QED  BY <1>7, <1>8, <2>1, <2>2, <2>3
<1>11. FileInfo[path] = RivaInfo
  BY <1>1 DEF FormatIsTold
<1>. QED  BY <1>10, <1>11 DEF Bridged, BytesOf

\* Where a chunk begins and ends in its file.
FirstByte(utterance) == (utterance[2] - 1) * ChunkBytes
StopByte(utterance) ==
    IF utterance[2] = ChunksOf(utterance[1]) THEN FileLength[utterance[1]]
    ELSE utterance[2] * ChunkBytes

\* Less than a millisecond and a byte.
Near(bytes) == bytes * 1000 < BytesPerSecond(RivaInfo) + 1000

\* An excerpt begins early and ends early, by that much.
NearlyOwn(utterance, excerpt) ==
    /\ \A byte \in excerpt \ BytesOf(utterance) :
          byte < FirstByte(utterance) /\ Near(FirstByte(utterance) - byte)
    /\ \A byte \in BytesOf(utterance) \ excerpt :
          byte < StopByte(utterance) /\ Near(StopByte(utterance) - byte)

LEMMA TimeAndNearlyBack ==
    ASSUME NEW byte \in Nat
    PROVE  /\ SampleIndex(RivaMs(byte), RivaInfo) \in Nat
           /\ SampleIndex(RivaMs(byte), RivaInfo) <= byte
           /\ Near(byte - SampleIndex(RivaMs(byte), RivaInfo))
<1>. PICK rate \in Nat \ {0} : rate = BytesPerSecond(RivaInfo)
  BY RateIsPositive
<1>. PICK ms \in Nat : ms = RivaMs(byte)
  BY Quotient DEF RivaMs
<1>1. ms * rate <= byte * 1000 /\ byte * 1000 < ms * rate + rate
  <2>1. \A n \in Nat : /\ (n \div rate) * rate <= n
                      /\ n < (n \div rate) * rate + rate
    BY Quotient
  <2>2. byte * 1000 \in Nat
    OBVIOUS
  <2>3. ms = (byte * 1000) \div rate
    BY DEF RivaMs
  <2>. QED  BY <2>1, <2>2, <2>3
<1>. PICK n \in Nat : n = ms * rate
  OBVIOUS
<1>. PICK index \in Nat : index = SampleIndex(ms, RivaInfo)
  BY Quotient DEF SampleIndex
<1>2. index * 1000 <= n /\ n < index * 1000 + 1000
  BY Quotient DEF SampleIndex
<1>3. index <= byte /\ (byte - index) * 1000 < rate + 1000
  BY <1>1, <1>2
<1>. QED  BY <1>3 DEF Near

\* Whatever the sizes of chunks and files.
LEMMA ExcerptIsNearlyChunk ==
    ASSUME FormatIsTold, NEW utterance \in Utterance
    PROVE  NearlyOwn(utterance, Bridged(utterance).excerpt)
<1>. PICK path, k : path = utterance[1] /\ k = utterance[2]
  OBVIOUS
<1>1. path \in Path /\ ChunksOf(path) \in Nat /\ k \in 1..ChunksOf(path)
  BY ChunksAssumption, ChunksAreNumbered, ChunksAreCounted
<1>. PICK size \in Nat \ {0} : size = ChunkBytes
  BY FileAssumption
<1>. PICK length \in Nat : length = FileLength[path]
  BY <1>1, FileAssumption
<1>2. /\ k \in Nat /\ k - 1 \in Nat /\ (k - 1) * size \in Nat
      /\ k * size \in Nat /\ k = (k - 1) + 1
  BY <1>1
<1>3. k * size = (k - 1) * size + size
  <2>1. ((k - 1) + 1) * size = (k - 1) * size + 1 * size
    BY <1>2, Distribute
  <2>. QED  BY <1>2, <2>1
<1>. PICK first \in Nat : first = FirstByte(utterance) /\ first = (k - 1) * size
  BY <1>2 DEF FirstByte
<1>. PICK stop \in Nat : stop = StopByte(utterance)
  BY <1>2 DEF StopByte
<1>4. RivaStart(utterance) = RivaMs(first) /\ RivaEnd(utterance) = RivaMs(stop)
  BY DEF RivaStart, RivaEnd, StopByte
<1>5. k = ChunksOf(path) => length <= k * size
  <2>. SUFFICES ASSUME k = ChunksOf(path) PROVE length <= k * size
    OBVIOUS
  <2>1. k = (length + size - 1) \div size /\ length + size - 1 \in Nat
    BY DEF ChunksOf
  <2>2. length + size - 1 < k * size + size
    BY <2>1, Quotient
  <2>. QED  BY <1>2, <2>2
<1>6. stop <= length
  <2>1. CASE k = ChunksOf(path)
    BY <2>1 DEF StopByte
  <2>2. CASE k # ChunksOf(path)
    <3>1. ChunksOf(path) = (length + size - 1) \div size
          /\ length + size - 1 \in Nat
      BY DEF ChunksOf
    <3>2. ChunksOf(path) * size <= length + size - 1
      BY <3>1, Quotient
    <3>3. (k + 1) * size <= ChunksOf(path) * size
      <4>1. k + 1 <= ChunksOf(path) /\ k + 1 \in Nat
        BY <1>1, <1>2, <2>2
      <4>. QED  BY <1>1, <4>1, TimesMonotone
    <3>4. (k + 1) * size = k * size + size
      <4>1. (k + 1) * size = k * size + 1 * size
        BY <1>2, Distribute
      <4>. QED  BY <4>1
    <3>5. stop = k * size
      BY <2>2 DEF StopByte
    <3>6. ChunksOf(path) * size \in Nat
      BY <1>1
    <3>. QED  BY <1>2, <3>2, <3>3, <3>4, <3>5, <3>6
  <2>. QED  BY <2>1, <2>2
<1>7. \A byte \in Nat : byte < length =>
         (byte < k * size <=> byte < stop)
  <2>1. CASE k = ChunksOf(path)
    <3>1. stop = length
      BY <2>1 DEF StopByte
    <3>. QED  BY <1>2, <1>5, <2>1, <3>1
  <2>2. CASE k # ChunksOf(path)
    <3>1. stop = k * size
      BY <2>2 DEF StopByte
    <3>. QED  BY <3>1
  <2>. QED  BY <2>1, <2>2
<1>8. \A byte \in 0..length :
         byte \in BytesOf(utterance) <=> first <= byte /\ byte < stop
  <2>1. \A byte \in Nat :
           byte \div size = k - 1 <=> first <= byte /\ byte < first + size
    <3>. PICK q \in Nat : q = k - 1
      BY <1>2
    <3>1. \A byte \in Nat :
             byte \div size = q <=> q * size <= byte /\ byte < q * size + size
      BY QuotientIs
    <3>. QED  BY <3>1
  <2>2. \A byte \in 0..length :
           byte \in BytesOf(utterance)
               <=> byte < length /\ byte \div size = k - 1
    BY DEF BytesOf
  <2>. SUFFICES ASSUME NEW byte \in 0..length
                PROVE  byte \in BytesOf(utterance) <=> first <= byte /\ byte < stop
    OBVIOUS
  <2>3. byte \in Nat
    OBVIOUS
  <2>4. byte \in BytesOf(utterance)
           <=> byte < length /\ first <= byte /\ byte < first + size
    BY <2>1, <2>2, <2>3
  <2>5. k * size = first + size
    BY <1>3
  <2>6. byte < length => (byte < first + size <=> byte < stop)
    BY <1>7, <2>3, <2>5
  <2>. QED  BY <1>6, <2>3, <2>4, <2>6
<1>. PICK from \in Nat :
        /\ from = SampleIndex(RivaStart(utterance), RivaInfo)
        /\ from <= first /\ Near(first - from)
  BY <1>4, TimeAndNearlyBack
<1>. PICK to \in Nat :
        /\ to = SampleIndex(RivaEnd(utterance), RivaInfo)
        /\ to <= stop /\ Near(stop - to)
  BY <1>4, TimeAndNearlyBack
<1>. PICK excerpt : excerpt = Bridged(utterance).excerpt
  OBVIOUS
<1>9. excerpt = {byte \in 0..length : from <= byte /\ byte < to}
  <2>1. FileInfo[path] = RivaInfo
    BY <1>1 DEF FormatIsTold
  <2>2. excerpt = AudioSlice(length, RivaStart(utterance), RivaEnd(utterance),
                             RivaInfo)
    BY <2>1 DEF Bridged
  <2>3. SliceEnd(RivaEnd(utterance), length, RivaInfo) = to
    BY <1>6 DEF SliceEnd
  <2>. QED  BY <2>2, <2>3 DEF AudioSlice
<1>. PICK rate \in Nat : rate = BytesPerSecond(RivaInfo)
  BY RateIsPositive
<1>10. ASSUME NEW byte \in excerpt \ BytesOf(utterance)
       PROVE  byte < first /\ Near(first - byte)
  <2>1. byte \in 0..length /\ from <= byte /\ byte < to
    BY <1>9
  <2>2. byte \in Nat /\ ~ (first <= byte /\ byte < stop)
    BY <1>8, <2>1
  <2>3. byte < first /\ first - byte <= first - from
    BY <2>1, <2>2
  <2>. QED  BY <2>2, <2>3 DEF Near
<1>11. ASSUME NEW byte \in BytesOf(utterance) \ excerpt
       PROVE  byte < stop /\ Near(stop - byte)
  <2>1. byte \in 0..length
    BY DEF BytesOf
  <2>2. byte \in Nat /\ first <= byte /\ byte < stop
    BY <1>8, <2>1
  <2>3. ~ (byte < to)
    BY <1>9, <2>1, <2>2
  <2>4. stop - byte <= stop - to
    BY <2>2, <2>3
  <2>. QED  BY <2>2, <2>4 DEF Near
<1>. QED  BY <1>10, <1>11 DEF NearlyOwn

\* Each segment is published with the excerpt of its times.
ExcerptInvariant ==
    \A i \in DOMAIN published :
        published[i] = Bridged(published[i].utterance)

LEMMA NextKeepsExcerpts ==
    ASSUME TypeOK, ExcerptInvariant, [Next]_vars
    PROVE  ExcerptInvariant'
<1>1. CASE UNCHANGED published
  BY <1>1 DEF ExcerptInvariant, Bridged, RivaStart, RivaEnd, RivaMs, ChunksOf
<1>2. ASSUME found # <<>>, XAdd
      PROVE  ExcerptInvariant'
  <2>. PICK one : one = Bridged(Head(found))
    OBVIOUS
  <2>1. /\ one.utterance = Head(found)
        /\ DOMAIN published' = DOMAIN published \union {Len(published) + 1}
        /\ \A i \in DOMAIN published : published'[i] = published[i]
        /\ published'[Len(published) + 1].utterance = Head(found)
    BY <1>2, XAddCounts DEF Bridged
  <2>2. published'[Len(published) + 1] = one
    BY <1>2 DEF XAdd, TypeOK
  <2>3. \A i \in DOMAIN published' :
            published'[i] = Bridged(published'[i].utterance)
    BY <2>1, <2>2 DEF ExcerptInvariant
  <2>. QED  BY <2>3 DEF ExcerptInvariant, Bridged, RivaStart, RivaEnd, RivaMs,
                        ChunksOf
<1>3. UNCHANGED published \/ (found # <<>> /\ XAdd)
  BY DEF Next, WorkerStep, RivaStep, Enqueue, TakeJob, Decode, DecodeFails,
         OpenSession, SendNext, CloseSession, Collect, CloseDone, PublishNext,
         JobDone, SessionFails, JobFails, JobLost, vars
<1>. QED  BY <1>1, <1>2, <1>3

-----------------------------------------------------------------------------
(* The theorems *)

IInv ==
    /\ TypeOK /\ JobInvariant /\ PlaceInvariant /\ PipelineInvariant
    /\ TranscriptsHaveNoGaps /\ FaultInvariant /\ ExcerptInvariant

LEMMA InvariantStarts == Init => IInv
<1>. SUFFICES ASSUME Init PROVE IInv
  OBVIOUS
<1>1. /\ requests = <<>> /\ heard = <<>> /\ replies = <<>> /\ found = <<>>
      /\ published = <<>> /\ jobs = <<>> /\ requested = <<>> /\ taken = <<>>
      /\ job = {} /\ apc = "pop" /\ faults = 0 /\ next = 1 /\ reply = "ended"
  BY DEF Init, Closed
<1>2. /\ DOMAIN found = {} /\ DOMAIN published = {} /\ ToSet(taken) = {}
      /\ ToSet(jobs) = {} /\ ToSet(requested) = {} /\ NoRepeat(jobs)
  BY <1>1, Empty
<1>3. SessionTypeOK
  <2>1. requests \in Seq(Chunk) /\ Len(requests) <= ChannelCapacity
    BY <1>1, Empty, SizeAssumption
  <2>2. replies \in Seq(Seq(Utterance)) /\ Len(replies) <= ReplyWindow
    BY <1>1, Empty, SizeAssumption
  <2>3. heard \in Seq(Utterance) /\ faults \in 0..MaxFaults
    BY <1>1, Empty, SizeAssumption
  <2>. QED  BY <2>1, <2>2, <2>3 DEF Init, Closed, SessionTypeOK
<1>4. /\ jobs \in Seq(Path) /\ requested \in Seq(Path) /\ taken \in Seq(Path)
      /\ found \in Seq(Utterance) /\ published \in Seq(Segment)
  BY <1>1, Empty
<1>5. TypeOK
  BY <1>1, <1>2, <1>3, <1>4 DEF TypeOK
<1>6. JobInvariant /\ PlaceInvariant /\ PipelineInvariant
  BY <1>1, <1>2 DEF JobInvariant, PlaceInvariant, PipelineInvariant, AtEnd
<1>7. TranscriptsHaveNoGaps /\ ExcerptInvariant
  BY <1>2 DEF TranscriptsHaveNoGaps, Transcript, ExcerptInvariant
<1>8. Hit = {}
  BY <1>1, <1>2 DEF Hit, Spoiled
<1>9. FaultInvariant
  BY <1>1, <1>8, FS_EmptySet DEF FaultInvariant
<1>. QED  BY <1>5, <1>6, <1>7, <1>9 DEF IInv

LEMMA InvariantHolds == Spec => []IInv
<1>1. IInv /\ [Next]_vars => IInv'
  BY NextKeepsTypes, NextKeepsJobs, NextKeepsPlace, NextKeepsPipeline,
     NextKeepsTranscripts, NextKeepsFaults, NextKeepsExcerpts DEF IInv
<1>. QED  BY <1>1, InvariantStarts, PTL DEF Spec

\* Every variable has its type in every reachable state: channel and window
\* keep their bounds, and the segments in hand are of the job in hand
\* (run_archive_connected).
THEOREM TypeCorrect == Spec => []TypeOK
<1>1. IInv => TypeOK
  BY DEF IInv
<1>. QED  BY <1>1, InvariantHolds, PTL

\* However jobs fail, what is on the transcription stream of a file is the
\* beginning of its transcript, each utterance once and in its place, for
\* files of any lengths, any replies of Riva and any number of failures
\* (send_stream, close, publish_segments).
THEOREM TranscriptsAreBeginnings == Spec => []TranscriptsHaveNoGaps
<1>1. IInv => TranscriptsHaveNoGaps
  BY DEF IInv
<1>. QED  BY <1>1, InvariantHolds, PTL

\* The decodable jobs that are over and not published whole are at most as
\* many as the failures there were, a lost BRPOP reply included
\* (run_archive_connected).
THEOREM OneFailureOneJob == Spec => []FailureCostsOneJob
<1>1. IInv => FailureCostsOneJob
  <2>. SUFFICES ASSUME IInv PROVE FailureCostsOneJob
    OBVIOUS
  <2>. PICK spoiled : spoiled = {path \in Path : Spoiled(path)}
    OBVIOUS
  <2>1. spoiled \subseteq Hit /\ IsFiniteSet(Hit)
    BY DEF Hit, IInv, FaultInvariant
  <2>2. /\ Cardinality(spoiled) <= Cardinality(Hit)
        /\ Cardinality(spoiled) \in Nat /\ Cardinality(Hit) \in Nat
    BY <2>1, FS_Subset, FS_CardinalityType
  <2>3. Cardinality(Hit) <= faults /\ faults \in Nat
    BY DEF IInv, FaultInvariant, TypeOK, SessionTypeOK
  <2>4. Cardinality(spoiled) <= faults
    BY <2>2, <2>3
  <2>. QED  BY <2>4 DEF FailureCostsOneJob
<1>. QED  BY <1>1, InvariantHolds, PTL

\* Files of the format Riva is told, in chunks of whole milliseconds, get
\* each segment's fingerprint from exactly the bytes Riva recognised it in
\* (bridge_audio_fingerprints); ArchiveFormats shows what other formats get.
THEOREM ExcerptsAreExact ==
    ASSUME FormatIsTold, TimesAreWhole
    PROVE  Spec => []ExcerptsAreOwnAudio
<1>1. IInv => ExcerptsAreOwnAudio
  <2>. SUFFICES ASSUME IInv, NEW i \in DOMAIN published
                PROVE  published[i].excerpt = BytesOf(published[i].utterance)
    BY DEF ExcerptsAreOwnAudio
  <2>1. published[i].utterance \in Utterance
    <3>1. published[i] \in Segment
      BY Elements DEF IInv, TypeOK
    <3>. QED  BY <3>1 DEF Segment
  <2>2. published[i] = Bridged(published[i].utterance)
    BY DEF IInv, ExcerptInvariant
  <2>. QED  BY <2>1, <2>2, ExcerptIsChunk
<1>. QED  BY <1>1, InvariantHolds, PTL

\* Whatever the sizes of chunks and files of that format, an excerpt begins and
\* ends less than a millisecond and a byte early: the conversions to Riva's
\* milliseconds and back round down, and do not add up over a file
\* (sample_index_for_ms, audio_slice_for_time_range).
THEOREM ExcerptsAreNearlyOwn ==
    ASSUME FormatIsTold
    PROVE  Spec => [](\A i \in DOMAIN published :
                         NearlyOwn(published[i].utterance, published[i].excerpt))
<1>1. IInv => \A i \in DOMAIN published :
                 NearlyOwn(published[i].utterance, published[i].excerpt)
  <2>. SUFFICES ASSUME IInv, NEW i \in DOMAIN published
                PROVE  NearlyOwn(published[i].utterance, published[i].excerpt)
    OBVIOUS
  <2>1. published[i].utterance \in Utterance
    <3>1. published[i] \in Segment
      BY DEF IInv, TypeOK
    <3>. QED  BY <3>1 DEF Segment
  <2>2. published[i].excerpt = Bridged(published[i].utterance).excerpt
    BY DEF IInv, ExcerptInvariant
  <2>. QED  BY <2>1, <2>2, ExcerptIsNearlyChunk
<1>. QED  BY <1>1, InvariantHolds, PTL

=============================================================================
