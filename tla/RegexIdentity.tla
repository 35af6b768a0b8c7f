---------------------------- MODULE RegexIdentity ----------------------------
(***************************************************************************)
(* RegexIdentityEngine of teto-brain (main.rs): names the speakers of a    *)
(* transcript, first by what is said line by line, then, tag by tag, by    *)
(* elimination.                                                            *)
(*                                                                         *)
(* Speakers and names are numbers in the order of the BTreeMaps that hold  *)
(* them.  Of a line's text only two sets matter: the names an alias of     *)
(* which occurs in it, and those whose canonical form follows a marker     *)
(* such as "i am".  Texts are lowered and canonical names are not, so that *)
(* the markers work for canonical names in lower case only.  Names are     *)
(* what from_json leaves of the configured ones; two that become equal by  *)
(* trimming, which the code would keep as two entries, are not modelled.   *)
(***************************************************************************)
EXTENDS Naturals, FiniteSets, Sequences

CONSTANTS
    Tag,        \* speaker tags a request may list
    Unknown,    \* the tag of a line without a colon, or another bogus tag
    Name,       \* canonical names of TETO_KNOWN_NAMES_JSON
    NoName,
    LowerCase,  \* the canonical names that are in lower case
    Utterance,  \* the texts of lines
    MaxLines    \* bound on a transcript's length

Speaker == Tag \union {Unknown}

ASSUME OrderAssumption ==
    /\ Speaker \subseteq Nat /\ IsFiniteSet(Tag) /\ Unknown \notin Tag
    /\ Name \subseteq Nat /\ IsFiniteSet(Name) /\ NoName \notin Name
    /\ LowerCase \subseteq Name
ASSUME UtteranceAssumption ==
    Utterance \subseteq [aliases : SUBSET Name, introduced : SUBSET Name]

VARIABLES
    request,      \* its speaker tags, and its transcript's lines
    assignments,
    line,         \* the next line
    todo,         \* the speaker tags the second loop has before it
    eliminated    \* history: the tags named by elimination

regexVars == <<request, assignments, line, todo, eliminated>>

\* parse_speaker_lines
Line == [tag : Speaker, text : Utterance]

\* BrainIdentityRequest: the controller writes a line for every segment and
\* lists the segments' tags; a text with a line break adds other lines.
Request ==
    {asked \in [tags : SUBSET Tag,
                lines : UNION {[1..n -> Line] : n \in 1..MaxLines}] :
        /\ asked.tags # {}
        /\ \A tag \in asked.tags :
              \E i \in DOMAIN asked.lines : asked.lines[i].tag = tag
        /\ \A i \in DOMAIN asked.lines :
              asked.lines[i].tag \in asked.tags \union {Unknown}}

\* mentions_self_as or mentions_name; a marker with an alias is an alias.
Mentioned(text) == text.aliases \union (text.introduced \intersect LowerCase)

Greatest(n, set) == n \in set /\ \A m \in set : m <= n
Least(n, set)    == n \in set /\ \A m \in set : n <= m
Rank(n, set)     == Cardinality({m \in set : m < n})

RegexInit ==
    /\ assignments = [speaker \in Speaker |-> NoName]
    /\ line = 1
    /\ todo = request.tags
    /\ eliminated = {}

\* Mutant: the first evidence a speaker gave stands.
FirstEvidence ==
    /\ line <= Len(request.lines)
    /\ LET said == request.lines[line] IN
        \/ /\ Mentioned(said.text) = {} \/ assignments[said.tag] # NoName
           /\ UNCHANGED assignments
        \/ \E name \in Name :
              /\ assignments[said.tag] = NoName
              /\ Greatest(name, Mentioned(said.text))
              /\ assignments' = [assignments EXCEPT ![said.tag] = name]
    /\ line' = line + 1
    /\ UNCHANGED <<request, todo, eliminated>>

\* The names are tried in order, and each one found replaces the one before.
NameByEvidence ==
    /\ line <= Len(request.lines)
    /\ LET said == request.lines[line] IN
        \/ Mentioned(said.text) = {} /\ UNCHANGED assignments
        \/ \E name \in Name :
              /\ Greatest(name, Mentioned(said.text))
              /\ assignments' = [assignments EXCEPT ![said.tag] = name]
    /\ line' = line + 1
    /\ UNCHANGED <<request, todo, eliminated>>

Unassigned == {tag \in request.tags : assignments[tag] = NoName}

\* Mutant: every configured name is a remaining one.
AllNames == Name

RemainingNames == Name \ {assignments[speaker] : speaker \in Speaker}

\* Mutant: names are given out while they last.
WhileTheyLast(tag, name) ==
    Rank(name, RemainingNames) = Rank(tag, Unassigned)

\* fallback_name_for_remaining_speaker returns this name.
FallbackName(tag, name) ==
    /\ Cardinality(RemainingNames) = Cardinality(Unassigned)
    /\ Rank(name, RemainingNames) = Rank(tag, Unassigned)

NameByElimination ==
    /\ line > Len(request.lines)
    /\ \E tag \in todo :
        /\ Least(tag, todo)
        /\ todo' = todo \ {tag}
        /\ \/ /\ \/ assignments[tag] # NoName
                 \/ \A name \in RemainingNames : ~FallbackName(tag, name)
              /\ UNCHANGED <<assignments, eliminated>>
           \/ \E name \in RemainingNames :
                 /\ assignments[tag] = NoName
                 /\ FallbackName(tag, name)
                 /\ assignments' = [assignments EXCEPT ![tag] = name]
                 /\ eliminated' = eliminated \union {tag}
    /\ UNCHANGED <<request, line>>

Inferred == line > Len(request.lines) /\ todo = {}

RegexStep == NameByEvidence \/ NameByElimination

-----------------------------------------------------------------------------
RegexTypeOK ==
    /\ request \in Request
    /\ assignments \in [Speaker -> Name \union {NoName}]
    /\ line \in 1..(Len(request.lines) + 1)
    /\ eliminated \subseteq request.tags
    /\ todo \subseteq request.tags

\* A name found by elimination belongs to nobody else, neither by what was
\* said nor by elimination (fallback_name_for_remaining_speaker).
EliminationIsOneToOne ==
    \A tag \in eliminated : \A other \in Speaker \ {tag} :
        assignments[tag] \in Name /\ assignments[other] # assignments[tag]

\* Elimination names every speaker the transcript left unnamed, or none: it
\* never guesses for some of them (infer's second loop).
EliminationIsComplete ==
    Inferred => eliminated = {} \/ Unassigned = {}

\* What the answer is, said at once: a speaker is called as in the last of
\* their lines that mentions somebody, by the greatest name it mentions;
\* when as many names as speakers are left, they go together in order.
Telling(speaker) ==
    {i \in DOMAIN request.lines : /\ request.lines[i].tag = speaker
                                  /\ Mentioned(request.lines[i].text) # {}}

HeardOf(speaker) ==
    {name \in Name : \E i \in Telling(speaker) :
        /\ Greatest(i, Telling(speaker))
        /\ Greatest(name, Mentioned(request.lines[i].text))}

Unheard   == {tag \in request.tags : HeardOf(tag) = {}}
NotSpoken == Name \ UNION {HeardOf(speaker) : speaker \in Speaker}

Expected(speaker) ==
    HeardOf(speaker) \union
    {name \in NotSpoken : /\ speaker \in Unheard
                          /\ Cardinality(Unheard) = Cardinality(NotSpoken)
                          /\ Rank(speaker, Unheard) = Rank(name, NotSpoken)}

\* The engine's two loops compute just that (infer).
AnswerIsExpected ==
    Inferred =>
        \A speaker \in Speaker :
            {assignments[speaker]} \ {NoName} = Expected(speaker)

=============================================================================
