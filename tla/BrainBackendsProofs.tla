------------------------- MODULE BrainBackendsProofs --------------------------
(***************************************************************************)
(* Theorems about BrainBackends, for any tags, names, transcripts, sizes   *)
(* of requests and pipes, and outputs of the command.                      *)
(***************************************************************************)
EXTENDS BrainBackends, FiniteSetTheorems, WellFoundedInduction, TLAPS

-----------------------------------------------------------------------------
(* Least elements and ranks *)

\* A set of numbers that is not empty has a least one.
LEMMA LeastExists ==
    ASSUME NEW S, S \subseteq Nat, S # {}
    PROVE  \E n \in S : Least(n, S)
<1> DEFINE Before == OpToRel(<, Nat)
<1>1. IsWellFoundedOn(Before, Nat)
  BY NatLessThanWellFounded
<1>2. PICK n \in S : \A m \in S : ~ (<<m, n>> \in Before)
  <2> HIDE DEF Before
  <2>. QED  BY <1>1, WFMin
<1>3. \A m \in S : ~ (m < n)
  BY <1>2 DEF OpToRel
<1>. QED  BY <1>3 DEF Least

\* The least member of a set of numbers has rank 0.
LEMMA LeastHasRankZero ==
    ASSUME NEW S, S \subseteq Nat, NEW n \in S, Least(n, S)
    PROVE  Rank(n, S) = 0
<1>1. {m \in S : m < n} = {}
  <2>1. \A m \in S : n <= m /\ m \in Nat /\ n \in Nat
    BY DEF Least
  <2>2. \A m \in S : ~ (m < n)
    BY <2>1
  <2>. QED  BY <2>2
<1>. QED  BY <1>1, FS_EmptySet DEF Rank

\* A request's tags are tags, and its transcript is a sequence of lines.
LEMMA RequestShape ==
    ASSUME request \in Request
    PROVE  /\ request.tags \subseteq Tag
           /\ Len(request.lines) \in Nat
           /\ DOMAIN request.lines = 1..Len(request.lines)
           /\ \A i \in 1..Len(request.lines) : request.lines[i] \in Line
<1>1. request \in [tags : SUBSET Tag,
                   lines : UNION {[1..n -> Line] : n \in 1..MaxLines}]
  BY DEF Request
<1>2. PICK n \in 1..MaxLines : request.lines \in [1..n -> Line]
  BY <1>1
<1>3. n \in Nat
  OBVIOUS
<1>4. Len(request.lines) = n
  BY <1>2, <1>3
<1>. QED  BY <1>1, <1>2, <1>3, <1>4

-----------------------------------------------------------------------------
(* The regex engine keeps its types *)

LEMMA RegexKeepsTypes ==
    ASSUME RegexTypeOK, RegexStep
    PROVE  RegexTypeOK'
<1>1. CASE NameByEvidence
  <2>1. line' \in 1..(Len(request.lines) + 1)
    BY <1>1, RequestShape DEF NameByEvidence, RegexTypeOK
  <2>2. assignments' \in [Speaker -> Name \union {NoName}]
    BY <1>1 DEF NameByEvidence, RegexTypeOK
  <2>. QED  BY <1>1, <2>1, <2>2 DEF NameByEvidence, RegexTypeOK
<1>2. CASE NameByElimination
  <2>1. PICK tag \in todo :
          /\ todo' = todo \ {tag}
          /\ \/ UNCHANGED <<assignments, eliminated>>
             \/ \E name \in RemainingNames :
                   /\ assignments' = [assignments EXCEPT ![tag] = name]
                   /\ eliminated' = eliminated \union {tag}
    BY <1>2 DEF NameByElimination
  <2>2. assignments' \in [Speaker -> Name \union {NoName}]
    BY <2>1 DEF RegexTypeOK, RemainingNames
  <2>3. eliminated' \subseteq request.tags /\ todo' \subseteq request.tags
    BY <2>1 DEF RegexTypeOK
  <2>. QED  BY <1>2, <2>2, <2>3 DEF NameByElimination, RegexTypeOK
<1>. QED  BY <1>1, <1>2 DEF RegexStep

-----------------------------------------------------------------------------
(* Elimination is one-to-one *)

\* Nobody is named by elimination before the last line was read.
EliminationComesLast == line <= Len(request.lines) => eliminated = {}

OneToOneInvariant ==
    RegexTypeOK /\ EliminationComesLast /\ EliminationIsOneToOne

LEMMA RegexStartsOneToOne == Init => OneToOneInvariant
<1>1. SUFFICES ASSUME Init PROVE OneToOneInvariant
  OBVIOUS
<1>2. RegexTypeOK
  BY <1>1, RequestShape DEF Init, RegexInit, RegexTypeOK
<1>3. EliminationComesLast /\ EliminationIsOneToOne
  BY <1>1 DEF Init, RegexInit, EliminationComesLast, EliminationIsOneToOne
<1>. QED  BY <1>2, <1>3 DEF OneToOneInvariant

LEMMA EliminationKeepsOneToOne ==
    ASSUME OneToOneInvariant, NameByElimination
    PROVE  EliminationIsOneToOne'
<1>1. PICK tag \in todo :
        \/ UNCHANGED <<assignments, eliminated>>
        \/ \E name \in RemainingNames :
              /\ assignments[tag] = NoName
              /\ assignments' = [assignments EXCEPT ![tag] = name]
              /\ eliminated' = eliminated \union {tag}
  BY DEF NameByElimination
<1>2. CASE UNCHANGED <<assignments, eliminated>>
  BY <1>2 DEF OneToOneInvariant, EliminationIsOneToOne
<1>3. ASSUME NEW name \in RemainingNames,
             assignments[tag] = NoName,
             assignments' = [assignments EXCEPT ![tag] = name],
             eliminated' = eliminated \union {tag}
      PROVE  EliminationIsOneToOne'
  <2>1. /\ assignments \in [Speaker -> Name \union {NoName}]
        /\ tag \in Speaker /\ eliminated \subseteq Speaker
    BY RequestShape DEF OneToOneInvariant, RegexTypeOK, Speaker
  <2>2. name \in Name /\ \A other \in Speaker : assignments[other] # name
    BY DEF RemainingNames
  <2>3. assignments'[tag] = name
        /\ \A other \in Speaker \ {tag} : assignments'[other] = assignments[other]
    BY <1>3, <2>1
  <2>4. SUFFICES ASSUME NEW named \in eliminated', NEW other \in Speaker \ {named}
                 PROVE  /\ assignments'[named] \in Name
                        /\ assignments'[other] # assignments'[named]
    BY DEF EliminationIsOneToOne
  <2>5. CASE named = tag
    BY <2>2, <2>3, <2>5
  <2>6. CASE named # tag
    <3>1. named \in eliminated /\ assignments[named] \in Name
          /\ assignments[other] # assignments[named]
      BY <1>3, <2>6 DEF OneToOneInvariant, EliminationIsOneToOne
    <3>. QED  BY <2>1, <2>2, <2>3, <2>6, <3>1
  <2>. QED  BY <2>5, <2>6
<1>. QED  BY <1>1, <1>2, <1>3

LEMMA NextKeepsOneToOne == OneToOneInvariant /\ [Next]_vars => OneToOneInvariant'
<1>1. SUFFICES ASSUME OneToOneInvariant, [Next]_vars
               PROVE  OneToOneInvariant'
  OBVIOUS
<1>2. CASE NameByEvidence
  <2>1. RegexTypeOK'
    BY <1>1, <1>2, RegexKeepsTypes DEF OneToOneInvariant, RegexStep
  <2>2. eliminated = {} /\ eliminated' = {}
    BY <1>1, <1>2 DEF NameByEvidence, OneToOneInvariant, EliminationComesLast
  <2>. QED  BY <2>1, <2>2
            DEF OneToOneInvariant, EliminationComesLast, EliminationIsOneToOne
<1>3. CASE NameByElimination
  <2>1. RegexTypeOK'
    BY <1>1, <1>3, RegexKeepsTypes DEF OneToOneInvariant, RegexStep
  <2>2. ~ (line' <= Len(request'.lines))
    <3>1. line > Len(request.lines) /\ UNCHANGED <<request, line>>
      BY <1>3 DEF NameByElimination
    <3>2. line \in Nat /\ Len(request.lines) \in Nat
      BY <1>1, RequestShape DEF OneToOneInvariant, RegexTypeOK
    <3>. QED  BY <3>1, <3>2
  <2>. QED  BY <1>1, <1>3, <2>1, <2>2, EliminationKeepsOneToOne
            DEF OneToOneInvariant, EliminationComesLast
<1>4. CASE UNCHANGED regexVars
  BY <1>1, <1>4 DEF OneToOneInvariant, EliminationComesLast, regexVars,
     EliminationIsOneToOne, RegexTypeOK
<1>. QED  BY <1>1, <1>2, <1>3, <1>4 DEF Next, Regex, Command, RegexStep, vars

LEMMA RegexIsOneToOne == Spec => []OneToOneInvariant
BY RegexStartsOneToOne, NextKeepsOneToOne, PTL DEF Spec

\* For all transcripts and known names: a speaker named by elimination shares
\* the name with nobody (fallback_name_for_remaining_speaker).
THEOREM NamesByEliminationAreDistinct == Spec => []EliminationIsOneToOne
<1>1. OneToOneInvariant => EliminationIsOneToOne
  BY DEF OneToOneInvariant
<1>. QED  BY <1>1, RegexIsOneToOne, PTL

-----------------------------------------------------------------------------
(* Elimination is all or nothing *)

\* Before the last line is read no tag was looked at; a tag that was looked at
\* in vain shows that names and speakers do not go together, a tag that was
\* named that they do.  Either stays so.
CompleteInvariant ==
    /\ OneToOneInvariant
    /\ line <= Len(request.lines) => todo = request.tags
    /\ Unassigned \subseteq todo
          \/ Cardinality(RemainingNames) # Cardinality(Unassigned)
    /\ eliminated # {} =>
          Cardinality(RemainingNames) = Cardinality(Unassigned)

LEMMA LeftAreFinite ==
    ASSUME RegexTypeOK
    PROVE  /\ IsFiniteSet(RemainingNames) /\ IsFiniteSet(Unassigned)
           /\ RemainingNames \subseteq Nat /\ Unassigned \subseteq Nat
<1>1. RemainingNames \in SUBSET Name
  BY DEF RemainingNames
<1>2. Unassigned \in SUBSET Tag
  BY RequestShape DEF Unassigned, RegexTypeOK
<1>. QED  BY <1>1, <1>2, OrderAssumption, FS_Subset DEF Speaker

\* Where names and speakers go together, the first speaker without a name is
\* given one.
LEMMA FirstIsNamed ==
    ASSUME RegexTypeOK, NEW tag \in Unassigned, Least(tag, Unassigned),
           Cardinality(RemainingNames) = Cardinality(Unassigned)
    PROVE  \E name \in RemainingNames : FallbackName(tag, name)
<1>1. RemainingNames # {}
  BY LeftAreFinite, FS_EmptySet
<1>2. PICK name \in RemainingNames : Least(name, RemainingNames)
  BY <1>1, LeftAreFinite, LeastExists
<1>3. Rank(name, RemainingNames) = 0 /\ Rank(tag, Unassigned) = 0
  BY <1>2, LeftAreFinite, LeastHasRankZero
<1>. QED  BY <1>3 DEF FallbackName

\* To name a speaker by elimination takes one of each.
LEMMA OneOfEach ==
    ASSUME RegexTypeOK, NEW tag \in todo, NEW name \in RemainingNames,
           assignments[tag] = NoName,
           assignments' = [assignments EXCEPT ![tag] = name],
           request' = request
    PROVE  /\ RemainingNames' = RemainingNames \ {name}
           /\ Unassigned' = Unassigned \ {tag}
           /\ name \in RemainingNames /\ tag \in Unassigned
<1>1. /\ assignments \in [Speaker -> Name \union {NoName}]
      /\ tag \in Speaker /\ tag \in request.tags
      /\ request.tags \subseteq Speaker
  BY RequestShape DEF RegexTypeOK, Speaker
<1>2. name \in Name /\ name # NoName
  BY OrderAssumption DEF RemainingNames
<1>3. /\ assignments'[tag] = name
      /\ \A other \in Speaker \ {tag} : assignments'[other] = assignments[other]
  BY <1>1
<1>4. RemainingNames' = RemainingNames \ {name}
  BY <1>1, <1>2, <1>3, OrderAssumption DEF RemainingNames
<1>5. Unassigned' = Unassigned \ {tag}
  BY <1>1, <1>2, <1>3 DEF Unassigned
<1>. QED  BY <1>1, <1>4, <1>5 DEF Unassigned

LEMMA EliminationKeepsComplete ==
    ASSUME CompleteInvariant, NameByElimination
    PROVE  /\ Unassigned' \subseteq todo'
                 \/ Cardinality(RemainingNames') # Cardinality(Unassigned')
           /\ eliminated' # {} =>
                 Cardinality(RemainingNames') = Cardinality(Unassigned')
<1>1. PICK tag \in todo :
        /\ Least(tag, todo)
        /\ todo' = todo \ {tag}
        /\ \/ /\ \/ assignments[tag] # NoName
                 \/ \A name \in RemainingNames : ~FallbackName(tag, name)
              /\ UNCHANGED <<assignments, eliminated>>
           \/ \E name \in RemainingNames :
                 /\ assignments[tag] = NoName
                 /\ FallbackName(tag, name)
                 /\ assignments' = [assignments EXCEPT ![tag] = name]
                 /\ eliminated' = eliminated \union {tag}
  BY DEF NameByElimination
<1>2. RegexTypeOK /\ request' = request
  BY DEF CompleteInvariant, OneToOneInvariant, NameByElimination
<1>3. CASE /\ \/ assignments[tag] # NoName
              \/ \A name \in RemainingNames : ~FallbackName(tag, name)
           /\ UNCHANGED <<assignments, eliminated>>
  <2>1. RemainingNames' = RemainingNames /\ Unassigned' = Unassigned
    BY <1>2, <1>3 DEF RemainingNames, Unassigned
  <2>2. CASE assignments[tag] # NoName
    BY <1>1, <1>3, <2>1, <2>2 DEF CompleteInvariant, Unassigned
  <2>3. CASE /\ assignments[tag] = NoName
             /\ \A name \in RemainingNames : ~FallbackName(tag, name)
    <3>1. tag \in Unassigned
      BY <1>2, <2>3 DEF Unassigned, RegexTypeOK
    <3>2. Cardinality(RemainingNames) # Cardinality(Unassigned)
      <4>1. SUFFICES ASSUME Unassigned \subseteq todo
                     PROVE  Cardinality(RemainingNames) # Cardinality(Unassigned)
        BY DEF CompleteInvariant
      <4>2. Least(tag, Unassigned)
        BY <1>1, <3>1, <4>1 DEF Least
      <4>. QED  BY <1>2, <2>3, <3>1, <4>2, FirstIsNamed
    <3>. QED  BY <1>3, <2>1, <3>2 DEF CompleteInvariant
  <2>. QED  BY <1>3, <2>2, <2>3
<1>4. ASSUME NEW name \in RemainingNames,
             assignments[tag] = NoName, FallbackName(tag, name),
             assignments' = [assignments EXCEPT ![tag] = name]
      PROVE  /\ Unassigned' \subseteq todo'
             /\ Cardinality(RemainingNames') = Cardinality(Unassigned')
  <2>1. /\ RemainingNames' = RemainingNames \ {name}
        /\ Unassigned' = Unassigned \ {tag}
        /\ name \in RemainingNames /\ tag \in Unassigned
    BY <1>2, <1>4, OneOfEach
  <2>2. Cardinality(RemainingNames) = Cardinality(Unassigned)
    BY <1>4 DEF FallbackName
  <2>3. /\ Cardinality(RemainingNames \ {name}) = Cardinality(RemainingNames) - 1
        /\ Cardinality(Unassigned \ {tag}) = Cardinality(Unassigned) - 1
    BY <1>2, <2>1, LeftAreFinite, FS_RemoveElement
  <2>. QED  BY <1>1, <2>1, <2>2, <2>3 DEF CompleteInvariant
<1>. QED  BY <1>1, <1>3, <1>4

LEMMA NextKeepsComplete == CompleteInvariant /\ [Next]_vars => CompleteInvariant'
<1>1. SUFFICES ASSUME CompleteInvariant, [Next]_vars
               PROVE  CompleteInvariant'
  OBVIOUS
<1>2. OneToOneInvariant'
  BY <1>1, NextKeepsOneToOne DEF CompleteInvariant
<1>3. CASE NameByEvidence
  <2>1. /\ eliminated' = {} /\ request' = request
        /\ todo' = request.tags
    BY <1>1, <1>3 DEF NameByEvidence, CompleteInvariant, OneToOneInvariant,
       EliminationComesLast
  <2>2. Unassigned' \subseteq todo'
    BY <2>1 DEF Unassigned
  <2>. QED  BY <1>2, <2>1, <2>2 DEF CompleteInvariant
<1>4. CASE NameByElimination
  <2>1. ~ (line' <= Len(request'.lines))
    <3>1. line > Len(request.lines) /\ UNCHANGED <<request, line>>
      BY <1>4 DEF NameByElimination
    <3>2. line \in Nat /\ Len(request.lines) \in Nat
      BY <1>1, RequestShape
         DEF CompleteInvariant, OneToOneInvariant, RegexTypeOK
    <3>. QED  BY <3>1, <3>2
  <2>. QED  BY <1>1, <1>2, <1>4, <2>1, EliminationKeepsComplete
            DEF CompleteInvariant
<1>5. CASE UNCHANGED regexVars
  <2>1. RemainingNames' = RemainingNames /\ Unassigned' = Unassigned
    BY <1>5 DEF regexVars, RemainingNames, Unassigned
  <2>. QED  BY <1>1, <1>2, <1>5, <2>1 DEF CompleteInvariant, regexVars
<1>. QED  BY <1>1, <1>3, <1>4, <1>5 DEF Next, Regex, Command, RegexStep, vars

\* For all transcripts and known names: elimination names all of the speakers
\* who are left or none (infer's second loop over changing assignments).
THEOREM EliminationNamesAllOrNone == Spec => []EliminationIsComplete
<1>1. Init => CompleteInvariant
  <2>1. SUFFICES ASSUME Init PROVE CompleteInvariant
    OBVIOUS
  <2>2. Unassigned \subseteq todo
    BY <2>1 DEF Init, RegexInit, Unassigned
  <2>. QED  BY <2>1, <2>2, RegexStartsOneToOne
            DEF CompleteInvariant, Init, RegexInit
<1>2. CompleteInvariant => EliminationIsComplete
  BY DEF CompleteInvariant, EliminationIsComplete, Inferred
<1>. QED  BY <1>1, <1>2, NextKeepsComplete, PTL DEF Spec

-----------------------------------------------------------------------------
(* The answer *)

\* Two members of different size have different ranks.
LEMMA GreaterHasGreaterRank ==
    ASSUME NEW S, S \subseteq Nat, IsFiniteSet(S),
           NEW m \in S, NEW n \in S, m < n
    PROVE  Rank(m, S) # Rank(n, S)
<1> DEFINE Below(k) == {other \in S : other < k}
<1>1. m \in Below(n) /\ m \notin Below(m)
  OBVIOUS
<1>2. Below(m) \subseteq Below(n)
  <2>1. \A k \in S : k < m => k < n
    OBVIOUS
  <2>. QED  BY <2>1
<1>3. IsFiniteSet(Below(n))
  <2>1. Below(n) \in SUBSET S
    OBVIOUS
  <2>. HIDE DEF Below
  <2>. QED  BY <2>1, FS_Subset
<1>4. Cardinality(Below(m)) # Cardinality(Below(n))
  <2>. HIDE DEF Below
  <2>1. Below(m) \in SUBSET Below(n)
    BY <1>2
  <2>2. Cardinality(Below(n)) = Cardinality(Below(m)) => Below(n) = Below(m)
    BY <1>3, <2>1, FS_Subset
  <2>. QED  BY <1>1, <2>2
<1>. QED  BY <1>4 DEF Rank

LEMMA RankIsOneToOne ==
    ASSUME NEW S, S \subseteq Nat, IsFiniteSet(S),
           NEW m \in S, NEW n \in S, Rank(m, S) = Rank(n, S)
    PROVE  m = n
<1>1. m \in Nat /\ n \in Nat
  OBVIOUS
<1>2. ~ (m < n)
  BY GreaterHasGreaterRank
<1>3. ~ (n < m)
  BY GreaterHasGreaterRank
<1>. QED  BY <1>1, <1>2, <1>3

\* The member of rank 0 is the least.
LEMMA RankZeroIsLeast ==
    ASSUME NEW S, S \subseteq Nat, IsFiniteSet(S), NEW n \in S, Rank(n, S) = 0
    PROVE  Least(n, S)
<1>1. {m \in S : m < n} \in SUBSET S
  OBVIOUS
<1>2. IsFiniteSet({m \in S : m < n})
  BY <1>1, FS_Subset
<1>3. {m \in S : m < n} = {}
  BY <1>2, FS_EmptySet DEF Rank
<1>4. \A m \in S : m \in Nat /\ n \in Nat /\ ~ (m < n)
  BY <1>3
<1>. QED  BY <1>4 DEF Least

\* What the lines read so far say of a speaker.
ToldSoFar(speaker) == {i \in Telling(speaker) : i < line}

HeardSoFar(speaker) ==
    {name \in Name : \E i \in ToldSoFar(speaker) :
        /\ Greatest(i, ToldSoFar(speaker))
        /\ Greatest(name, Mentioned(request.lines[i].text))}

\* Who was not named by elimination is called as in what was read.
HeardInvariant ==
    \A speaker \in Speaker \ eliminated :
        {assignments[speaker]} \ {NoName} = HeardSoFar(speaker)

\* Who was is one of the unheard, with the name of the same rank; they and
\* their names come before those that are left.
RankInvariant ==
    \A tag \in eliminated :
        /\ tag \in Unheard /\ assignments[tag] \in NotSpoken
        /\ Rank(tag, Unheard) = Rank(assignments[tag], NotSpoken)
        /\ \A other \in todo : tag < other
        /\ \A name \in RemainingNames : assignments[tag] < name

AnswerInvariant == CompleteInvariant /\ HeardInvariant /\ RankInvariant

\* When all lines are read, the unheard are those without a name and those
\* named by elimination, and the names not spoken are what is left and what
\* was given.
LEMMA LeftAndGiven ==
    ASSUME AnswerInvariant, line > Len(request.lines)
    PROVE  /\ \A speaker \in Speaker \ eliminated :
                 {assignments[speaker]} \ {NoName} = HeardOf(speaker)
           /\ Unheard = Unassigned \union eliminated
           /\ Unassigned \intersect eliminated = {}
           /\ NotSpoken = RemainingNames \union {assignments[tag] : tag \in eliminated}
           /\ RemainingNames \intersect {assignments[tag] : tag \in eliminated} = {}
           /\ IsFiniteSet(eliminated)
           /\ Cardinality({assignments[tag] : tag \in eliminated})
                 = Cardinality(eliminated)
<1>1. /\ RegexTypeOK /\ EliminationIsOneToOne
      /\ HeardInvariant /\ RankInvariant
  BY DEF AnswerInvariant, CompleteInvariant, OneToOneInvariant
<1>2. /\ request.tags \subseteq Speaker /\ eliminated \subseteq request.tags
      /\ request.tags \subseteq Tag
      /\ assignments \in [Speaker -> Name \union {NoName}]
  BY <1>1, RequestShape DEF RegexTypeOK, Speaker
<1>3. \A tag \in eliminated : assignments[tag] \in Name /\ assignments[tag] # NoName
  BY <1>1, <1>2, OrderAssumption DEF RankInvariant, NotSpoken
<1>4. \A speaker \in Speaker : HeardSoFar(speaker) = HeardOf(speaker)
  <2>1. \A i \in DOMAIN request.lines : i < line
    <3>1. line \in Nat /\ Len(request.lines) \in Nat
          /\ DOMAIN request.lines = 1..Len(request.lines)
      BY <1>1, RequestShape DEF RegexTypeOK
    <3>. QED  BY <3>1
  <2>2. \A speaker \in Speaker : ToldSoFar(speaker) = Telling(speaker)
    BY <2>1 DEF ToldSoFar, Telling
  <2>. QED  BY <2>2 DEF HeardSoFar, HeardOf
<1>5. \A speaker \in Speaker \ eliminated :
         {assignments[speaker]} \ {NoName} = HeardOf(speaker)
  BY <1>1, <1>4 DEF HeardInvariant
<1>6. Unassigned \intersect eliminated = {}
  BY <1>3 DEF Unassigned
<1>7. Unheard = Unassigned \union eliminated
  <2>1. \A tag \in request.tags \ eliminated :
           HeardOf(tag) = {} <=> assignments[tag] = NoName
    <3>1. SUFFICES ASSUME NEW tag \in request.tags \ eliminated
                   PROVE  HeardOf(tag) = {} <=> assignments[tag] = NoName
      OBVIOUS
    <3>2. {assignments[tag]} \ {NoName} = HeardOf(tag)
      BY <1>2, <1>5, <3>1
    <3>3. {assignments[tag]} \ {NoName} = {} <=> assignments[tag] = NoName
      OBVIOUS
    <3>. QED  BY <3>2, <3>3
  <2>2. \A tag \in eliminated : tag \in Unheard
    BY <1>1 DEF RankInvariant
  <2>. QED  BY <1>2, <2>1, <2>2 DEF Unheard, Unassigned
<1>. PICK given : given = {assignments[tag] : tag \in eliminated}
  OBVIOUS
<1>8. RemainingNames \intersect given = {}
  BY <1>2 DEF RemainingNames
<1>9. NotSpoken = RemainingNames \union given
  <2>1. ASSUME NEW name \in NotSpoken, name \notin RemainingNames
        PROVE  name \in given
    <3>1. name \in Name /\ \A speaker \in Speaker : name \notin HeardOf(speaker)
      BY <2>1 DEF NotSpoken
    <3>2. PICK speaker \in Speaker : assignments[speaker] = name
      BY <2>1, <3>1 DEF RemainingNames
    <3>3. name # NoName
      BY <3>1, OrderAssumption
    <3>4. speaker \in eliminated
      <4>1. SUFFICES ASSUME speaker \notin eliminated PROVE FALSE
        OBVIOUS
      <4>2. name \in HeardOf(speaker)
        BY <1>5, <3>2, <3>3, <4>1
      <4>. QED  BY <3>1, <4>2
    <3>. QED  BY <3>2, <3>4
  <2>2. ASSUME NEW name \in RemainingNames PROVE name \in NotSpoken
    <3>1. name \in Name /\ \A speaker \in Speaker : assignments[speaker] # name
      BY DEF RemainingNames
    <3>2. ASSUME NEW speaker \in Speaker PROVE name \notin HeardOf(speaker)
      <4>1. CASE speaker \in eliminated
        BY <1>1, <4>1 DEF RankInvariant, Unheard
      <4>2. CASE speaker \notin eliminated
        BY <1>5, <3>1, <4>2
      <4>. QED  BY <4>1, <4>2
    <3>. QED  BY <3>1, <3>2 DEF NotSpoken
  <2>3. \A name \in given : name \in NotSpoken
    BY <1>1 DEF RankInvariant
  <2>. QED  BY <2>1, <2>2, <2>3
<1>10. IsFiniteSet(eliminated)
  <2>1. eliminated \in SUBSET Tag
    BY <1>2
  <2>. QED  BY <2>1, OrderAssumption, FS_Subset
<1>11. Cardinality(given) = Cardinality(eliminated)
  <2> DEFINE NameOf == [tag \in eliminated |-> assignments[tag]]
  <2>1. NameOf \in Bijection(eliminated, given)
    <3>1. \A one, other \in eliminated :
             assignments[one] = assignments[other] => one = other
      BY <1>1, <1>2 DEF EliminationIsOneToOne
    <3>2. NameOf \in Injection(eliminated, given)
      BY <3>1 DEF Injection, IsInjective
    <3>3. NameOf \in Surjection(eliminated, given)
      BY DEF Surjection
    <3>. QED  BY <3>2, <3>3 DEF Bijection
  <2>2. ExistsBijection(eliminated, given)
    BY <2>1 DEF ExistsBijection
  <2>. QED  BY <1>10, <2>2, FS_Bijection
<1>. QED  BY <1>5, <1>6, <1>7, <1>8, <1>9, <1>10, <1>11

\* A line changes what was heard of its speaker, and only of them.
LEMMA EvidenceIsHeard ==
    ASSUME AnswerInvariant, NameByEvidence
    PROVE  HeardInvariant'
<1>1. /\ RegexTypeOK /\ EliminationComesLast /\ HeardInvariant
  BY DEF AnswerInvariant, CompleteInvariant, OneToOneInvariant
<1>2. /\ line \in Nat /\ line' = line + 1 /\ line <= Len(request.lines)
      /\ Len(request.lines) \in Nat
      /\ DOMAIN request.lines = 1..Len(request.lines)
      /\ line \in DOMAIN request.lines
  BY <1>1, RequestShape DEF RegexTypeOK, NameByEvidence
<1>3. request' = request /\ eliminated = {} /\ eliminated' = {}
  BY <1>1, <1>2 DEF NameByEvidence, EliminationComesLast
<1>. PICK said : said = request.lines[line]
  OBVIOUS
<1>4. said.tag \in Speaker
  BY <1>1, <1>2, RequestShape DEF RegexTypeOK, Line
<1>5. assignments \in [Speaker -> Name \union {NoName}]
  BY <1>1 DEF RegexTypeOK
<1>6. ASSUME NEW speaker \in Speaker
      PROVE  ToldSoFar(speaker)' = IF speaker = said.tag /\ Mentioned(said.text) # {}
                                   THEN ToldSoFar(speaker) \union {line}
                                   ELSE ToldSoFar(speaker)
  <2>1. Telling(speaker)' = Telling(speaker)
    BY <1>3 DEF Telling
  <2>2. Telling(speaker) \subseteq DOMAIN request.lines
    BY DEF Telling
  <2>3. line \in Telling(speaker) <=>
           speaker = said.tag /\ Mentioned(said.text) # {}
    BY <1>2 DEF Telling
  <2>4. \A i \in Telling(speaker) : i < line + 1 <=> i < line \/ i = line
    BY <1>2, <2>2
  <2>5. ToldSoFar(speaker)' = {i \in Telling(speaker) : i < line \/ i = line}
    BY <1>2, <2>1, <2>4 DEF ToldSoFar
  <2>. QED  BY <2>3, <2>5 DEF ToldSoFar
<1>7. ASSUME NEW speaker \in Speaker,
             ToldSoFar(speaker)' = ToldSoFar(speaker)
      PROVE  HeardSoFar(speaker)' = HeardSoFar(speaker)
  BY <1>3, <1>7 DEF HeardSoFar
<1>8. CASE Mentioned(said.text) = {} /\ UNCHANGED assignments
  BY <1>1, <1>3, <1>6, <1>7, <1>8 DEF HeardInvariant
<1>9. ASSUME NEW name \in Name, Greatest(name, Mentioned(said.text)),
             assignments' = [assignments EXCEPT ![said.tag] = name]
      PROVE  HeardInvariant'
  <2>1. \A speaker \in Speaker \ {said.tag} :
           {assignments'[speaker]} \ {NoName} = HeardSoFar(speaker)'
    BY <1>1, <1>3, <1>5, <1>6, <1>7, <1>9 DEF HeardInvariant
  <2>2. ASSUME NEW speaker \in Speaker, speaker = said.tag
        PROVE  {assignments'[speaker]} \ {NoName} = HeardSoFar(speaker)'
    <3>1. assignments'[speaker] = name /\ name # NoName
      BY <1>5, <1>9, <2>2, OrderAssumption
    <3>2. Mentioned(said.text) # {}
      BY <1>9 DEF Greatest
    <3>3. ToldSoFar(speaker)' = ToldSoFar(speaker) \union {line}
      BY <1>6, <2>2, <3>2
    <3>. PICK told : told = ToldSoFar(speaker)'
      OBVIOUS
    <3>4. \A i \in told : i \in Nat /\ i <= line
      <4>1. \A i \in ToldSoFar(speaker) : i \in Nat /\ i < line
        BY <1>2 DEF ToldSoFar, Telling
      <4>2. told = ToldSoFar(speaker) \union {line}
        BY <3>3
      <4>. QED  BY <1>2, <4>1, <4>2
    <3>5. line \in told /\ \A i \in told : Greatest(i, told) <=> i = line
      <4>1. line \in told
        BY <3>3
      <4>. QED  BY <1>2, <3>4, <4>1 DEF Greatest
    <3>6. \A other \in Name : Greatest(other, Mentioned(said.text)) <=> other = name
      <4>1. \A other \in Name : other \in Nat
        BY OrderAssumption
      <4>2. name \in Nat
        BY <4>1
      <4>. QED  BY <1>9, <4>1, <4>2 DEF Greatest
    <3>7. HeardSoFar(speaker)' =
             {other \in Name : \E i \in told :
                 /\ Greatest(i, told)
                 /\ Greatest(other, Mentioned(request.lines[i].text))}
      BY <1>3 DEF HeardSoFar
    <3>8. HeardSoFar(speaker)' = {name}
      BY <3>5, <3>6, <3>7
    <3>. QED  BY <3>1, <3>8
  <2>3. \A speaker \in Speaker :
           {assignments'[speaker]} \ {NoName} = HeardSoFar(speaker)'
    BY <2>1, <2>2
  <2>. QED  BY <2>3 DEF HeardInvariant
<1>. QED  BY <1>8, <1>9 DEF NameByEvidence

\* A name given out is the least of those left, to the first of those left.
LEMMA EliminationKeepsRanks ==
    ASSUME AnswerInvariant, NameByElimination
    PROVE  HeardInvariant' /\ RankInvariant'
<1>1. /\ RegexTypeOK /\ HeardInvariant /\ RankInvariant
      /\ line > Len(request.lines)
  BY DEF AnswerInvariant, CompleteInvariant, OneToOneInvariant, NameByElimination
<1>2. request' = request /\ line' = line
  BY DEF NameByElimination
<1>3. /\ Unheard' = Unheard /\ NotSpoken' = NotSpoken
      /\ \A speaker \in Speaker : HeardSoFar(speaker)' = HeardSoFar(speaker)
  BY <1>2 DEF Unheard, NotSpoken, HeardOf, Telling, HeardSoFar, ToldSoFar
<1>4. PICK tag \in todo :
        /\ Least(tag, todo)
        /\ todo' = todo \ {tag}
        /\ \/ UNCHANGED <<assignments, eliminated>>
           \/ \E name \in RemainingNames :
                 /\ assignments[tag] = NoName
                 /\ FallbackName(tag, name)
                 /\ assignments' = [assignments EXCEPT ![tag] = name]
                 /\ eliminated' = eliminated \union {tag}
  BY DEF NameByElimination
<1>5. CASE UNCHANGED <<assignments, eliminated>>
  <2>1. RemainingNames' = RemainingNames
    BY <1>5 DEF RemainingNames
  <2>2. HeardInvariant'
    BY <1>1, <1>3, <1>5 DEF HeardInvariant
  <2>3. RankInvariant'
    BY <1>1, <1>3, <1>4, <1>5, <2>1 DEF RankInvariant
  <2>. QED  BY <2>2, <2>3
<1>6. ASSUME NEW name \in RemainingNames,
             assignments[tag] = NoName, FallbackName(tag, name),
             assignments' = [assignments EXCEPT ![tag] = name],
             eliminated' = eliminated \union {tag}
      PROVE  HeardInvariant' /\ RankInvariant'
  <2>1. /\ assignments \in [Speaker -> Name \union {NoName}]
        /\ tag \in Speaker /\ tag \in request.tags
        /\ eliminated \subseteq Speaker /\ todo \subseteq Speaker
        /\ \A other \in Speaker : other \in Nat
        /\ \A other \in Name : other \in Nat
    BY <1>1, RequestShape, OrderAssumption DEF RegexTypeOK, Speaker
  <2>2. /\ RemainingNames' = RemainingNames \ {name}
        /\ name \in RemainingNames /\ tag \in Unassigned
        /\ RemainingNames \subseteq Name
    BY <1>1, <1>2, <1>6, OneOfEach DEF RemainingNames
  <2>3. \A other \in Speaker \ {tag} : assignments'[other] = assignments[other]
    BY <1>6, <2>1
  <2>4. assignments'[tag] = name
    BY <1>6, <2>1
  <2>. PICK given : given = {assignments[other] : other \in eliminated}
    OBVIOUS
  <2>5. /\ Unheard = Unassigned \union eliminated
        /\ Unassigned \intersect eliminated = {}
        /\ NotSpoken = RemainingNames \union given
        /\ IsFiniteSet(eliminated)
        /\ Cardinality(given) = Cardinality(eliminated)
    BY <1>1, LeftAndGiven
  <2>6. tag \notin eliminated
    BY <2>2, <2>5
  <2>7. Least(tag, Unassigned)
    <3>1. Unassigned \subseteq todo
      BY <1>6 DEF AnswerInvariant, CompleteInvariant, FallbackName
    <3>. QED  BY <1>4, <2>2, <3>1 DEF Least
  <2>8. Least(name, RemainingNames)
    <3>1. Rank(tag, Unassigned) = 0
      BY <1>1, <2>2, <2>7, LeftAreFinite, LeastHasRankZero
    <3>2. Rank(name, RemainingNames) = 0
      BY <1>6, <3>1 DEF FallbackName
    <3>. QED  BY <1>1, <2>2, <3>2, LeftAreFinite, RankZeroIsLeast
  <2>9. Rank(tag, Unheard) = Rank(name, NotSpoken)
    <3>1. {other \in Unheard : other < tag} = eliminated
      <4>1. \A other \in Unassigned : ~ (other < tag)
        <5>1. Unassigned \subseteq Nat
          BY <1>1, LeftAreFinite
        <5>. QED  BY <2>1, <2>2, <2>7, <5>1 DEF Least
      <4>2. \A other \in eliminated : other < tag
        BY <1>1, <1>4 DEF RankInvariant
      <4>. QED  BY <2>5, <4>1, <4>2
    <3>2. {other \in NotSpoken : other < name} = given
      <4>1. \A other \in RemainingNames : ~ (other < name)
        BY <2>1, <2>2, <2>8 DEF Least
      <4>2. \A other \in given : other < name
        BY <1>1 DEF RankInvariant
      <4>. QED  BY <2>5, <4>1, <4>2
    <3>. QED  BY <2>5, <3>1, <3>2 DEF Rank
  <2>10. HeardInvariant'
    BY <1>1, <1>3, <1>6, <2>3 DEF HeardInvariant
  <2>11. ASSUME NEW other \in eliminated'
         PROVE  /\ other \in Unheard' /\ assignments'[other] \in NotSpoken'
                /\ Rank(other, Unheard') = Rank(assignments'[other], NotSpoken')
                /\ \A next \in todo' : other < next
                /\ \A left \in RemainingNames' : assignments'[other] < left
    <3>1. CASE other = tag
      <4>1. \A next \in todo \ {tag} : tag < next
        BY <1>4, <2>1 DEF Least
      <4>2. \A left \in RemainingNames \ {name} : name < left
        BY <2>1, <2>2, <2>8 DEF Least
      <4>. QED  BY <1>3, <1>4, <2>2, <2>4, <2>5, <2>9, <3>1, <4>1, <4>2
    <3>2. CASE other # tag
      <4>1. other \in eliminated /\ assignments'[other] = assignments[other]
        BY <1>6, <2>1, <2>3, <3>2
      <4>. QED  BY <1>1, <1>3, <1>4, <2>2, <4>1 DEF RankInvariant
    <3>. QED  BY <3>1, <3>2
  <2>12. RankInvariant'
    BY <2>11 DEF RankInvariant
  <2>. QED  BY <2>10, <2>12
<1>. QED  BY <1>4, <1>5, <1>6

LEMMA NextKeepsAnswer == AnswerInvariant /\ [Next]_vars => AnswerInvariant'
<1>1. SUFFICES ASSUME AnswerInvariant, [Next]_vars
               PROVE  AnswerInvariant'
  OBVIOUS
<1>2. CompleteInvariant'
  BY <1>1, NextKeepsComplete DEF AnswerInvariant
<1>3. CASE NameByEvidence
  <2>1. eliminated' = {}
    BY <1>1, <1>3 DEF NameByEvidence, AnswerInvariant, CompleteInvariant,
       OneToOneInvariant, EliminationComesLast
  <2>. QED  BY <1>1, <1>2, <1>3, <2>1, EvidenceIsHeard
            DEF AnswerInvariant, RankInvariant
<1>4. CASE NameByElimination
  BY <1>1, <1>2, <1>4, EliminationKeepsRanks DEF AnswerInvariant
<1>5. CASE UNCHANGED regexVars
  <2>1. /\ Unheard' = Unheard /\ NotSpoken' = NotSpoken
        /\ RemainingNames' = RemainingNames
        /\ \A speaker \in Speaker : HeardSoFar(speaker)' = HeardSoFar(speaker)
    BY <1>5 DEF Unheard, NotSpoken, HeardOf, Telling, HeardSoFar, ToldSoFar,
       RemainingNames, regexVars
  <2>2. HeardInvariant'
    BY <1>1, <1>5, <2>1 DEF AnswerInvariant, HeardInvariant, regexVars
  <2>3. RankInvariant'
    BY <1>1, <1>5, <2>1 DEF AnswerInvariant, RankInvariant, regexVars
  <2>. QED  BY <1>2, <2>2, <2>3 DEF AnswerInvariant
<1>. QED  BY <1>1, <1>3, <1>4, <1>5 DEF Next, Regex, Command, RegexStep, vars

\* For all transcripts, tags and known names: the two loops of infer compute
\* the names said at once, by what is heard last of a speaker and by the order
\* of the speakers and names that are left.
THEOREM AnswersAreAsSaid == Spec => []AnswerIsExpected
<1>1. Init => AnswerInvariant
  <2>1. SUFFICES ASSUME Init PROVE AnswerInvariant
    OBVIOUS
  <2>2. OneToOneInvariant
    BY <2>1, RegexStartsOneToOne
  <2>3. CompleteInvariant
    <3>1. Unassigned \subseteq todo
      BY <2>1 DEF Init, RegexInit, Unassigned
    <3>. QED  BY <2>1, <2>2, <3>1 DEF CompleteInvariant, Init, RegexInit
  <2>4. HeardInvariant
    <3>1. \A i \in DOMAIN request.lines : ~ (i < line)
      <4>1. line = 1 /\ Len(request.lines) \in Nat
            /\ DOMAIN request.lines = 1..Len(request.lines)
        BY <2>1, RequestShape DEF Init, RegexInit
      <4>. QED  BY <4>1
    <3>2. \A speaker \in Speaker : ToldSoFar(speaker) = {}
      BY <3>1 DEF ToldSoFar, Telling
    <3>3. \A speaker \in Speaker : HeardSoFar(speaker) = {}
      BY <3>2 DEF HeardSoFar
    <3>4. \A speaker \in Speaker : assignments[speaker] = NoName
      BY <2>1 DEF Init, RegexInit
    <3>. QED  BY <3>3, <3>4 DEF HeardInvariant
  <2>5. RankInvariant
    BY <2>1 DEF Init, RegexInit, RankInvariant
  <2>. QED  BY <2>3, <2>4, <2>5 DEF AnswerInvariant
<1>2. AnswerInvariant => AnswerIsExpected
  <2>1. SUFFICES ASSUME AnswerInvariant, line > Len(request.lines), todo = {},
                        NEW speaker \in Speaker
                 PROVE  {assignments[speaker]} \ {NoName} = Expected(speaker)
    BY DEF AnswerIsExpected, Inferred
  <2>2. RegexTypeOK /\ RankInvariant /\ CompleteInvariant
    BY <2>1 DEF AnswerInvariant, CompleteInvariant, OneToOneInvariant
  <2>. PICK given : given = {assignments[tag] : tag \in eliminated}
    OBVIOUS
  <2>3. /\ speaker \notin eliminated =>
              {assignments[speaker]} \ {NoName} = HeardOf(speaker)
        /\ Unheard = Unassigned \union eliminated
        /\ Unassigned \intersect eliminated = {}
        /\ NotSpoken = RemainingNames \union given
        /\ RemainingNames \intersect given = {}
        /\ IsFiniteSet(eliminated)
        /\ Cardinality(given) = Cardinality(eliminated)
    BY <2>1, LeftAndGiven
  <2>4. /\ IsFiniteSet(NotSpoken) /\ NotSpoken \subseteq Nat
        /\ NotSpoken \subseteq Name
    <3>1. NotSpoken \in SUBSET Name
      BY DEF NotSpoken
    <3>. QED  BY <3>1, OrderAssumption, FS_Subset
  <2>5. IsFiniteSet(given)
    <3>1. given \in SUBSET NotSpoken
      BY <2>3
    <3>. QED  BY <2>4, <3>1, FS_Subset
  <2>6. /\ Cardinality(Unheard) = Cardinality(Unassigned) + Cardinality(eliminated)
        /\ Cardinality(NotSpoken)
              = Cardinality(RemainingNames) + Cardinality(eliminated)
        /\ Cardinality(Unassigned) \in Nat /\ Cardinality(RemainingNames) \in Nat
        /\ Cardinality(eliminated) \in Nat
    <3>1. IsFiniteSet(RemainingNames) /\ IsFiniteSet(Unassigned)
      BY <2>2, LeftAreFinite
    <3>2. /\ Cardinality(Unassigned) \in Nat /\ Cardinality(RemainingNames) \in Nat
          /\ Cardinality(eliminated) \in Nat
      BY <2>3, <3>1, FS_CardinalityType
    <3>3. Cardinality(Unheard) = Cardinality(Unassigned) + Cardinality(eliminated)
                                 - Cardinality({})
      BY <2>3, <3>1, FS_Union
    <3>4. Cardinality(NotSpoken) = Cardinality(RemainingNames) + Cardinality(given)
                                   - Cardinality({})
      BY <2>3, <2>5, <3>1, FS_Union
    <3>. QED  BY <2>3, <3>2, <3>3, <3>4, FS_EmptySet
  <2>7. CASE Cardinality(RemainingNames) # Cardinality(Unassigned)
    <3>1. eliminated = {}
      BY <2>2, <2>7 DEF CompleteInvariant
    <3>2. Cardinality(Unheard) # Cardinality(NotSpoken)
      BY <2>6, <2>7
    <3>3. Expected(speaker) = HeardOf(speaker)
      BY <3>2 DEF Expected
    <3>. QED  BY <2>3, <3>1, <3>3
  <2>8. CASE Cardinality(RemainingNames) = Cardinality(Unassigned)
    <3>1. Unassigned = {}
      BY <2>1, <2>2, <2>8 DEF CompleteInvariant
    <3>2. CASE speaker \notin eliminated
      <4>1. speaker \notin Unheard
        BY <2>3, <3>1, <3>2
      <4>2. Expected(speaker) = HeardOf(speaker)
        BY <4>1 DEF Expected
      <4>. QED  BY <2>3, <3>2, <4>2
    <3>3. CASE speaker \in eliminated
      <4>. PICK name : name = assignments[speaker]
        OBVIOUS
      <4>1. /\ speaker \in Unheard /\ name \in NotSpoken
            /\ Rank(speaker, Unheard) = Rank(name, NotSpoken)
        BY <2>2, <3>3 DEF RankInvariant
      <4>2. HeardOf(speaker) = {}
        BY <4>1 DEF Unheard
      <4>3. Cardinality(Unheard) = Cardinality(NotSpoken)
        BY <2>6, <2>8
      <4>4. \A other \in NotSpoken :
               Rank(speaker, Unheard) = Rank(other, NotSpoken) <=> other = name
        BY <2>4, <4>1, RankIsOneToOne
      <4>5. Expected(speaker) = {name}
        BY <4>1, <4>2, <4>3, <4>4 DEF Expected
      <4>6. name # NoName
        BY <2>4, <4>1, OrderAssumption
      <4>. QED  BY <4>5, <4>6
    <3>. QED  BY <3>2, <3>3
  <2>. QED  BY <2>7, <2>8
<1>. QED  BY <1>1, <1>2, NextKeepsAnswer, PTL DEF Spec

-----------------------------------------------------------------------------
(* The command's pipes *)

\* What the command wrote is read or in a pipe; the brain reads when it has
\* written all; it answers when the command is gone and the pipes are empty.
CommandInvariant ==
    /\ CommandTypeOK
    /\ produced = collected + pipe["stdout"] + pipe["stderr"]
    /\ child \in {"stdout", "stderr"} => produced < MaxOutput
    /\ backend \in {"collect", "answered"} => unsent = 0
    /\ backend = "answered" =>
          child = "exited" /\ pipe["stdout"] = 0 /\ pipe["stderr"] = 0

LEMMA PipeNames ==
    /\ {"stdin", "stdout", "stderr"} = Pipe
    /\ "stdin" # "stdout" /\ "stdin" # "stderr" /\ "stdout" # "stderr"
BY DEF Pipe

LEMMA CommandStarts == Init => CommandInvariant
<1>1. SUFFICES ASSUME Init PROVE CommandInvariant
  OBVIOUS
<1>2. /\ pipe \in [Pipe -> 0..PipeCapacity]
      /\ pipe["stdout"] = 0 /\ pipe["stderr"] = 0
  <2>1. pipe = [p \in Pipe |-> 0]
    BY <1>1 DEF Init, CommandInit
  <2>2. 0 \in 0..PipeCapacity
    BY PipeAssumption
  <2>. QED  BY <2>1, <2>2, PipeNames
<1>3. /\ unsent \in 0..RequestSize
      /\ produced \in 0..MaxOutput /\ collected \in 0..MaxOutput
      /\ produced = 0 /\ collected = 0
  <2>1. unsent = RequestSize /\ produced = 0 /\ collected = 0
    BY <1>1 DEF Init, CommandInit
  <2>. QED  BY <2>1, PipeAssumption
<1>4. backend \in {"idle", "start"} /\ child = "not started"
  BY <1>1 DEF Init, CommandInit
<1>5. CommandTypeOK
  BY <1>2, <1>3, <1>4 DEF CommandTypeOK
<1>6. produced = collected + pipe["stdout"] + pipe["stderr"]
  BY <1>2, <1>3
<1>7. child \notin {"stdout", "stderr"} /\ backend \notin {"collect", "answered"}
  BY <1>4
<1>. QED  BY <1>5, <1>6, <1>7 DEF CommandInvariant

\* What the types say of the numbers.
LEMMA NumbersAreCounted ==
    ASSUME CommandTypeOK
    PROVE  /\ unsent \in Nat /\ unsent <= RequestSize
           /\ produced \in Nat /\ produced <= MaxOutput
           /\ collected \in Nat /\ collected <= MaxOutput
<1>1. /\ unsent \in 0..RequestSize
      /\ produced \in 0..MaxOutput /\ collected \in 0..MaxOutput
  BY DEF CommandTypeOK
<1>. QED  BY <1>1, PipeAssumption

\* A pipe holds a number of units.
LEMMA PipesAreCounted ==
    ASSUME CommandTypeOK, NEW p \in Pipe
    PROVE  pipe[p] \in Nat /\ pipe[p] <= PipeCapacity /\ PipeCapacity \in Nat
<1>1. pipe \in [Pipe -> 0..PipeCapacity]
  BY DEF CommandTypeOK
<1>2. pipe[p] \in 0..PipeCapacity
  BY <1>1
<1>. QED  BY <1>2, PipeAssumption

\* A step moves units into or out of one pipe.
LEMMA OtherPipesKeep ==
    ASSUME CommandTypeOK, NEW p \in Pipe, NEW units \in Nat,
           units <= PipeCapacity, pipe' = [pipe EXCEPT ![p] = units]
    PROVE  /\ pipe' \in [Pipe -> 0..PipeCapacity]
           /\ pipe'[p] = units
           /\ \A other \in Pipe \ {p} : pipe'[other] = pipe[other]
<1>1. units \in 0..PipeCapacity
  BY PipeAssumption
<1>2. pipe \in [Pipe -> 0..PipeCapacity]
  BY DEF CommandTypeOK
<1>. QED  BY <1>1, <1>2

LEMMA BackendKeepsInvariant ==
    ASSUME CommandInvariant, BackendStep
    PROVE  CommandInvariant'
<1>. USE DEF CommandInvariant
<1>1. CASE Spawn
  BY <1>1 DEF Spawn, CommandTypeOK
<1>2. CASE WriteRequest
  <2>1. pipe' = [pipe EXCEPT !["stdin"] = pipe["stdin"] + 1]
        /\ pipe["stdin"] < PipeCapacity
    BY <1>2 DEF WriteRequest
  <2>2. pipe["stdin"] + 1 \in Nat /\ pipe["stdin"] + 1 <= PipeCapacity
    BY <2>1, PipesAreCounted, PipeNames
  <2>3. /\ pipe' \in [Pipe -> 0..PipeCapacity]
        /\ pipe'["stdout"] = pipe["stdout"] /\ pipe'["stderr"] = pipe["stderr"]
    BY <2>1, <2>2, OtherPipesKeep, PipeNames
  <2>4. unsent' \in 0..RequestSize
    BY <1>2, NumbersAreCounted, PipeAssumption DEF WriteRequest
  <2>. QED  BY <1>2, <2>3, <2>4 DEF WriteRequest, CommandTypeOK
<1>3. CASE WriteFails
  BY <1>3 DEF WriteFails, CommandTypeOK
<1>4. CASE CloseStdin
  BY <1>4 DEF CloseStdin, CommandTypeOK
<1>5. CASE CollectOutput
  <2>1. PICK p \in {"stdout", "stderr"} :
           pipe[p] > 0 /\ pipe' = [pipe EXCEPT ![p] = pipe[p] - 1]
    BY <1>5 DEF CollectOutput
  <2>2. p \in Pipe /\ pipe[p] - 1 \in Nat /\ pipe[p] - 1 <= PipeCapacity
    BY <2>1, PipesAreCounted, PipeNames
  <2>3. /\ pipe' \in [Pipe -> 0..PipeCapacity]
        /\ pipe'[p] = pipe[p] - 1
        /\ \A other \in Pipe \ {p} : pipe'[other] = pipe[other]
    BY <2>1, <2>2, OtherPipesKeep
  <2>4. pipe["stdout"] \in Nat /\ pipe["stderr"] \in Nat
    BY PipesAreCounted, PipeNames
  <2>5. /\ pipe'["stdout"] + pipe'["stderr"]
             = pipe["stdout"] + pipe["stderr"] - 1
        /\ pipe'["stdout"] \in Nat /\ pipe'["stderr"] \in Nat
    <3>1. CASE p = "stdout"
      BY <2>2, <2>3, <2>4, <3>1, PipeNames
    <3>2. CASE p = "stderr"
      BY <2>2, <2>3, <2>4, <3>2, PipeNames
    <3>. QED  BY <3>1, <3>2
  <2>6. collected' \in 0..MaxOutput
        /\ produced' = collected' + pipe'["stdout"] + pipe'["stderr"]
    <3>1. collected' = collected + 1 /\ produced' = produced
      BY <1>5 DEF CollectOutput
    <3>. QED  BY <2>4, <2>5, <3>1, NumbersAreCounted, PipeAssumption
  <2>. QED  BY <1>5, <2>3, <2>6 DEF CollectOutput, CommandTypeOK
<1>6. CASE CommandEnds
  BY <1>6 DEF CommandEnds, CommandTypeOK
<1>. QED  BY <1>1, <1>2, <1>3, <1>4, <1>5, <1>6 DEF BackendStep

LEMMA ChildKeepsInvariant ==
    ASSUME CommandInvariant, ChildStep
    PROVE  CommandInvariant'
<1>. USE DEF CommandInvariant
<1>1. CASE ChildChooses
  BY <1>1 DEF ChildChooses, CommandTypeOK
<1>2. CASE ChildReads
  <2>1. CASE pipe' = pipe
    BY <1>2, <2>1 DEF ChildReads, CommandTypeOK
  <2>2. CASE /\ pipe["stdin"] > 0
             /\ pipe' = [pipe EXCEPT !["stdin"] = pipe["stdin"] - 1]
    <3>1. pipe["stdin"] - 1 \in Nat /\ pipe["stdin"] - 1 <= PipeCapacity
      BY <2>2, PipesAreCounted, PipeNames
    <3>2. /\ pipe' \in [Pipe -> 0..PipeCapacity]
          /\ pipe'["stdout"] = pipe["stdout"] /\ pipe'["stderr"] = pipe["stderr"]
      BY <2>2, <3>1, OtherPipesKeep, PipeNames
    <3>. QED  BY <1>2, <3>2 DEF ChildReads, CommandTypeOK
  <2>. QED  BY <1>2, <2>1, <2>2 DEF ChildReads
<1>3. CASE ChildWrites
  <2>1. /\ child \in Pipe /\ pipe[child] < PipeCapacity
        /\ pipe' = [pipe EXCEPT ![child] = pipe[child] + 1]
    BY <1>3, PipeNames DEF ChildWrites
  <2>2. pipe[child] + 1 \in Nat /\ pipe[child] + 1 <= PipeCapacity
    BY <2>1, PipesAreCounted
  <2>3. /\ pipe' \in [Pipe -> 0..PipeCapacity]
        /\ pipe'[child] = pipe[child] + 1
        /\ \A other \in Pipe \ {child} : pipe'[other] = pipe[other]
    BY <2>1, <2>2, OtherPipesKeep
  <2>4. pipe["stdout"] \in Nat /\ pipe["stderr"] \in Nat
    BY PipesAreCounted, PipeNames
  <2>5. pipe'["stdout"] + pipe'["stderr"] = pipe["stdout"] + pipe["stderr"] + 1
    <3>1. CASE child = "stdout"
      BY <2>3, <2>4, <3>1, PipeNames
    <3>2. CASE child = "stderr"
      BY <2>3, <2>4, <3>2, PipeNames
    <3>. QED  BY <1>3, <3>1, <3>2 DEF ChildWrites
  <2>6. produced' \in 0..MaxOutput
    BY <1>3, NumbersAreCounted, PipeAssumption DEF ChildWrites
  <2>7. produced' = collected' + pipe'["stdout"] + pipe'["stderr"]
    <3>1. collected \in Nat
      BY NumbersAreCounted
    <3>2. produced' = produced + 1 /\ collected' = collected
      BY <1>3 DEF ChildWrites
    <3>. HIDE DEF CommandInvariant
    <3>3. produced = collected + pipe["stdout"] + pipe["stderr"]
      BY DEF CommandInvariant
    <3>4. pipe'["stdout"] \in Nat /\ pipe'["stderr"] \in Nat
      BY <2>3, PipeNames, PipeAssumption
    <3>. QED  BY <2>4, <2>5, <3>1, <3>2, <3>3, <3>4
  <2>. QED  BY <1>3, <2>3, <2>6, <2>7 DEF ChildWrites, CommandTypeOK
<1>. QED  BY <1>1, <1>2, <1>3 DEF ChildStep

LEMMA CommandKeepsInvariant == Spec => []CommandInvariant
<1>1. CommandInvariant /\ UNCHANGED commandVars => CommandInvariant'
  BY DEF CommandInvariant, CommandTypeOK, commandVars
<1>2. CommandInvariant /\ [Next]_vars => CommandInvariant'
  BY <1>1, BackendKeepsInvariant, ChildKeepsInvariant
     DEF Next, Regex, Command, vars
<1>. QED  BY <1>2, CommandStarts, PTL DEF Spec

\* Every variable keeps its type: no pipe holds more than its capacity, and the
\* second loop only looks at tags it was asked about (both backends).
THEOREM BackendTypes == Spec => []TypeOK
<1>1. OneToOneInvariant /\ CommandInvariant => TypeOK
  BY DEF OneToOneInvariant, CommandInvariant, TypeOK
<1>. QED  BY <1>1, RegexIsOneToOne, CommandKeepsInvariant, PTL

\* Whatever the command does, its answer is decoded from all it wrote, and it
\* was sent the whole request (CommandBrainBackend).
THEOREM AnswersAreDecodedWhole == Spec => []AnswersAreWhole
<1>1. CommandInvariant => AnswersAreWhole
  BY DEF CommandInvariant, CommandTypeOK, AnswersAreWhole
<1>. QED  BY <1>1, CommandKeepsInvariant, PTL

=============================================================================
