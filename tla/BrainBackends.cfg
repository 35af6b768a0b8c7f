SPECIFICATION FairSpec
CONSTANTS
    Tag = {0, 1, 2}
    Unknown = 9
    Name = {1, 2, 3}
    NoName = NoName
    LowerCase = {3}
    Utterance <- MCUtterance
    MaxLines = 4
    RequestSize = 3
    PipeCapacity = 2
    MaxOutput = 4
INVARIANTS
    AnswerIsExpected
    EliminationIsOneToOne
    EliminationIsComplete
    AnswersAreWhole
PROPERTY InferEnds
CHECK_DEADLOCK FALSE
