SPECIFICATION FairSpec
CONSTANTS
    Letters = {"a", "b"}
    MaxPattern = 4
    MaxName = 4
INVARIANTS
    AnswerIsMatch
    PointersInside
PROPERTIES
    AnswerIsGiven
