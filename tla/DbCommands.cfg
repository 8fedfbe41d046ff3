SPECIFICATION Spec
CONSTANTS
    Families <- AllTypes
    Elem <- Names
    KeyName <- LetterOfKey
    Patterns <- SomePatterns
    Subjects <- SomeSubjects
    LLMax = 9
    Sec = 2
    Batch = 2
    MaxWrites = 3
    MaxNow = 0
INVARIANT TypeOK
INVARIANT ErrorsConfined
INVARIANT NoEmptyContainer
INVARIANT ReplayReproduces
INVARIANT RepliesFramed
INVARIANT ListCommandsAgree
INVARIANT ZsetQueriesAgree
