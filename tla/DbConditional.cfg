SPECIFICATION Spec
CONSTANTS
    Families <- Conditional
    Elem <- Names
    KeyName <- LetterOfKey
    Patterns <- SomePatterns
    Subjects <- SomeSubjects
    LLMax = 9
    Sec = 2
    Batch = 2
    MaxWrites = 3
    MaxNow = 2
INVARIANT ReplayKeepsContents
