SPECIFICATION Spec
CONSTANTS
    Families <- Expiring
    Elem <- Names
    KeyName <- LetterOfKey
    Patterns <- SomePatterns
    Subjects <- SomeSubjects
    LLMax = 9
    Sec = 2
    Batch = 2
    MaxWrites = 3
    MaxNow = 3
INVARIANT ExpiryInvisible
INVARIANT RewriteKeepsLive
INVARIANT KeysAgree
