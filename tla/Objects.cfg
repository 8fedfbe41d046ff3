SPECIFICATION Spec
CONSTANTS
    Value = {1, 2}
    Member = {1, 2, 3}
    Score = {1, 2}
    Hashes <- SomeHashes
    MaxLen = 4
    MaxHeight = 3
    ZSKIPLIST_MAXLEVEL = 3
    INITIAL_SIZE = 2
    LOAD_FACTOR_NUM = 3
    LOAD_FACTOR_DEN = 4
    NoEntry = NoEntry
INVARIANTS DictPointsAtNodes ListLinked SkiplistSound QueriesAgree
PROPERTIES ImplementsContainer
