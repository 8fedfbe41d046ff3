SPECIFICATION FairSpec
CONSTANTS
    Key = {1, 2, 3}
    Hashes <- SomeHashes
    EXPIRE_CYCLE_MAX_KEYS = 1
    INITIAL_SIZE = 2
    LOAD_FACTOR_NUM = 3
    LOAD_FACTOR_DEN = 4
    NoEntry = NoEntry
INVARIANT TableIsSound
PROPERTIES ImplementsKeyMap ExpiredSwept
