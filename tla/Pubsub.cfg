SPECIFICATION Spec
CONSTANTS
    Client = {1, 2}
    Channel = {1, 2}
    Hashes <- SomeHashes
    Leftover <- SomeLeftover
    MaxCount = 3
    INITIAL_SIZE = 1
    LOAD_FACTOR_NUM = 3
    LOAD_FACTOR_DEN = 4
    NoEntry = NoEntry
INVARIANT SubscribersLive
PROPERTY ImplementsRegistry
