SPECIFICATION Spec
CONSTANTS
    Child = {c1, c2}
    Inode = {i1, i2, i3, i4}
    NoInode = NoInode
    Server = Server
    RdbOn = TRUE
    Allowed <- EarlyReap
    MaxWrites = 2
    MaxForks = 2
    MaxStore = 4
SYMMETRY Interchangeable
INVARIANT CompleteDespiteBgsave
CHECK_DEADLOCK FALSE
