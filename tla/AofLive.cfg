SPECIFICATION FairSpec
CONSTANTS
    Child = {c1, c2}
    Inode = {i1, i2, i3}
    NoInode = NoInode
    Server = Server
    RdbOn = TRUE
    Allowed <- OneMishap
    MaxWrites = 1
    MaxForks = 2
    MaxStore = 2
PROPERTIES RewriteEnds ZombiesReaped
CHECK_DEADLOCK FALSE
