SPECIFICATION FairSpec
CONSTANTS
    p1 = p1
    p2 = p2
    p3 = p3
    Listener = Listener
    Peer = {p1, p2, p3}
    Order <- SomeOrder
    Leavers = {p1}
    Scripts <- SomeScripts
    Cuts <- SomeCuts
    ParseCommand <- RespParse
    Quit <- QuitArgv
    Refusal = Refusal
    READ_CHUNK = 9
    MAX_QUERY_BUF = 20
    MAX_CLIENTS = 2
    EPOLL_MAX_EVENTS = 2
    FdRoom = 2
    SNDBUF = 1
    MaxTroubles = 1
    MAX_ARGC = 4
    MAX_BULK_LEN = 12
    LLONG_MAX = 127
INVARIANTS TypeOK FragmentationInvisible RepliesInOrder NoStaleEvent Armed CutShortOnlyIfHuge
PROPERTIES Answered StopEnds
CHECK_DEADLOCK FALSE
