\* Two clients, every server; no symmetry: liveness.
SPECIFICATION FairSpec
CONSTANTS
    k1 = k1
    k2 = k2
    Clients <- TwoClients
    Binary <- SomeBinary
    Fds <- TwoFds
    Limits = {5, 6}
    NoClient = NoClient
    ListenFd = 3
    NoFd = 0
    BUFFER_SZ = 2
    InCap = 3
    OutCap = 1
    EventListSize = 1
    FD_SETSIZE = 6
    Servers = {"blocking", "select", "poll", "epoll"}
INVARIANTS
    TypeOK
    OpenWhileHeld
    BooksAgree
PROPERTIES
    FreshEventsFind
    EchoPromise
    NobodyStarves
\* A signal or undefined behaviour ends the server.
CHECK_DEADLOCK FALSE
