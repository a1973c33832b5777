SPECIFICATION FairSpec
CONSTANTS
    c1 = c1
    c2 = c2
    Channels = {c1, c2}
    Fds <- MCFds
    NoFd = 0
    Wanted = {"read", "write"}
    kEventListSize = 1
\* The model stops where the program's behaviour is undefined.
CHECK_DEADLOCK FALSE
INVARIANTS TypeOK AssertsHold KernelSeesInterest NoDanglingChannel
PROPERTIES PollerPromise ReadyIsHandled
