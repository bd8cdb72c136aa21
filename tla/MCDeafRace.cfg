\* The last connections close while the dispatch thread is about to stop listening.
SPECIFICATION DispatchSpec
CONSTANTS
    f1 = f1
    f2 = f2
    f3 = f3
    NoFd = NoFd
    Fds <- TwoFds
    NWorkers = 2
    MaxClients = 2
    ConnNewFails = FALSE
INVARIANT CanListenAgain
