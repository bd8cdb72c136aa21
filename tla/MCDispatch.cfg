\* Connections come and go among three workers; the threads are fair, the clients not.
SPECIFICATION DispatchFairSpec
CONSTANTS
    f1 = f1
    f2 = f2
    f3 = f3
    NoFd = NoFd
    Fds <- ThreeFds
    NWorkers = 3
    MaxClients = 1
    ConnNewFails = TRUE
INVARIANTS OnePlace Notified
\* A server that no longer listens stops: see CanListenAgain.
CHECK_DEADLOCK FALSE
PROPERTY TakenUp
