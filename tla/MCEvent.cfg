\* A reader and a writer of one descriptor, a signal, timers; the loop is fair.
SPECIFICATION FairSpec
CONSTANTS
    r = r
    w = w
    s = s
    f1 = f1
    sig = sig
    User = {r, w, s}
    ev_signal = ev_signal
    Fds = {f1}
    PairFd = PairFd
    ev_fd <- MC_fd
    ev_events <- MC_events
    Added <- MC_added
    NPriorities = 2
    MaxTv = 1
    Nil = Nil
    MaxCalls = 2
    MaxSignals = 1
    LoopFlags = {{}}
    SelfActive = FALSE
    CtlFails = TRUE
INVARIANTS QueuesExact KernelExact
PROPERTIES DeletesWork CalledBack
