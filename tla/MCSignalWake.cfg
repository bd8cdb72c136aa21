\* A second signal comes before the callback of the first one's wake-up.
SPECIFICATION Spec
CONSTANTS
    r = r
    w = w
    s = s
    f1 = f1
    sig = sig
    User = {r, w, s}
    ev_signal = ev_signal
    Fds = {f1}
    PairFd = PairFd
    ev_fd <- MC_fd
    ev_events <- MC_events
    Added <- MC_added
    NPriorities = 1
    MaxTv = 1
    Nil = Nil
    MaxCalls = 2
    MaxSignals = 2
    LoopFlags = {{}}
    SelfActive = FALSE
    CtlFails = FALSE
INVARIANT SignalsWake
