----------------------------- MODULE EventBase -----------------------------
(***************************************************************************)
(* The data of a libevent event base and the calls that change it:         *)
(* event_add, event_del, event_active and the queues under them (event.c), *)
(* the table of descriptors of epoll.c and the signal mask of signal.c.    *)
(* A base is a record b; an operator named after a C function gives the    *)
(* base the function leaves.  Module EventLoop runs the loop.              *)
(***************************************************************************)
EXTENDS Naturals, Sequences, FiniteSets, SequencesExt

CONSTANTS
    User,          \* the events of the program
    ev_signal,     \* signal.c's own event, on the read end of its socket pair
    Fds, PairFd,   \* the program's descriptors, and that read end
    ev_fd,         \* [User -> descriptor, signal or neither]
    ev_events,     \* [User -> SUBSET {"read", "write", "signal", "persist"}]
    NPriorities,   \* nactivequeues
    MaxTv,         \* bound: the longest timeout, in clock ticks
    Nil

Ev == User \cup {ev_signal}

EventsOf(e) == IF e = ev_signal THEN {"read"} ELSE ev_events[e]
FdOf(e)     == IF e = ev_signal THEN PairFd ELSE ev_fd[e]

IsIo(e)     == EventsOf(e) \cap {"read", "write"} # {}
IsSignal(e) == "signal" \in EventsOf(e)
Persists(e) == "persist" \in EventsOf(e)

Signals == {ev_fd[e] : e \in {u \in User : IsSignal(u)}}
Pri     == 0 .. NPriorities - 1

ASSUME EventAssumption ==
    /\ IsFiniteSet(User) /\ IsFiniteSet(Fds)
    /\ Nil \notin Ev /\ ev_signal \notin User /\ PairFd \notin Fds
    /\ NPriorities \in Nat \ {0} /\ MaxTv \in Nat
    /\ \A e \in User : /\ IsIo(e) => ~IsSignal(e) /\ ev_fd[e] \in Fds
                       /\ IsSignal(e) => ev_fd[e] \notin Fds \cup {PairFd}
    \* struct evepoll has one slot for each direction of a descriptor
    /\ \A e, f \in User : e # f /\ IsIo(e) /\ IsIo(f) /\ ev_fd[e] = ev_fd[f]
                            => EventsOf(e) \cap EventsOf(f) \subseteq {"persist"}

Queues == {"timeout", "inserted", "signal", "active"}    \* EVLIST_*
Results == {"timeout", "read", "write", "signal"}        \* EV_*
NoTv == MaxTv + 1                                        \* tv == NULL

Empty ==
    [ev_flags   |-> [e \in Ev |-> {}],
     ev_res     |-> [e \in Ev |-> {}],
     ev_ncalls  |-> [e \in Ev |-> 0],
     ev_pncalls |-> [e \in Ev |-> "null"],
     ev_pri     |-> [e \in Ev |-> IF e = ev_signal THEN 0 ELSE NPriorities \div 2],
     left       |-> [e \in Ev |-> 0],              \* ticks until ev_timeout
     event_count |-> 0, event_count_active |-> 0,
     activequeues |-> [p \in Pri |-> <<>>],
     signalqueue |-> <<>>,
     evep       |-> [fd \in Fds \cup {PairFd} |-> [evread |-> Nil, evwrite |-> Nil]],
     ctl        |-> TRUE,                          \* external: epoll_ctl will succeed
     unwatched  |-> {},                            \* ghost: inserted, but epoll_ctl failed
     evsigmask  |-> {}, needrecalc |-> FALSE,
     ncalls     |-> 0]                             \* event_process_active's local

On(b, e, queue) == queue \in b.ev_flags[e]
Timers(b) == {e \in Ev : On(b, e, "timeout")}

----------------------------------------------------------------------------
(* The queues *)

\* TAILQ_REMOVE
Unlinked(queue, e) ==
    LET n == CHOOSE n \in DOMAIN queue : queue[n] = e
    IN SubSeq(queue, 1, n - 1) \o SubSeq(queue, n + 1, Len(queue))

\* What an event counts for: those of libevent itself for nothing.
Weight(e) == IF e = ev_signal THEN 0 ELSE 1

event_queue_remove(b, e, queue) ==
    LET c == [b EXCEPT !.ev_flags[e] = @ \ {queue}, !.event_count = @ - Weight(e)]
    IN CASE queue = "active" ->
                [c EXCEPT !.event_count_active = @ - Weight(e),
                          !.activequeues[b.ev_pri[e]] = Unlinked(@, e),
                          !.ev_res[e] = {}]      \* not read any more
         [] queue = "signal"  -> [c EXCEPT !.signalqueue = Unlinked(@, e)]
         [] queue = "timeout" -> [c EXCEPT !.left[e] = 0]
         [] OTHER -> c

\* An event that is active already stays where it is.  For the other queues
\* that is an error which ends the program; the callers see to it.
event_queue_insert(b, e, queue) ==
    LET c == [b EXCEPT !.ev_flags[e] = @ \cup {queue}, !.event_count = @ + Weight(e)]
    IN IF queue = "active" /\ On(b, e, "active") THEN b
       ELSE CASE queue = "active" ->
                     [c EXCEPT !.event_count_active = @ + Weight(e),
                               !.activequeues[b.ev_pri[e]] = Append(@, e)]
              [] queue = "signal" -> [c EXCEPT !.signalqueue = Append(@, e)]
              [] OTHER -> c

RemoveIfOn(b, e, queue) ==
    IF On(b, e, queue) THEN event_queue_remove(b, e, queue) ELSE b

(* epoll.c and signal.c: an event is added to, or deleted from, the kernel *)

Slots(e) == {IF d = "read" THEN "evread" ELSE "evwrite" : d \in EventsOf(e) \cap {"read", "write"}}

\* epoll_add: the slots are set only when epoll_ctl succeeds.
epoll_add(b, e) ==
    IF IsSignal(e) THEN [b EXCEPT !.evsigmask = @ \cup {FdOf(e)}]
    ELSE IF b.ctl
    THEN [b EXCEPT !.evep[FdOf(e)] =
             [s \in {"evread", "evwrite"} |-> IF s \in Slots(e) THEN e ELSE @[s]]]
    ELSE [b EXCEPT !.unwatched = @ \cup {e}]

\* mutant: EPOLL_CTL_DEL whatever else the descriptor is registered for.
epoll_del_both(b, e) ==
    IF IsSignal(e)
    THEN [b EXCEPT !.evsigmask = @ \ {FdOf(e)}, !.needrecalc = TRUE]
    ELSE [b EXCEPT !.unwatched = @ \ {e},
                   !.evep[FdOf(e)] = [s \in {"evread", "evwrite"} |-> Nil]]

\* epoll_del: an event of the other direction stays registered.  A signal
\* goes from the mask, but its handler stays: sigaction gets no action.
epoll_del(b, e) ==
    IF IsSignal(e)
    THEN [b EXCEPT !.evsigmask = @ \ {FdOf(e)}, !.needrecalc = TRUE]
    ELSE [b EXCEPT !.unwatched = @ \ {e}, !.evep[FdOf(e)] =
             [s \in {"evread", "evwrite"} |-> IF s \in Slots(e) THEN Nil ELSE @[s]]]

----------------------------------------------------------------------------
(* The calls *)

\* mutant: the calls of the event go on.
AbortLoop_not(b, e) == b

\* "Abort loop": ncalls of event_process_active is reset through the pointer
\* the event holds, while that function runs.
AbortLoop(b, e) ==
    IF b.ev_ncalls[e] # 0 /\ b.ev_pncalls[e] = "frame"
    THEN [b EXCEPT !.ncalls = 0] ELSE b

\* The time of an event is forgotten, and an activation that came of it.
Untimed(b, e) ==
    LET c == RemoveIfOn(b, e, "timeout")
    IN IF On(c, e, "active") /\ "timeout" \in c.ev_res[e]
       THEN event_queue_remove(AbortLoop(c, e), e, "active") ELSE c

Timed(b, e, tv) ==
    IF tv = NoTv THEN b
    ELSE event_queue_insert([Untimed(b, e) EXCEPT !.left[e] = tv], e, "timeout")

event_add(b, e, tv) ==
    LET timed == Timed(b, e, tv)
    IN IF IsIo(e) /\ ~On(timed, e, "inserted") /\ ~On(timed, e, "active")
       THEN epoll_add(event_queue_insert(timed, e, "inserted"), e)
       ELSE IF IsSignal(e) /\ ~On(timed, e, "signal")
       THEN epoll_add(event_queue_insert(timed, e, "signal"), e)
       ELSE timed

event_del(b, e) ==
    LET idle == RemoveIfOn(RemoveIfOn(AbortLoop(b, e), e, "timeout"), e, "active")
    IN CASE On(idle, e, "inserted") -> epoll_del(event_queue_remove(idle, e, "inserted"), e)
         [] On(idle, e, "signal")   -> epoll_del(event_queue_remove(idle, e, "signal"), e)
         [] OTHER -> idle

event_active(b, e, res, ncalls) ==
    IF On(b, e, "active") THEN [b EXCEPT !.ev_res[e] = @ \cup {res}]
    ELSE event_queue_insert([b EXCEPT !.ev_res[e] = {res}, !.ev_ncalls[e] = ncalls,
                                      !.ev_pncalls[e] = "null"], e, "active")

\* A deletion, then an activation: what becomes of an event that occurred.
DelUnlessPersist(b, e) == IF Persists(e) THEN b ELSE event_del(b, e)

----------------------------------------------------------------------------
(* What a pass of the loop finds *)

\* epoll_dispatch, one descriptor of what epoll_wait returned: both its
\* events are deleted before either is made active.
epoll_event(b, fd, what) ==
    LET Found(s, d) == IF d \in what THEN b.evep[fd][s] ELSE Nil
        evread  == Found("evread", "read")
        evwrite == Found("evwrite", "write")
        Act(c, e, res) == IF e = Nil THEN c ELSE event_active(c, e, res, 1)
        Del(c, e) == IF e = Nil THEN c ELSE DelUnlessPersist(c, e)
        gone    == IF evwrite = evread THEN Del(b, evread)
                   ELSE Del(Del(b, evread), evwrite)
    IN Act(Act(gone, evread, "read"), evwrite, "write")

\* A base to which a step is done for every element of a sequence, in its order.
ForEach(b, seq, Step(_, _)) ==
    LET after[n \in 0 .. Len(seq)] ==
            IF n = 0 THEN b ELSE Step(after[n - 1], seq[n])
    IN after[Len(seq)]

\* evsignal_process: caught is evsigcaught.
evsignal_process(b, caught) ==
    ForEach(b, b.signalqueue, LAMBDA c, e :
        IF caught[FdOf(e)] = 0 THEN c
        ELSE event_active(DelUnlessPersist(c, e), e, "signal", caught[FdOf(e)]))

\* mutant: activated first, the event is taken off the active queue again.
timeout_process_swapped(b, expired) ==
    ForEach(b, expired, LAMBDA c, e :
        event_del(event_active(event_queue_remove(c, e, "timeout"), e, "timeout", 1), e))

\* timeout_process, expired the events whose time has come, in their order.
timeout_process(b, expired) ==
    ForEach(b, expired, LAMBDA c, e :
        event_active(event_del(event_queue_remove(c, e, "timeout"), e), e, "timeout", 1))
============================================================================
