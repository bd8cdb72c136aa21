----------------------------- MODULE EventLoop -----------------------------
(***************************************************************************)
(* event_base_loop of libevent on epoll: a pass computes how long to wait, *)
(* waits in epoll_wait, makes active what occurred and calls back what is  *)
(* active, one call after another.  Callbacks, and the program between two *)
(* runs of the loop, add, delete and activate events.  Signals come at any *)
(* instruction; a step ends where a handler, the kernel or a callback can  *)
(* make a difference.                                                      *)
(***************************************************************************)
EXTENDS EventBase

CONSTANTS
    Added,         \* the events the program has added before the first loop
    MaxCalls,      \* bound: further calls of the program
    MaxSignals,    \* bound: signals sent
    LoopFlags,     \* the arguments of event_base_loop: {}, {"once"} or {"nonblock"}
    SelfActive,    \* may a callback activate its own event
    CtlFails       \* may epoll_ctl fail to add

ASSUME LoopAssumption ==
    Added \in Seq(User) /\ MaxCalls \in Nat /\ MaxSignals \in Nat
        /\ LoopFlags \subseteq {{}, {"once"}, {"nonblock"}}
        /\ SelfActive \in BOOLEAN /\ CtlFails \in BOOLEAN

VARIABLES
    base,
    at,            \* place in event_base_loop, or "out" of it
    flags,         \* its argument
    wait,          \* the timeout of epoll_wait: "none", or "nearest" for timeout_next
    activeq,       \* event_process_active: the queue it empties
    cur,           \* the event whose callbacks it makes, Nil between two
    event_gotterm,
    evsigcaught, evsignal_caught, handlers, ev_signal_added,
    ready,         \* external: readable and writable sides of the descriptors
    pair,          \* external: bytes to read in the socket pair
    blocked, sigpending, \* external: the signals blocked, and those held back
    eintr,         \* external: a handler interrupted epoll_wait
    calls, sent,   \* bounds: how many calls and signals there were
    deleted        \* ghost: deleted by the program, and not added since

prog   == <<base, calls, deleted>>
signal == <<evsigcaught, evsignal_caught, handlers, ev_signal_added, pair,
            blocked, sigpending, eintr, sent>>
place  == <<at, flags, wait, activeq, cur, event_gotterm>>
vars   == <<prog, signal, place, ready>>

\* The base with what the program has added before the loop.
Prepared == ForEach(Empty, Added, LAMBDA b, e : event_add(b, e, NoTv))

Init ==
    /\ base = Prepared
    /\ at = "out" /\ flags = {} /\ wait = "none" /\ activeq = 0 /\ cur = Nil
    /\ event_gotterm = FALSE
    /\ evsigcaught = [s \in Signals |-> 0] /\ evsignal_caught = FALSE
    /\ handlers = {} /\ ev_signal_added = FALSE
    /\ ready = {} /\ pair = FALSE
    /\ blocked = {} /\ sigpending = {} /\ eintr = FALSE
    /\ calls = 0 /\ sent = 0 /\ deleted = {}

To(p) == at' = p /\ UNCHANGED <<flags, wait, activeq, cur, event_gotterm>>

----------------------------------------------------------------------------
(* The program: between two loops, or in a callback of its own *)

Running == at = "callback" /\ cur # ev_signal

ProgramCall(b) ==
    /\ at = "out" \/ Running
    /\ calls < MaxCalls /\ calls' = calls + 1
    /\ base' = [b EXCEPT !.ctl = TRUE]
    /\ UNCHANGED <<signal, place, ready>>

program_add(e, tv, ok) ==
    /\ ok \/ CtlFails
    /\ tv = NoTv => IsIo(e) \/ IsSignal(e)      \* a timer always has a time
    /\ ProgramCall(event_add([base EXCEPT !.ctl = ok], e, tv))
    /\ deleted' = deleted \ {e}

\* A pointer into a frame of event_process_active that has returned: what the
\* write does is undefined; it may hit the local of the frame that runs now.
Hits(e) ==
    IF base.ev_ncalls[e] # 0 /\ base.ev_pncalls[e] = "stale"
    THEN {base, [base EXCEPT !.ncalls = 0]} ELSE {base}

program_del(e) ==
    /\ \E b \in Hits(e) : ProgramCall(event_del(b, e))
    /\ deleted' = deleted \cup {e}

program_active(e, res, ncalls) ==
    /\ SelfActive \/ e # cur
    /\ ProgramCall(event_active(base, e, res, ncalls))
    /\ deleted' = deleted \ {e}

\* mutant: the priority of an event that is queued by its old one is changed.
event_priority_set_queued(e, pri) ==
    /\ base.ev_pri[e] # pri
    /\ ProgramCall([base EXCEPT !.ev_pri[e] = pri])
    /\ UNCHANGED deleted

event_priority_set(e, pri) ==
    /\ ~On(base, e, "active")
    /\ base.ev_pri[e] # pri
    /\ ProgramCall([base EXCEPT !.ev_pri[e] = pri])
    /\ UNCHANGED deleted

\* The callback of event_loopexit's own timer.
event_loopexit_cb ==
    /\ Running
    /\ event_gotterm' = TRUE
    /\ UNCHANGED <<prog, signal, at, flags, wait, activeq, cur, ready>>

----------------------------------------------------------------------------
(* Outside: the clock, the descriptors and the signals *)

\* A tick of the clock.
Tick ==
    /\ \E e \in Timers(base) : base.left[e] > 0
    /\ base' = [base EXCEPT !.left = [e \in Ev |-> IF @[e] > 0 THEN @[e] - 1 ELSE 0]]
    /\ UNCHANGED <<calls, deleted, signal, place, ready>>

ReadyChange(fd, d) ==
    /\ ready' = SymDiff(ready, {<<fd, d>>})
    /\ UNCHANGED <<prog, signal, place>>

\* evsignal_handler
Handle(sigs) ==
    IF sigs = {} THEN UNCHANGED <<evsigcaught, evsignal_caught, pair>>
    ELSE /\ evsigcaught' = [s \in Signals |-> evsigcaught[s] + IF s \in sigs THEN 1 ELSE 0]
         /\ evsignal_caught' = TRUE
         /\ pair' = TRUE

\* A signal is sent: none before its handler is there, where it would be fatal.
\* One that is blocked is held, once; one that finds epoll_wait asleep ends it.
Signal(s) ==
    /\ sent < MaxSignals /\ sent' = sent + 1
    /\ s \in handlers
    /\ IF s \in blocked
       THEN sigpending' = sigpending \cup {s} /\ Handle({}) /\ UNCHANGED eintr
       ELSE /\ Handle({s})
            /\ eintr' = (at = "wait")
            /\ UNCHANGED sigpending
    /\ UNCHANGED <<prog, place, ready, handlers, ev_signal_added, blocked>>

----------------------------------------------------------------------------
(* event_base_loop *)

event_base_loop(f) ==
    /\ at = "out"
    /\ at' = "top" /\ flags' = f
    /\ UNCHANGED <<prog, signal, wait, activeq, cur, event_gotterm, ready>>

\* evsignal_recalc: ev_signal is added the first time; while some signal event
\* is there, or after one went, the mask is blocked and the handlers put in.
evsignal_recalc ==
    LET b    == IF ev_signal_added THEN base ELSE event_add(base, ev_signal, NoTv)
        idle == b.signalqueue = <<>> /\ ~b.needrecalc
    IN [base     |-> [b EXCEPT !.needrecalc = FALSE],
        blocked  |-> IF idle THEN blocked ELSE blocked \cup b.evsigmask,
        handlers |-> IF idle THEN handlers
                     ELSE handlers \cup {FdOf(e) : e \in ToSet(b.signalqueue)}]

Recalculated ==
    /\ blocked' = evsignal_recalc.blocked
    /\ handlers' = evsignal_recalc.handlers
    /\ ev_signal_added' = TRUE

\* From the top of a pass to evsel->dispatch: return when asked to, or when no
\* event is left.
Recalc ==
    /\ at = "top"
    /\ Recalculated
    /\ base' = evsignal_recalc.base
    /\ event_gotterm' = FALSE
    /\ at' = IF event_gotterm \/ base.event_count = 0 THEN "out" ELSE "deliver"
    /\ wait' = IF base.event_count_active = 0 /\ "nonblock" \notin flags
               THEN "nearest" ELSE "none"
    /\ UNCHANGED <<calls, deleted, flags, activeq, cur, ready, evsigcaught,
                   evsignal_caught, pair, sigpending, eintr, sent>>

\* What was held back is handled here, before epoll_wait.
evsignal_deliver ==
    /\ at = "deliver" /\ To("enter")
    /\ LET open == IF base.signalqueue = <<>> THEN {} ELSE base.evsigmask
       IN /\ blocked' = blocked \ open
          /\ sigpending' = sigpending \ open
          /\ Handle(sigpending \cap open)
    /\ UNCHANGED <<prog, ready, handlers, ev_signal_added, eintr, sent>>

\* external: what epoll_wait has to tell, of the slots that are taken.  A
\* hang-up or an error makes both sides ready.
What(fd) ==
    {d \in {"read", "write"} :
        /\ <<fd, d>> \in ready \/ (fd = PairFd /\ d = "read" /\ pair)
        /\ base.evep[fd][IF d = "read" THEN "evread" ELSE "evwrite"] # Nil}
Reported == {fd \in Fds \cup {PairFd} : What(fd) # {}}

\* The loop of epoll_dispatch over what epoll_wait returned.
epoll_events(b, fds) == ForEach(b, fds, LAMBDA c, fd : epoll_event(c, fd, What(fd)))

\* Has the first of the times come.
Expired == \E e \in Timers(base) : base.left[e] = 0

\* epoll_wait finds nothing and sleeps.
Sleep ==
    /\ at = "enter" /\ Reported = {} /\ wait = "nearest" /\ ~Expired
    /\ To("wait")
    /\ UNCHANGED <<prog, signal, ready>>

\* epoll_wait returns: with the descriptors that are ready, interrupted, or at
\* the end of the time, which is the first timer's, or else TIMEOUT_DEFAULT.
Returns ==
    \/ at = "enter" /\ (Reported # {} \/ wait = "none" \/ Expired)
    \/ at = "wait"  /\ (Reported # {} \/ eintr \/ Expired \/ Timers(base) = {})

\* Where event_base_loop is when the active events are b's.
Process(b) ==
    LET filled == {p \in Pri : b.activequeues[p] # <<>>}
    IN IF b.event_count_active # 0
       THEN /\ at' = "drain"
            /\ activeq' = CHOOSE p \in filled : \A q \in filled : p <= q
       ELSE /\ at' = IF "nonblock" \in flags THEN "out" ELSE "top"
            /\ UNCHANGED activeq

\* epoll_dispatch from the return of epoll_wait on, then timeout_process.  An
\* interrupted one looks at the signals only.  expired is in the order of the
\* times, which left does not keep once they have come: any order.
epoll_dispatch(fds, expired) ==
    /\ Returns
    /\ ToSet(fds) = IF eintr THEN {} ELSE Reported
    /\ Recalculated
    /\ LET caught  == eintr \/ evsignal_caught
           signals == IF caught THEN evsignal_process(evsignal_recalc.base, evsigcaught)
                      ELSE evsignal_recalc.base
           io      == epoll_events(signals, fds)
           last    == timeout_process(io, expired)
       IN /\ ToSet(expired) = {e \in Timers(io) : io.left[e] = 0}
          /\ base' = last
          /\ Process(last)
          /\ evsigcaught' = IF caught THEN [s \in Signals |-> 0] ELSE evsigcaught
          /\ evsignal_caught' = (evsignal_caught /\ ~caught)
    /\ eintr' = FALSE
    /\ UNCHANGED <<calls, deleted, flags, wait, cur, event_gotterm, pair,
                   sigpending, sent, ready>>

\* One turn of "while (ncalls)", n calls left to do, or the end of that loop.
Turn(b, e, n) ==
    IF n = 0
    THEN base' = [b EXCEPT !.ncalls = 0] /\ at' = "drain" /\ cur' = Nil
    ELSE /\ base' = [b EXCEPT !.ncalls = n - 1, !.ev_ncalls[e] = n - 1]
         /\ at' = "callback" /\ cur' = e

\* event_process_active takes the next event of its queue, or returns: from
\* then on the events still point to where ncalls was.
NextEvent ==
    /\ at = "drain" /\ base.activequeues[activeq] # <<>>
    /\ LET e == Head(base.activequeues[activeq])
       IN Turn([event_queue_remove(base, e, "active") EXCEPT !.ev_pncalls[e] = "frame"],
               e, base.ev_ncalls[e])
    /\ UNCHANGED <<calls, deleted, signal, flags, wait, activeq, event_gotterm, ready>>

Drained ==
    /\ at = "drain" /\ base.activequeues[activeq] = <<>>
    /\ base' = [base EXCEPT !.ev_pncalls =
                    [e \in Ev |-> IF @[e] = "frame" THEN "stale" ELSE @[e]]]
    /\ at' = IF base.event_count_active = 0 /\ "once" \in flags THEN "out" ELSE "top"
    /\ UNCHANGED <<calls, deleted, signal, flags, wait, activeq, cur, event_gotterm, ready>>

\* A callback of the program returns.
Return ==
    /\ Running
    /\ Turn(base, cur, base.ncalls)
    /\ UNCHANGED <<calls, deleted, signal, flags, wait, activeq, event_gotterm, ready>>

\* ev_signal's callback, and its return.
evsignal_cb ==
    /\ at = "callback" /\ cur = ev_signal
    /\ pair' = FALSE
    /\ Turn(event_add(base, ev_signal, NoTv), cur, base.ncalls)
    /\ UNCHANGED <<calls, deleted, evsigcaught, evsignal_caught, handlers, ev_signal_added,
                   blocked, sigpending, eintr, sent, flags, wait, activeq,
                   event_gotterm, ready>>

----------------------------------------------------------------------------
Program ==
    \/ \E e \in User, tv \in 0 .. NoTv, ok \in BOOLEAN : program_add(e, tv, ok)
    \/ \E e \in User : program_del(e)
    \/ \E e \in User, res \in {"read", "timeout"}, n \in 1 .. 2 : program_active(e, res, n)
    \/ \E e \in User, pri \in Pri : event_priority_set(e, pri)
    \/ event_loopexit_cb
    \/ \E f \in LoopFlags : event_base_loop(f)

Outside ==
    \/ Tick
    \/ \E fd \in Fds, d \in {"read", "write"} : ReadyChange(fd, d)
    \/ \E s \in Signals : Signal(s)

Dispatch ==
    \E fds \in SetToSeqs(IF eintr THEN {} ELSE Reported), expired \in SetToAllKPermutations(Timers(base)) :
        epoll_dispatch(fds, expired)

Loop ==
    \/ Recalc \/ evsignal_deliver \/ Sleep \/ Dispatch
    \/ NextEvent \/ Drained \/ Return \/ evsignal_cb

Next == Program \/ Outside \/ Loop

Spec == Init /\ [][Next]_vars

\* When a step of the loop is enabled.
CanGoOn == at # "out" /\ (at = "wait" => Returns)

\* The loop goes on and the callbacks return, WF_vars(Loop) with its ENABLED
\* written out; the clock ticks; nothing else has to happen.
FairSpec == Spec /\ ([]<>~CanGoOn \/ []<><<Loop>>_vars) /\ WF_vars(Tick)

----------------------------------------------------------------------------
(* Properties *)

TypeOK ==
    /\ \A e \in Ev : /\ base.ev_flags[e] \subseteq Queues
                     /\ base.ev_res[e] \subseteq Results
                     /\ base.left[e] \in 0 .. MaxTv
    /\ at \in {"out", "top", "deliver", "enter", "wait", "drain", "callback"}
    /\ cur \in Ev \cup {Nil} /\ (at = "callback" <=> cur # Nil)
    /\ eintr => at = "wait"
    /\ sigpending \subseteq blocked

\* The flags, the queues and the two counters tell the same: the loop returns,
\* waits and calls by the counters, and event_queue_remove ends the program
\* when they differ.  (The types come with it.)
QueuesExact ==
    LET OnSome(q) == {e \in Ev : On(base, e, q)}
        Counted(q) == Cardinality(OnSome(q) \ {ev_signal})
    IN /\ TypeOK
       /\ base.event_count = Counted("timeout") + Counted("inserted")
                               + Counted("signal") + Counted("active")
       /\ base.event_count_active = Counted("active")
       /\ ToSet(base.signalqueue) = OnSome("signal") /\ IsInjective(base.signalqueue)
       /\ \A p \in Pri :
             /\ IsInjective(base.activequeues[p])
             /\ ToSet(base.activequeues[p]) = {e \in OnSome("active") : base.ev_pri[e] = p}

\* The kernel reports to the events of the slots: they are those inserted, no
\* event that was deleted and perhaps freed; an event that is inserted and has
\* no slot is one whose epoll_ctl failed.
KernelExact ==
    /\ \A fd \in Fds \cup {PairFd}, s \in {"evread", "evwrite"} :
          LET e == base.evep[fd][s]
          IN e # Nil => On(base, e, "inserted") /\ FdOf(e) = fd /\ s \in Slots(e)
    /\ \A e \in Ev, s \in {"evread", "evwrite"} :
          On(base, e, "inserted") /\ s \in Slots(e)
              => base.evep[FdOf(e)][s] = e \/ e \in base.unwatched

\* "Allows deletes to work": after event_del, no call of the event before it
\* is added or activated again, not even the rest of several calls.
DeletesWork ==
    [][(NextEvent \/ Return) /\ at' = "callback" => cur' \notin deleted]_vars

\* An event of the first priority that has occurred, by its time or signal or
\* because its descriptor is ready and stays so, is called, and not forgotten in
\* one of the queues, unless the program takes it away.  (The program makes
\* finitely many calls: callbacks that activate each other for ever starve it.)
Occurred(e) ==
    \/ On(base, e, "timeout") \/ On(base, e, "active")
    \/ On(base, e, "signal") /\ (evsigcaught[FdOf(e)] > 0 \/ FdOf(e) \in sigpending)
Heard(e, d) ==
    /\ base.evep[FdOf(e)][IF d = "read" THEN "evread" ELSE "evwrite"] = e
    /\ <<FdOf(e), d>> \in ready
Settled(e) == cur = e \/ e \in deleted \/ base.ev_pri[e] # 0 \/ at = "out"
CalledBack ==
    \A e \in User :
        /\ Occurred(e) /\ base.ev_pri[e] = 0 ~> Settled(e)
        /\ \A d \in EventsOf(e) \cap {"read", "write"} :
              Heard(e, d) /\ base.ev_pri[e] = 0
                  ~> Settled(e) \/ <<FdOf(e), d>> \notin ready

\* "Wake up our notification mechanism": the loop does not sleep with a signal
\* that was caught and nobody told of.
SignalsWake == at = "wait" /\ evsignal_caught => eintr \/ Reported # {}

\* "See if we are just active executing this event in a loop": event_del cuts
\* short the calls of its own event only.
AbortsItsOwn ==
    [][\A e \in User : program_del(e) /\ base'.ncalls # base.ncalls => e = cur]_vars
============================================================================
