------------------------------ MODULE Dispatch ------------------------------
(***************************************************************************)
(* How a connection comes to a worker thread and goes: the dispatch        *)
(* thread accepts it, puts it on the queue of a worker (thread.c) and      *)
(* writes a byte to the worker's pipe; the worker's event loop reads the   *)
(* byte and takes the connection from the queue.  Without a descriptor     *)
(* left, the dispatch thread stops listening until a worker closes a       *)
(* connection.  Each action is a step no other thread can see the middle   *)
(* of: a lock section, or a system call.                                   *)
(***************************************************************************)
EXTENDS Naturals, Sequences

CONSTANTS
    Fds,           \* the descriptors left for connections
    NWorkers,      \* settings.num_threads - 1
    MaxClients,    \* bound: clients waiting in the listen queue
    ConnNewFails,  \* may conn_new fail, for want of memory
    NoFd

ASSUME DispatchAssumption ==
    /\ NWorkers \in Nat \ {0}
    /\ MaxClients \in Nat
    /\ ConnNewFails \in BOOLEAN
    /\ NoFd \notin Fds

Workers == 1 .. NWorkers    \* thread 0 is the dispatch thread

VARIABLES
    clients,       \* external: clients in the kernel's listen queue
    listening,     \* is the listening socket's event registered
    free,          \* descriptors not in use
    main,          \* the dispatch thread: its place and the accepted descriptor
    last_thread,
    queue,         \* new_conn_queue of each worker
    pipe,          \* bytes in each worker's notify pipe
    conns,         \* descriptors of each worker's connections
    closing       \* workers in conn_close, past close(sfd)

dispatchVars == <<clients, listening, free, main, last_thread, queue, pipe,
                  conns, closing>>

DispatchInit ==
    /\ clients = 0 /\ listening = TRUE
    /\ free = Fds
    /\ main = [at |-> "wait", fd |-> NoFd]
    /\ last_thread = 0
    /\ queue = [t \in Workers |-> <<>>]
    /\ pipe = [t \in Workers |-> 0]
    /\ conns = [t \in Workers |-> {}]
    /\ closing = {}

Main(from, to) == main.at = from /\ main' = [main EXCEPT !.at = to]

----------------------------------------------------------------------------
\* external: a client connects.
connect ==
    /\ clients < MaxClients
    /\ clients' = clients + 1
    /\ UNCHANGED <<listening, free, main, last_thread, queue, pipe, conns,
                   closing>>

\* The event loop of the dispatch thread finds a client at the socket.
wake ==
    /\ Main("wait", "accept")
    /\ listening /\ clients > 0
    /\ UNCHANGED <<clients, listening, free, last_thread, queue, pipe, conns,
                   closing>>

accept ==
    /\ main.at = "accept" /\ clients > 0
    /\ clients' = clients - 1
    /\ \E f \in free :
        /\ free' = free \ {f}
        /\ main' = [at |-> "push", fd |-> f]
    /\ UNCHANGED <<listening, last_thread, queue, pipe, conns, closing>>

\* The new socket cannot be set to O_NONBLOCK: it is closed, and accept called
\* again.
accept_closed ==
    /\ main.at = "accept" /\ clients > 0 /\ free # {}
    /\ clients' = clients - 1
    /\ UNCHANGED <<listening, free, main, last_thread, queue, pipe, conns,
                   closing>>

\* accept fails with EAGAIN, or with EMFILE, which the kernel finds first.
accept_nobody ==
    /\ Main("accept", "wait")
    /\ clients = 0 /\ free # {}
    /\ UNCHANGED <<clients, listening, free, last_thread, queue, pipe, conns,
                   closing>>

accept_emfile ==
    /\ Main("accept", "disable")
    /\ free = {}
    /\ UNCHANGED <<clients, listening, free, last_thread, queue, pipe, conns,
                   closing>>

\* accept_new_conns(false), under conn_lock.
disable ==
    /\ Main("disable", "wait")
    /\ listening' = FALSE
    /\ UNCHANGED <<clients, free, last_thread, queue, pipe, conns, closing>>

----------------------------------------------------------------------------
next_thread == (last_thread % NWorkers) + 1

\* mutant: the push forgets what is in the queue.
cq_push_lost(q, f) == <<f>>

cq_push(q, f) == Append(q, f)

\* dispatch_conn_new, up to cq_push.
dispatch_conn_new ==
    /\ Main("push", "notify")
    /\ last_thread' = next_thread
    /\ queue' = [queue EXCEPT ![next_thread] = cq_push(@, main.fd)]
    /\ UNCHANGED <<clients, listening, free, pipe, conns, closing>>

\* mutant: the byte goes to the worker after the one with the connection.
notify_thread_next == next_thread

notify_thread == last_thread

notify ==
    /\ main.at = "notify"
    /\ main' = [at |-> "accept", fd |-> NoFd]
    /\ pipe' = [pipe EXCEPT ![notify_thread] = @ + 1]
    /\ UNCHANGED <<clients, listening, free, last_thread, queue, conns, closing>>

----------------------------------------------------------------------------
\* The queue once cq_peek took its first entry.
cq_peek(q) == IF q = <<>> THEN q ELSE Tail(q)

\* thread_libevent_process: a byte is read, and a connection taken up, or
\* closed when conn_new fails.
thread_libevent_process(t) ==
    /\ pipe[t] > 0 /\ t \notin closing
    /\ pipe' = [pipe EXCEPT ![t] = @ - 1]
    /\ queue' = [queue EXCEPT ![t] = cq_peek(@)]
    /\ \/ queue[t] = <<>> /\ UNCHANGED <<conns, free>>
       \/ /\ queue[t] # <<>>
          /\ conns' = [conns EXCEPT ![t] = @ \cup {Head(queue[t])}]
          /\ UNCHANGED free
       \/ /\ queue[t] # <<>> /\ ConnNewFails
          /\ free' = free \cup {Head(queue[t])}
          /\ UNCHANGED conns
    /\ UNCHANGED <<clients, listening, main, last_thread, closing>>

\* conn_close: close(sfd), and then accept_new_conns(true) under conn_lock.
conn_close(t, f) ==
    /\ f \in conns[t] /\ t \notin closing
    /\ conns' = [conns EXCEPT ![t] = @ \ {f}]
    /\ free' = free \cup {f}
    /\ closing' = closing \cup {t}
    /\ UNCHANGED <<clients, listening, main, last_thread, queue, pipe>>

\* accept_new_conns(true), under conn_lock.
accept_again(t) ==
    /\ t \in closing
    /\ closing' = closing \ {t}
    /\ listening' = TRUE
    /\ UNCHANGED <<clients, free, main, last_thread, queue, pipe, conns>>

Dispatcher ==
    \/ wake \/ accept \/ accept_closed \/ accept_nobody \/ accept_emfile
    \/ disable \/ dispatch_conn_new \/ notify

Worker(t) == thread_libevent_process(t) \/ accept_again(t)

DispatchNext ==
    \/ connect \/ Dispatcher
    \/ \E t \in Workers : Worker(t) \/ \E f \in Fds : conn_close(t, f)

DispatchSpec == DispatchInit /\ [][DispatchNext]_dispatchVars

\* The threads run; clients connect and leave as they like.
DispatchFairSpec ==
    /\ DispatchSpec
    /\ WF_dispatchVars(Dispatcher)
    /\ \A t \in Workers : WF_dispatchVars(Worker(t))

----------------------------------------------------------------------------
Places == {"wait", "accept", "push", "notify", "disable"}

\* The queues, the pipes and the two kinds of thread keep their types.
DispatchTypeOK ==
    /\ clients \in 0 .. MaxClients /\ listening \in BOOLEAN
    /\ free \subseteq Fds
    /\ main \in [at : Places, fd : Fds \cup {NoFd}]
    /\ last_thread \in 0 .. NWorkers
    /\ queue \in [Workers -> Seq(Fds)]
    /\ pipe \in [Workers -> Nat]
    /\ conns \in [Workers -> SUBSET Fds]
    /\ closing \subseteq Workers

InHand(f) == main.at = "push" /\ main.fd = f

Queued(t, f) == \E n \in DOMAIN queue[t] : queue[t][n] = f

\* A descriptor is free, in the dispatch thread's hand, on one worker's queue
\* once, or one worker's connection: two threads never handle one connection,
\* and none is forgotten open.  (The types come with it.)
OnePlace ==
    DispatchTypeOK /\ \A f \in Fds :
        /\ f \in free \/ InHand(f) \/ \E t \in Workers : f \in conns[t] \/ Queued(t, f)
        /\ f \in free => ~InHand(f)
        /\ \A t \in Workers :
            /\ f \in conns[t] \/ Queued(t, f) => f \notin free /\ ~InHand(f)
            /\ ~(f \in conns[t] /\ Queued(t, f))
            /\ \A m, n \in DOMAIN queue[t] :
                   queue[t][m] = f /\ queue[t][n] = f => m = n
            /\ \A u \in Workers \ {t} :
                   f \in conns[t] \/ Queued(t, f) =>
                       ~(f \in conns[u] \/ Queued(u, f))

\* A worker's pipe holds a byte for every connection on its queue, but for the
\* one the dispatch thread is about to write: no connection waits unnoticed,
\* and no wakeup finds nothing.
Notified ==
    \A t \in Workers :
        Len(queue[t]) = pipe[t] +
            IF main.at = "notify" /\ t = last_thread THEN 1 ELSE 0

\* A queued connection is taken up by its worker.
TakenUp ==
    \A t \in Workers, f \in Fds : Queued(t, f) ~> ~Queued(t, f)

\* "never restart accepting connections" was fixed (ChangeLog:6), and the server
\* stops listening "until an existing one closes" (ChangeLog:334): while it does
\* not listen, there is a connection whose end will make it listen.
CanListenAgain == listening \/ free # Fds \/ closing # {}
============================================================================
