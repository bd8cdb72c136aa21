------------------------------- MODULE Cache -------------------------------
(***************************************************************************)
(* The commands of memcached.c, run by the worker threads on the items of  *)
(* items.c.  thread.c wraps every call in cache_lock, so a command is      *)
(* several steps, with the steps of other connections, of the clock and of *)
(* the delete timer between them; an item is carried from step to step by  *)
(* a reference.  conn[s] is the command connection s is in the middle of.  *)
(* Each connection may have a thread of its own: every interleaving is     *)
(* possible.                                                               *)
(***************************************************************************)
EXTENDS Items, SequencesExt

CONSTANTS
    Conns,
    Commands,        \* the commands clients send
    Values,          \* the numbers clients store
    Exptimes,        \* the times clients give to storage commands,
    Delays,          \* to delete and
    FlushDelays,     \* to flush_all
    Base,            \* of the digits of a number, 10
    Wrap,            \* 2^64: what the arithmetic commands count modulo
    DeleteRoom,      \* first room of the todelete array, 200
    MaxCas,          \* bound: no change is asked for after this many
    StartTime, MaxTime      \* bounds of the clock

ASSUME CacheAssumption ==
    /\ IsFiniteSet(Conns)
    /\ Values \subseteq Nat
    /\ Base \in Nat \ {0, 1} /\ Wrap \in Nat \ {0}
    /\ DeleteRoom \in Nat \ {0}
    /\ MaxCas \in Nat
    /\ StartTime \in Nat \ {0, 1} /\ MaxTime \in Nat

VARIABLES
    cache,
    conn,
    todelete,        \* items waiting for run_deferred_deletes
    deltotal,        \* the room of that array
    gone             \* ghost: items a finished flush_all made invisible

clock == <<current_time, oldest_live>>
defer == <<todelete, deltotal>>
vars  == <<cache, conn, defer, gone, clock>>

----------------------------------------------------------------------------
Idle == [at |-> "idle", cmd |-> "none", key |-> Null, it |-> Null, arg |-> 0]

At(s, place) == cache.halted = "no" /\ conn[s].at = place
Asks(s, cmd) == At(s, "idle") /\ cmd \in Commands

Goto(s, at, cmd, k, i) ==
    conn' = [conn EXCEPT ![s] = [at |-> at, cmd |-> cmd, key |-> k, it |-> i,
                                 arg |-> 0]]
Step(s, at) == conn' = [conn EXCEPT ![s].at = at]
Done(s)     == conn' = [conn EXCEPT ![s] = Idle]

\* An item that was unlinked is no longer a flushed one; a chunk that was
\* evicted and linked again in one step is another item.
Cached(c) ==
    /\ cache' = c
    /\ gone' = {i \in gone \cap c.linked : \/ c.time[i] = cache.time[i]
                                           \/ c.cas_id[i] = cache.cas_id[i]}

realtime(t) == IF t = 0 THEN 0 ELSE current_time + t

Blank == Base    \* what is not a digit

\* sprintf of a number, and strtoull: the number before the first blank.
digits(v) ==
    LET text[n \in 0 .. v] == IF n < Base THEN <<n>>
                              ELSE Append(text[n \div Base], n % Base)
    IN text[v]

number(text) ==
    LET blanks == {n \in DOMAIN text : text[n] = Blank}
        end == IF blanks = {} THEN Len(text)
               ELSE (CHOOSE n \in blanks : \A m \in blanks : n <= m) - 1
        value[n \in 0 .. end] == IF n = 0 THEN 0
                                 ELSE value[n - 1] * Base + text[n]
    IN value[end]

Init ==
    /\ cache = InitCache
    /\ conn = [s \in Conns |-> Idle]
    /\ todelete = <<>> /\ deltotal = DeleteRoom
    /\ gone = {}
    /\ current_time = StartTime /\ oldest_live = 0

----------------------------------------------------------------------------
\* The steps several commands end with: item_unlink, and item_remove of the
\* reference the connection holds.
item_unlink(s) ==
    /\ At(s, "unlink")
    /\ Cached(do_item_unlink(cache, conn[s].it))
    /\ Step(s, "remove")
    /\ UNCHANGED <<defer, clock>>

\* After an answer was sent, or when the connection is closed (conn_cleanup); a
\* get that finds no memory for its answer does it without item_update.
item_remove(s) ==
    /\ At(s, "remove") \/ At(s, "update")
    /\ Cached(do_item_remove(cache, conn[s].it))
    /\ Done(s)
    /\ UNCHANGED <<defer, clock>>

\* A lookup that leads the command to `next`, or ends it if there is nothing.
Lookup(s, cmd, k, next) ==
    LET g == do_item_get_notedeleted(cache, k)
    IN /\ Cached(g.c)
       /\ \/ g.it = Null /\ Done(s)
          \/ g.it # Null /\ Goto(s, next, cmd, k, g.it)

\* process_get_command: the lookup, the move to the head of the LRU, and the
\* item held until the answer is written.
process_get_command(s, k) ==
    /\ Asks(s, "get")
    /\ Lookup(s, "get", k, "update")
    /\ UNCHANGED <<defer, clock>>

item_update(s) ==
    /\ At(s, "update")
    /\ Cached(do_item_update(cache, conn[s].it))
    /\ Step(s, "remove")
    /\ UNCHANGED <<defer, clock>>

----------------------------------------------------------------------------
Storage == {"set", "add", "replace", "append", "prepend", "cas"}

\* process_update_command: an item for the data that is to come.  A "set" that
\* gets none takes the old item out (three more steps).
process_update_command(s, cmd, k, v, exptime, unique) ==
    /\ Asks(s, cmd) /\ cmd \in Storage
    /\ cache.last_cas < MaxCas
    /\ cmd # "cas" => unique = 0
    /\ \E a \in do_item_alloc(cache, k, realtime(exptime), Len(digits(v))) :
        \/ /\ a.it # Null
           /\ Cached([a.c EXCEPT !.data[a.it] = digits(v), !.cas_id[a.it] = unique])
           /\ Goto(s, "nread", cmd, k, a.it)
        \/ /\ a.it = Null
           /\ Cached(a.c)
           /\ \/ cmd = "set" /\ Goto(s, "alloc failed", cmd, k, Null)
              \/ cmd # "set" /\ Done(s)
    /\ UNCHANGED <<defer, clock>>

alloc_failed(s) ==
    /\ At(s, "alloc failed")
    /\ Lookup(s, conn[s].cmd, conn[s].key, "unlink")
    /\ UNCHANGED <<defer, clock>>

\* mutant: the reference do_store_item took is not released.
Drop_not(c, i) == c

Drop(c, i) == IF i = Null THEN c ELSE do_item_remove(c, i)

\* The combined item of append and prepend.
joined(c, cmd, new, old) == IF cmd = "append" THEN c.data[old] \o c.data[new]
                                              ELSE c.data[new] \o c.data[old]

\* mutant: add does not look at the delete lock.
refused_unlocked(g, locked, cmd) ==
    g.it = Null /\ cmd \in {"replace", "append", "prepend"}

\* replace, append and prepend need a visible item, and add cannot override a
\* delete lock.
refused(g, locked, cmd) ==
    \/ g.it = Null /\ cmd \in {"replace", "append", "prepend"}
    \/ locked /\ cmd = "add"

\* do_store_item: the caches it may leave.
do_store_item(c, i, cmd) ==
    LET k      == c.key[i]
        locked == delete_locked(c, k)
        g      == do_item_get_notedeleted(c, k)
        old    == IF locked THEN do_item_get_nocheck(g.c, k) ELSE g
    IN CASE g.it # Null /\ cmd = "add" ->
              {do_item_remove(do_item_update(g.c, g.it), g.it)}
         [] refused(g, locked, cmd) -> {g.c}
         [] cmd = "cas" ->
              {Drop(IF old.it # Null /\ c.cas_id[i] = old.c.cas_id[old.it]
                    THEN do_item_replace(old.c, old.it, i) ELSE old.c, old.it)}
         [] cmd \in {"append", "prepend"} /\ g.it # Null ->
              {IF a.it = Null THEN do_item_remove(a.c, g.it)
               ELSE LET d == [a.c EXCEPT !.data[a.it] =
                                             joined(a.c, cmd, i, g.it)]
                        e == do_item_replace(d, g.it, a.it)
                    IN do_item_remove(do_item_remove(e, g.it), a.it) :
                 a \in do_item_alloc(g.c, k, c.exptime[g.it],
                                     Len(joined(c, cmd, i, g.it)))}
         [] OTHER ->
              {Drop(IF old.it # Null THEN do_item_replace(old.c, old.it, i)
                                     ELSE do_item_link(old.c, i), old.it)}

\* complete_nread: the data is there; it is stored unless it is malformed.
complete_nread(s) ==
    /\ At(s, "nread")
    /\ \/ \E c \in do_store_item(cache, conn[s].it, conn[s].cmd) : Cached(c)
       \/ UNCHANGED <<cache, gone>>
    /\ Step(s, "remove")
    /\ UNCHANGED <<defer, clock>>

----------------------------------------------------------------------------
Arithmetic == {"incr", "decr"}

process_arithmetic_command(s, cmd, k) ==
    /\ Asks(s, cmd) /\ cmd \in Arithmetic
    /\ cache.last_cas < MaxCas
    /\ Lookup(s, cmd, k, "delta")
    /\ UNCHANGED <<defer, clock>>

result(v, cmd) == IF cmd = "incr" THEN (v + 1) % Wrap
                                  ELSE IF 1 >= v THEN 0 ELSE v - 1

\* mutant: the value changes in place under the cas id it had.
do_add_delta_same_cas(c, i, cmd) ==
    LET text == digits(result(number(c.data[i]), cmd))
    IN IF Len(text) <= Len(c.data[i]) THEN {[c EXCEPT !.data[i] = text]} ELSE {c}

\* do_add_delta by one: in place and padded with blanks, or in a new item if
\* the digits do not fit.
do_add_delta(c, i, cmd) ==
    LET v    == number(c.data[i])
        text == digits(result(v, cmd))
        pad  == [n \in 1 .. Len(c.data[i]) - Len(text) |-> Blank]
    IN IF v >= Wrap THEN {c}
       ELSE IF Len(text) <= Len(c.data[i])
       THEN {[c EXCEPT !.last_cas = @ + 1, !.cas_id[i] = c.last_cas + 1,
                       !.data[i] = text \o pad]}
       ELSE {IF a.it = Null THEN a.c
             ELSE do_item_remove(do_item_replace(
                      [a.c EXCEPT !.data[a.it] = text], i, a.it), a.it) :
               a \in do_item_alloc(c, c.key[i], c.exptime[i], Len(text))}

add_delta(s) ==
    /\ At(s, "delta")
    /\ \E c \in do_add_delta(cache, conn[s].it, conn[s].cmd) : Cached(c)
    /\ Step(s, "remove")
    /\ UNCHANGED <<defer, clock>>

----------------------------------------------------------------------------
\* process_delete_command without a time, and with one.
process_delete_command(s, k) ==
    /\ \/ Asks(s, "delete") /\ Lookup(s, "delete", k, "unlink")
       \/ Asks(s, "delete later") /\ Lookup(s, "delete later", k, "defer")
    /\ UNCHANGED <<defer, clock>>

queue_full == Len(todelete) >= deltotal

\* mutant: the item is queued but not marked ITEM_DELETED.
defer_delete_unmarked(s, delay) ==
    LET i == conn[s].it
    IN /\ At(s, "defer")
       /\ Cached([cache EXCEPT !.exptime[i] = realtime(delay)])
       /\ todelete' = Append(todelete, i)
       /\ deltotal' = IF queue_full THEN deltotal * 2 ELSE deltotal
       /\ Done(s)
       /\ UNCHANGED clock

\* do_defer_delete: the reference passes to the queue.  If the queue cannot
\* grow, item_remove is called with cache_lock held, which is a normal mutex.
defer_delete(s, delay) ==
    LET i == conn[s].it
    IN /\ At(s, "defer")
       /\ \/ /\ Cached([cache EXCEPT !.exptime[i] = realtime(delay),
                                     !.deleted = @ \cup {i}])
             /\ todelete' = Append(todelete, i)
             /\ deltotal' = IF queue_full THEN deltotal * 2 ELSE deltotal
             /\ Done(s)
          \/ /\ queue_full
             /\ Cached([cache EXCEPT !.halted = "cache_lock"])
             /\ UNCHANGED <<conn, defer>>
       /\ UNCHANGED clock

\* One entry of do_run_deferred_deletes; r is the cache and the entries kept.
run_entry(r, i) ==
    LET a == Expect(r.c, i \in r.c.deleted, "item_delete_lock_over")
        b == Expect(a, r.c.refcount[i] > 0, "run_deferred_deletes")
        d == [b EXCEPT !.deleted = @ \ {i}]
    IN IF item_delete_lock_over(r.c, i)
       THEN [c |-> do_item_remove(do_item_unlink(d, i), i), kept |-> r.kept]
       ELSE [c |-> a, kept |-> Append(r.kept, i)]

\* The delete timer: do_run_deferred_deletes over the whole queue.
do_run_deferred_deletes ==
    LET run[n \in 0 .. Len(todelete)] ==    \* its outcome after n entries
            IF n = 0 THEN {[c |-> cache, kept |-> <<>>]}
            ELSE {run_entry(r, todelete[n]) : r \in run[n - 1]}
    IN run[Len(todelete)]

delete_handler ==
    /\ cache.halted = "no" /\ todelete # <<>>
    /\ \E r \in do_run_deferred_deletes : Cached(r.c) /\ todelete' = r.kept
    /\ UNCHANGED <<conn, deltotal, clock>>

----------------------------------------------------------------------------
\* flush_all reads the clock anew and sets oldest_live, without a lock, and then
\* takes the newest items out.  With a delay the flush is to happen when the
\* clock reaches it.
flush_all(s, delay) ==
    /\ Asks(s, "flush_all")
    /\ current_time' \in current_time .. current_time + 1
    /\ current_time' <= MaxTime \/ current_time' = current_time
    /\ oldest_live' = current_time' + delay - 1
    /\ conn' = [conn EXCEPT ![s] = [Idle EXCEPT !.at = "flush",
                                        !.cmd = "flush_all", !.arg = delay]]
    /\ UNCHANGED <<cache, gone, defer>>

item_flush_expired(s) ==
    /\ At(s, "flush")
    /\ LET c == do_item_flush_expired(cache)
       IN /\ cache' = c
          /\ gone' = IF conn[s].arg = 0 THEN c.linked ELSE gone \cap c.linked
    /\ Done(s)
    /\ UNCHANGED <<defer, clock>>

\* Past its bound the clock goes on only until the delete locks are over.
clock_handler ==
    /\ cache.halted = "no"
    /\ \/ current_time < MaxTime
       \/ \E i \in ToSet(todelete) : ~item_delete_lock_over(cache, i)
    /\ current_time' = current_time + 1
    /\ UNCHANGED <<cache, conn, defer, gone, oldest_live>>

\* A failed assertion has stopped the server, or cache_lock is never released.
Halted == cache.halted # "no" /\ UNCHANGED vars

Next ==
    \/ \E s \in Conns :
        \/ item_unlink(s) \/ item_remove(s) \/ item_update(s)
        \/ alloc_failed(s) \/ complete_nread(s) \/ add_delta(s)
        \/ item_flush_expired(s)
        \/ \E k \in Keys :
            \/ process_get_command(s, k)
            \/ process_delete_command(s, k)
            \/ \E cmd \in Arithmetic : process_arithmetic_command(s, cmd, k)
            \/ \E cmd \in Storage, v \in Values, e \in Exptimes,
                  u \in 0 .. cache.last_cas :
                  process_update_command(s, cmd, k, v, e, u)
        \/ \E d \in Delays : defer_delete(s, d)
        \/ \E d \in FlushDelays : flush_all(s, d)
    \/ delete_handler
    \/ clock_handler
    \/ Halted

Spec == Init /\ [][Next]_vars

\* The main thread's event loop runs its two timers for as long as the server
\* does.  Nothing is assumed of the clients.
FairSpec == Spec /\ WF_vars(clock_handler) /\ WF_vars(delete_handler)

----------------------------------------------------------------------------
Place == {"idle", "update", "remove", "unlink", "nread", "alloc failed",
          "delta", "defer", "flush"}

\* Why the server may have stopped.
Stops == {"no", "item_free", "do_item_link", "assoc_insert", "assoc_delete",
          "do_item_remove", "do_item_remove deleted", "do_item_update",
          "do_item_replace", "item_delete_lock_over", "run_deferred_deletes",
          "cache_lock"}

\* The items, the connections and the delete queue keep their types.
TypeOK ==
    /\ cache.free \subseteq Items
    /\ cache.linked \subseteq Items /\ cache.deleted \subseteq Items
    /\ cache.refcount \in [Items -> Nat]
    /\ cache.key \in [Items -> Keys \cup {Null}]
    /\ cache.data \in [Items -> Seq(0 .. Base)]
    /\ cache.time \in [Items -> Nat] /\ cache.exptime \in [Items -> Int]
    /\ cache.cas_id \in [Items -> Nat] /\ cache.last_cas \in Nat
    /\ cache.table \in [Keys -> Items \cup {Null}]
    /\ cache.lru \in Seq(Items)
    /\ cache.halted \in Stops
    /\ conn \in [Conns -> [at : Place, key : Keys \cup {Null},
                           it : Items \cup {Null}, arg : Int,
                           cmd : Commands \cup {"none"}]]
    /\ todelete \in Seq(Items) /\ deltotal \in Nat
    /\ Len(todelete) <= deltotal
    /\ gone \subseteq cache.linked
    /\ current_time \in Nat /\ oldest_live \in Nat

Running == cache.halted = "no"

Copies(seq, i) == Cardinality({n \in DOMAIN seq : seq[n] = i})

\* ITEM_LINKED, the hash table and the LRU list agree: an item is on the list
\* and in the table, under its key, or in neither.
LinkedExactly ==
    Running => \A i \in Items :
        /\ (i \in cache.linked) = (Copies(cache.lru, i) = 1)
        /\ (i \notin cache.linked) = (Copies(cache.lru, i) = 0)
        /\ {k \in Keys : cache.table[k] = i} =
               IF i \in cache.linked THEN {cache.key[i]} ELSE {}

Holders(i) == {s \in Conns : conn[s].it = i}

\* Between any two lock sections the reference count of an item is the number
\* of connections and delete queue entries that will use it again, and the item
\* is in the allocator when there are none and it is not linked: it is freed
\* under nobody, and does not leak.
RefcountExact ==
    Running => \A i \in Items :
        /\ cache.refcount[i] = Cardinality(Holders(i)) + Copies(todelete, i)
        /\ (i \in cache.free) = (i \notin cache.linked /\ cache.refcount[i] = 0)

\* ITEM_DELETED marks the items the delete queue holds, which is never longer
\* than its room.  (The types come with it.)
DeletedAreQueued ==
    /\ TypeOK
    /\ Running => cache.deleted \ cache.free = ToSet(todelete)

\* A delete-locked key gets a new item only from set and cas: add, replace,
\* append and prepend cannot override the lock.
LockRespected(k, s) ==
    /\ conn[s].at = "nread" /\ conn[s].key = k
    /\ conn[s].cmd \in {"set", "cas"}
    /\ conn'[s].at = "remove"
LockOverridden(k) ==
    delete_locked(cache, k) /\ cache'.table[k] \notin {Null, cache.table[k]}
DeleteLocked ==
    [][\A k \in Keys : LockOverridden(k) => \E s \in Conns : LockRespected(k, s)]_vars

\* After flush_all no lookup returns an item that was there when it finished.
FlushedStayGone ==
    Running => \A k \in Keys :
        Visible(cache, k) => cache.table[k] \notin gone

\* "shouldn't have duplicately named things defined" (assoc.c:584): a key is
\* put in the table only when it is not there.
NoDuplicate == cache.halted # "assoc_insert"

\* What lookups return is a store that loses values, and gets them only by a
\* change of their key that carries a new cas id.
Store == INSTANCE LossyStore WITH
    None  <- Null,
    last  <- cache.last_cas,
    store <- [k \in Keys |->
        IF Visible(cache, k)
        THEN [data   |-> cache.data[cache.table[k]],
              cas_id |-> cache.cas_id[cache.table[k]]]
        ELSE Null]
StoreSpec == Store!Spec

InQueue(i) == Copies(todelete, i) > 0

\* A deferred delete is carried out, unless the server stops.
DeletesEnd ==
    \A i \in Items :
        InQueue(i) ~> (~InQueue(i) \/ ~Running)
============================================================================
