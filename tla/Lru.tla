-------------------------------- MODULE Lru --------------------------------
(***************************************************************************)
(* The LRU queue of a slab class in items.c: a list of items that are      *)
(* linked by their own prev and next fields, with a head and a tail.  An   *)
(* item that is not linked keeps the pointers it had.  Items takes the     *)
(* queue for a sequence; here it is the pointers.                          *)
(*                                                                         *)
(* The walks along the queue are made turn by turn, so that what a turn    *)
(* does to the pointers meets the next one; cache_lock is held meanwhile,  *)
(* so nothing else happens.  An item's time is the number of its last link *)
(* or move to the head: the clock may give the same second to several, but *)
(* never a smaller one to a later.                                         *)
(***************************************************************************)
EXTENDS Integers, FiniteSets

CONSTANTS
    Items,
    Null,
    Tries,           \* 50: how far up from the tail a search goes
    MaxTime          \* bound: no item is linked or moved after this many

ASSUME LruAssumption ==
    /\ IsFiniteSet(Items) /\ Null \notin Items
    /\ Tries \in Nat \ {0} /\ MaxTime \in Nat

VARIABLES
    heads, tails,    \* of the class
    sizes,
    next, prev,
    linked,          \* ITEM_LINKED
    held,            \* the items with a refcount
    time,
    now,
    walk             \* the loop that is under way: who makes it, its iter or
                     \* search, what is left of its tries, and its time limit

queue == <<heads, tails, sizes, next, prev>>
lruVars == <<queue, linked, held, time, now, walk>>

NoWalk == [by |-> "none", iter |-> Null, tries |-> 0, limit |-> 0]

\* item_init
LruInit ==
    /\ heads = Null /\ tails = Null /\ sizes = 0
    /\ next = [i \in Items |-> Null] /\ prev = [i \in Items |-> Null]
    /\ linked = {} /\ held = {}
    /\ time = [i \in Items |-> 0] /\ now = 0
    /\ walk = NoWalk

----------------------------------------------------------------------------
\* The queue as a record, which the operators on it take and return.
Queue == [heads |-> heads, tails |-> tails, sizes |-> sizes,
          next |-> next, prev |-> prev]

Becomes(q) ==
    /\ heads' = q.heads /\ tails' = q.tails /\ sizes' = q.sizes
    /\ next' = q.next /\ prev' = q.prev

\* mutant: an empty queue's tail is forgotten.
item_link_q_headed(q, i) ==
    [heads |-> i,
     tails |-> q.tails,
     sizes |-> q.sizes + 1,
     next  |-> [q.next EXCEPT ![i] = q.heads],
     prev  |-> [j \in Items |-> IF j = i THEN Null
                                ELSE IF j = q.heads THEN i ELSE q.prev[j]]]

item_link_q(q, i) ==
    [heads |-> i,
     tails |-> IF q.tails = Null THEN i ELSE q.tails,
     sizes |-> q.sizes + 1,
     next  |-> [q.next EXCEPT ![i] = q.heads],
     prev  |-> [j \in Items |-> IF j = i THEN Null
                                ELSE IF j = q.heads THEN i ELSE q.prev[j]]]

\* mutant: the item before the tail keeps it as its next.
item_unlink_q_dangling(q, i) ==
    [heads |-> IF q.heads = i THEN q.next[i] ELSE q.heads,
     tails |-> IF q.tails = i THEN q.prev[i] ELSE q.tails,
     sizes |-> q.sizes - 1,
     prev  |-> [j \in Items |-> IF j = q.next[i] THEN q.prev[i] ELSE q.prev[j]],
     next  |-> [j \in Items |-> IF j = q.prev[i] /\ q.next[i] # Null
                                THEN q.next[i] ELSE q.next[j]]]

item_unlink_q(q, i) ==
    [heads |-> IF q.heads = i THEN q.next[i] ELSE q.heads,
     tails |-> IF q.tails = i THEN q.prev[i] ELSE q.tails,
     sizes |-> q.sizes - 1,
     prev  |-> [j \in Items |-> IF j = q.next[i] THEN q.prev[i] ELSE q.prev[j]],
     next  |-> [j \in Items |-> IF j = q.prev[i] THEN q.next[i] ELSE q.next[j]]]

Idle == walk.by = "none"

\* The item is at the head, with a new time.
Newest(i) ==
    /\ now < MaxTime
    /\ now' = now + 1 /\ time' = [time EXCEPT ![i] = now + 1]

do_item_link(i) ==
    /\ Idle /\ i \notin linked
    /\ Becomes(item_link_q(Queue, i)) /\ linked' = linked \cup {i}
    /\ Newest(i)
    /\ UNCHANGED <<held, walk>>

\* item_unlink and item_replace; and what a walk does to the item it is at.
unlink(i) == Becomes(item_unlink_q(Queue, i)) /\ linked' = linked \ {i}

do_item_unlink(i) ==
    /\ Idle /\ i \in linked
    /\ unlink(i)
    /\ UNCHANGED <<held, time, now, walk>>

\* mutant: the item is put at the head without being taken out.
move_to_head_twice(q, i) == item_link_q(q, i)

move_to_head(q, i) == item_link_q(item_unlink_q(q, i), i)

do_item_update(i) ==
    /\ Idle /\ i \in linked
    /\ Becomes(move_to_head(Queue, i)) /\ Newest(i)
    /\ UNCHANGED <<linked, held, walk>>

\* The commands take references and release them.
reference(i) ==
    /\ Idle
    /\ held' = IF i \in held THEN held \ {i} ELSE held \cup {i}
    /\ UNCHANGED <<queue, linked, time, now, walk>>

----------------------------------------------------------------------------
\* do_item_alloc: when the slab allocator has no chunk it searches for an item
\* nobody holds.
evict_begin ==
    /\ Idle /\ tails # Null
    /\ walk' = [by |-> "evict", iter |-> tails, tries |-> Tries, limit |-> 0]
    /\ UNCHANGED <<queue, linked, held, time, now>>

\* When that left the allocator without a chunk, the last ditch effort: a held
\* item from before `limit`.
repair_begin(limit) ==
    /\ walk.by = "evicted"
    /\ walk' = [by |-> "repair", iter |-> tails, tries |-> Tries, limit |-> limit]
    /\ UNCHANGED <<queue, linked, held, time, now>>

\* Does the search end at i?
fits_search(i) ==
    IF walk.by = "evict" THEN i \notin held
    ELSE i \in held /\ time[i] < walk.limit

\* mutant: the search goes down from the tail.
search_next_down(i) == next[i]

search_next(i) == prev[i]

Searching == walk.by \in {"evict", "repair"}

\* The outcome of a search: from an eviction a repair may follow.
SearchDone == [NoWalk EXCEPT !.by = IF walk.by = "evict" THEN "evicted" ELSE "none"]

search ==
    /\ Searching
    /\ LET i == walk.iter
       IN IF i = Null \/ walk.tries = 0
          THEN walk' = SearchDone /\ UNCHANGED <<queue, linked, held>>
          ELSE IF fits_search(i)
          THEN unlink(i) /\ held' = held \ {i} /\ walk' = SearchDone
          ELSE /\ walk' = [walk EXCEPT !.iter = search_next(i), !.tries = @ - 1]
               /\ UNCHANGED <<queue, linked, held>>
    /\ UNCHANGED <<time, now>>

\* The allocator had a chunk after all.
evict_end ==
    /\ walk.by = "evicted" /\ walk' = NoWalk
    /\ UNCHANGED <<queue, linked, held, time, now>>

\* do_item_flush_expired, with `limit` for settings.oldest_live.
flush_begin(limit) ==
    /\ Idle
    /\ walk' = [by |-> "flush", iter |-> heads, tries |-> 0, limit |-> limit]
    /\ UNCHANGED <<queue, linked, held, time, now>>

\* mutant: the next item is looked for at the tail's end.
after_flushed_back(i) == prev[i]

\* The item after i, which the loop reads before i is unlinked.
after_flushed(i) == next[i]

flush ==
    /\ walk.by = "flush"
    /\ LET i == walk.iter
       IN IF i # Null /\ time[i] >= walk.limit
          THEN /\ walk' = [walk EXCEPT !.iter = after_flushed(i)]
               /\ unlink(i)
          ELSE walk' = NoWalk /\ UNCHANGED <<queue, linked>>
    /\ UNCHANGED <<held, time, now>>

LruNext ==
    \/ \E i \in Items :
        do_item_link(i) \/ do_item_unlink(i) \/ do_item_update(i) \/ reference(i)
    \/ evict_begin \/ search \/ evict_end \/ flush
    \/ \E limit \in 1 .. MaxTime : repair_begin(limit) \/ flush_begin(limit)

LruSpec == LruInit /\ [][LruNext]_lruVars

----------------------------------------------------------------------------
\* The queue is a list of the linked items, whichever way it is read: next and
\* prev are each other's inverses on it, its ends are where they say, and no
\* pointer leads out of it.
Chained ==
    /\ (heads = Null) = (linked = {}) /\ (tails = Null) = (linked = {})
    /\ heads # Null => heads \in linked /\ prev[heads] = Null
    /\ tails # Null => tails \in linked /\ next[tails] = Null
    /\ \A i \in linked :
        /\ IF next[i] = Null THEN tails = i
           ELSE next[i] \in linked /\ prev[next[i]] = i
        /\ IF prev[i] = Null THEN heads = i
           ELSE prev[i] \in linked /\ next[prev[i]] = i

\* The queue has the linked items in the order in which they were linked or
\* moved, without a gap or a loop: its head is the newest and its tail the
\* oldest, and nothing belongs between an item and the next.
InOrder ==
    /\ \A i \in linked : /\ time[i] <= time[heads] /\ time[i] >= time[tails]
    /\ \A i \in linked : next[i] # Null =>
        /\ time[next[i]] < time[i]
        /\ \A j \in linked : ~(time[next[i]] < time[j] /\ time[j] < time[i])

\* sizes, which "stats items" shows, is the length of the queue.
SizeExact == sizes = Cardinality(linked)

\* A walk reads no item that is not linked: neither the item it took out nor
\* one that went before it is followed.
WalkInQueue == walk.iter # Null => walk.iter \in linked

\* Eviction takes the least recently used of the items nobody holds, or gives
\* up after so many held ones.
EvictsOldest ==
    [][walk.by = "evict" =>
        /\ \A i \in linked \ linked' :
            i \notin held /\ \A j \in linked : time[j] < time[i] => j \in held
        /\ walk'.by = "evicted" /\ linked' = linked =>
            linked \subseteq held \/ Cardinality(held) >= Tries]_lruVars

\* flush_all takes out every item that is not older than its limit, though it
\* stops at the first that is.
FlushTakesAll ==
    [][walk.by = "flush" /\ walk'.by = "none" =>
        \A i \in linked' : time[i] < walk.limit]_lruVars
============================================================================
