------------------------------- MODULE Items -------------------------------
(***************************************************************************)
(* items.c: allocation, linking, reference counting, expiry and eviction   *)
(* of items, over the promises of the hash table (KeySet: one item for a   *)
(* key) and of the slab allocator (NoSharing: a free chunk or none).       *)
(*                                                                         *)
(* The state these functions share is the record `c`; each operator takes  *)
(* it before the call and is the record after it.  The calls are made with *)
(* cache_lock held, so the callers' actions compose the operators.         *)
(*                                                                         *)
(* The build is memcached-debug, the one the tests run: a failed assertion *)
(* stops the server, and c.halted then names it.                           *)
(*                                                                         *)
(* An item is its chunk.  One slab class is modelled: eviction and the LRU *)
(* never mix classes.  The data is a sequence of digits and blanks, the    *)
(* text incr and decr work on, without its CR LF.                          *)
(***************************************************************************)
EXTENDS Integers, Sequences, FiniteSets

CONSTANTS
    Keys,
    Items,           \* the chunks of the slab class
    Null,
    UpdateInterval,  \* ITEM_UPDATE_INTERVAL, 60
    RepairAge,       \* 10800: the age of an item that tail repair frees
    Tries,           \* 50: how far up the LRU a search goes
    MaxRoom,         \* the characters of data that fit a chunk of the class
    EvictToFree      \* settings.evict_to_free, FALSE with -M

ASSUME ItemsAssumption ==
    /\ Null \notin Items \cup Keys
    /\ IsFiniteSet(Items)
    /\ UpdateInterval \in Nat /\ RepairAge \in Nat /\ Tries \in Nat
    /\ MaxRoom \in Nat
    /\ EvictToFree \in BOOLEAN

VARIABLES
    current_time,    \* seconds since the server's start, plus 2
    oldest_live      \* settings.oldest_live

----------------------------------------------------------------------------
\* item_init, with every chunk of the class still free.
InitCache ==
    [free     |-> Items,                        \* ITEM_SLABBED
     linked   |-> {},                           \* ITEM_LINKED
     deleted  |-> {},                           \* ITEM_DELETED
     refcount |-> [i \in Items |-> 0],
     key      |-> [i \in Items |-> Null],
     data     |-> [i \in Items |-> <<>>],
     time     |-> [i \in Items |-> 0],
     exptime  |-> [i \in Items |-> 0],
     cas_id   |-> [i \in Items |-> 0],
     table    |-> [k \in Keys |-> Null],        \* the hash table
     lru      |-> <<>>,                         \* head first
     last_cas |-> 0,                            \* get_cas_id's counter
     halted   |-> "no"]

\* assert: a failed one stops the server.
Expect(c, holds, name) ==
    IF holds \/ c.halted # "no" THEN c ELSE [c EXCEPT !.halted = name]

link_q(c, i) == [c EXCEPT !.lru = <<i>> \o @]

unlink_q(c, i) ==
    LET n == CHOOSE n \in DOMAIN c.lru : c.lru[n] = i
    IN [c EXCEPT !.lru = SubSeq(@, 1, n - 1) \o SubSeq(@, n + 1, Len(@))]

\* item_free.  What is left in a free chunk, but for the flags and exptime, is
\* read only by a holder that tail repair took it from, and is forgotten.
item_free(c, i) ==
    LET ends == {c.lru[n] : n \in DOMAIN c.lru \cap {1, Len(c.lru)}}
        d == Expect(c, /\ i \notin c.linked \cup ends
                       /\ c.refcount[i] = 0, "item_free")
    IN [d EXCEPT !.free = @ \cup {i}, !.key[i] = Null, !.data[i] = <<>>,
                 !.time[i] = 0, !.cas_id[i] = 0]

do_item_link(c, i) ==
    LET a == Expect(c, i \notin c.linked \cup c.free, "do_item_link")
        b == Expect(a, c.table[c.key[i]] = Null, "assoc_insert")
    IN link_q([b EXCEPT !.linked = @ \cup {i}, !.time[i] = current_time,
                        !.table[c.key[i]] = i,
                        !.last_cas = @ + 1, !.cas_id[i] = c.last_cas + 1], i)

\* mutant: item_unlink_q is not called.
do_item_unlink_listed(c, i) ==
    IF i \notin c.linked THEN c
    ELSE LET b == [c EXCEPT !.linked = @ \ {i}, !.table[c.key[i]] = Null]
         IN IF c.refcount[i] = 0 THEN item_free(b, i) ELSE b

do_item_unlink(c, i) ==
    IF i \notin c.linked THEN c
    ELSE LET a == Expect(c, c.table[c.key[i]] # Null, "assoc_delete")
             b == unlink_q([a EXCEPT !.linked = @ \ {i},
                                     !.table[c.key[i]] = Null], i)
         IN IF c.refcount[i] = 0 THEN item_free(b, i) ELSE b

do_item_remove(c, i) ==
    LET a == Expect(c, i \notin c.free, "do_item_remove")
        n == IF c.refcount[i] = 0 THEN 0 ELSE c.refcount[i] - 1
        b == Expect([a EXCEPT !.refcount[i] = n],
                    i \notin c.deleted \/ n # 0, "do_item_remove deleted")
    IN IF n = 0 /\ i \notin c.linked THEN item_free(b, i) ELSE b

\* time < current_time - UpdateInterval, in unsigned arithmetic: the difference
\* wraps to a huge number in the first UpdateInterval seconds.
long_unused(c, i) ==
    \/ current_time < UpdateInterval
    \/ c.time[i] < current_time - UpdateInterval

do_item_update(c, i) ==
    IF ~long_unused(c, i) THEN c
    ELSE LET a == Expect(c, i \notin c.free, "do_item_update")
         IN IF i \in c.linked
            THEN link_q([unlink_q(a, i) EXCEPT !.time[i] = current_time], i)
            ELSE a

do_item_replace(c, i, new) ==
    do_item_link(do_item_unlink(Expect(c, i \notin c.free, "do_item_replace"),
                                i), new)

----------------------------------------------------------------------------
item_delete_lock_over(c, i) == current_time >= c.exptime[i]

delete_locked(c, k) ==
    LET i == c.table[k]
    IN i # Null /\ i \in c.deleted /\ ~item_delete_lock_over(c, i)

flushed(c, i) ==
    oldest_live # 0 /\ oldest_live <= current_time /\ c.time[i] <= oldest_live

expired(c, i) == c.exptime[i] # 0 /\ c.exptime[i] <= current_time

\* What a lookup of k may return.
Visible(c, k) ==
    LET i == c.table[k]
    IN i # Null /\ ~delete_locked(c, k) /\ ~flushed(c, i) /\ ~expired(c, i)

Hold(c, i) == [c EXCEPT !.refcount[i] = @ + 1]

\* do_item_get_notedeleted: the item, or Null, and the cache after the call.
do_item_get_notedeleted(c, k) ==
    LET i == c.table[k]
    IN IF Visible(c, k) THEN [it |-> i, c |-> Hold(c, i)]
       ELSE IF i = Null \/ delete_locked(c, k) THEN [it |-> Null, c |-> c]
       ELSE [it |-> Null, c |-> do_item_unlink(c, i)]

do_item_get_nocheck(c, k) ==
    LET i == c.table[k]
    IN IF i = Null THEN [it |-> Null, c |-> c] ELSE [it |-> i, c |-> Hold(c, i)]

\* mutant: flush_all leaves all to the lookups.
do_item_flush_expired_lazy(c) == c

\* do_item_flush_expired: from the head of the LRU to the first item that was
\* last used before oldest_live.
do_item_flush_expired(c) ==
    IF oldest_live = 0 THEN c
    ELSE LET old == {n \in DOMAIN c.lru : c.time[c.lru[n]] < oldest_live}
             end == IF old = {} THEN Len(c.lru)
                    ELSE (CHOOSE n \in old : \A m \in old : n <= m) - 1
             flush[n \in 0 .. end] ==
                 IF n = 0 THEN c ELSE do_item_unlink(flush[n - 1], c.lru[n])
         IN flush[end]

----------------------------------------------------------------------------
\* The last of these items on the LRU, at most Tries up from the tail.
LastOf(c, items) ==
    LET found == {n \in DOMAIN c.lru : n > Len(c.lru) - Tries /\ c.lru[n] \in items}
    IN IF found = {} THEN Null
       ELSE c.lru[CHOOSE n \in found : \A m \in found : m <= n]

\* Evicting the least recently used item nobody holds.
evict(c) ==
    LET i == LastOf(c, {j \in Items : c.refcount[j] = 0})
    IN IF i = Null THEN c ELSE do_item_unlink(c, i)

\* The last ditch effort: an item held for hours is taken for a leaked one.
tail_repair(c) ==
    LET i == LastOf(c, {j \in Items : /\ c.refcount[j] # 0
                                       /\ c.time[j] + RepairAge < current_time})
    IN IF i = Null THEN c ELSE do_item_unlink([c EXCEPT !.refcount[i] = 0], i)

\* The cache once do_item_alloc has made what room it can.
reclaim(c) ==
    IF c.free # {} \/ ~EvictToFree \/ c.lru = <<>> THEN c
    ELSE LET d == evict(c) IN IF d.free # {} THEN d ELSE tail_repair(d)

\* The header do_item_alloc gives to the chunk i.
new_item(c, i, k, exptime) ==
    [c EXCEPT !.free = @ \ {i}, !.deleted = @ \ {i}, !.refcount[i] = 1,
              !.key[i] = k, !.exptime[i] = exptime]

\* The outcomes of do_item_alloc: the allocator picks the chunk.
do_item_alloc(c, k, exptime, room) ==
    IF room > MaxRoom THEN {[it |-> Null, c |-> c]}
    ELSE LET d == reclaim(c)
         IN IF d.free = {} THEN {[it |-> Null, c |-> d]}
            ELSE {[it |-> i, c |-> new_item(d, i, k, exptime)] : i \in d.free}
============================================================================
