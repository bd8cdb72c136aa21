---------------------------- MODULE LossyStore ----------------------------
(***************************************************************************)
(* What the cache promises the clients of memcached: a store in which a    *)
(* value may be lost at any time, by eviction, expiry or deletion, but     *)
(* comes to be under a key only by a change of that key, one key at a      *)
(* time, and every change carries an identifier no value ever had.         *)
(***************************************************************************)
EXTENDS Naturals

CONSTANTS Keys, None

VARIABLES
    store,    \* key -> the value a lookup returns and its cas id, or None
    last      \* the last cas id given out

Lost(k) == store'[k] \in {store[k], None}

Init == store = [k \in Keys |-> None] /\ last = 0

Put(k) ==
    /\ store'[k] # None
    /\ store'[k].cas_id \in last + 1 .. last'
    /\ \A j \in Keys \ {k} : Lost(j)

Lose == last' >= last /\ \A k \in Keys : Lost(k)

Next == Lose \/ \E k \in Keys : Put(k)

Spec == Init /\ [][Next]_<<store, last>>
============================================================================
