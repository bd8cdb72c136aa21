------------------------------- MODULE Assoc -------------------------------
(***************************************************************************)
(* assoc.c: the chained hash table over the items, and its incremental     *)
(* growth.  When the table gets too full a second one of twice the size is *)
(* allocated and the buckets of the first are moved over one at a time, so *)
(* for a while each key lives in one of two tables.                        *)
(*                                                                         *)
(* A chain is the set of the keys on it: no two items of the table have    *)
(* one key (assoc_insert asserts it) and no operation depends on the order *)
(* of a chain.  The table's size 2^hashpower is kept instead of its        *)
(* exponent.  All of this runs under cache_lock, so an operation is a step.*)
(***************************************************************************)
EXTENDS Integers, FiniteSets

CONSTANTS
    Keys,          \* the keys clients use
    Hash,          \* hash(key, nkey, 0)
    InitBuckets,   \* hashsize(hashpower) at the start, 2^16 in the code
    MaxBuckets     \* calloc has no memory for a table larger than this

ASSUME AssocAssumption ==
    /\ IsFiniteSet(Keys)
    /\ Hash \in [Keys -> Nat]
    /\ InitBuckets \in Nat \ {0}
    /\ MaxBuckets \in Nat

VARIABLES
    primary_hashtable,   \* bucket number -> keys chained there
    old_hashtable,       \* the table being emptied; meaningful while expanding
    nbuckets,            \* hashsize(hashpower)
    expanding,
    expand_bucket,       \* the buckets of old_hashtable below this one moved
    hash_items

vars == <<primary_hashtable, old_hashtable, nbuckets, expanding,
          expand_bucket, hash_items>>

----------------------------------------------------------------------------
Bucket(k, n) == Hash[k] % n              \* hv & (n - 1), n a power of two
oldsize == nbuckets \div 2               \* hashsize(hashpower - 1)

\* Where a key is looked up, inserted and deleted: the old table as long as
\* its bucket there has not been moved.
in_old_unmoved(k) == expanding      \* mutant: forgets that buckets have moved

in_old(k) == expanding /\ Bucket(k, oldsize) >= expand_bucket

assoc_find(k) ==
    IF in_old(k) THEN k \in old_hashtable[Bucket(k, oldsize)]
                 ELSE k \in primary_hashtable[Bucket(k, nbuckets)]

EmptyTable(n) == [b \in 0 .. n - 1 |-> {}]

\* Moving bucket b of the table old, of half = n \div 2 buckets, into new.
Move(old, new, b, n) ==
    [c \in 0 .. n - 1 |-> new[c] \cup {k \in old[b] : Bucket(k, n) = c}]

overfull(count, n) == count > (n * 3) \div 2

----------------------------------------------------------------------------
\* assoc_init
Init ==
    /\ nbuckets = InitBuckets
    /\ primary_hashtable = EmptyTable(InitBuckets)
    /\ old_hashtable = EmptyTable(0)
    /\ expanding = FALSE
    /\ expand_bucket = 0
    /\ hash_items = 0

\* mutant: the old table is released with its last bucket still unmoved.
move_next_bucket_early(old, new, b, n) ==
    /\ primary_hashtable' = Move(old, new, b, n)
    /\ expand_bucket' = b + 1
    /\ expanding' = (b + 2 < n \div 2)
    /\ old_hashtable' = IF b + 2 >= n \div 2 THEN EmptyTable(0)
                                             ELSE [old EXCEPT ![b] = {}]

\* mutant: the bucket is moved and expand_bucket is left alone.
move_next_bucket_again(old, new, b, n) ==
    /\ primary_hashtable' = Move(old, new, b, n)
    /\ expand_bucket' = b
    /\ expanding' = (b + 1 # n \div 2)
    /\ old_hashtable' = IF b + 1 = n \div 2 THEN EmptyTable(0)
                                            ELSE [old EXCEPT ![b] = {}]

\* do_assoc_move_next_bucket, of the table old into a table new of n buckets.
move_next_bucket(old, new, b, n) ==
    /\ primary_hashtable' = Move(old, new, b, n)
    /\ expand_bucket' = b + 1
    /\ expanding' = (b + 1 # n \div 2)
    /\ old_hashtable' = IF b + 1 = n \div 2
                        THEN EmptyTable(0)              \* free(old_hashtable)
                        ELSE [old EXCEPT ![b] = {}]

\* assoc_expand, for a table that already is `table`; the calloc of the larger
\* one may fail, and the table then stays as it is.
assoc_expand(table) ==
    \/ /\ 2 * nbuckets <= MaxBuckets
       /\ nbuckets' = 2 * nbuckets
       /\ move_next_bucket(table, EmptyTable(2 * nbuckets), 0, 2 * nbuckets)
    \/ /\ primary_hashtable' = table
       /\ UNCHANGED <<old_hashtable, nbuckets, expanding, expand_bucket>>

\* The callers insert only keys that are not there: the assertion of line 584.
assoc_insert(k) ==
    /\ ~assoc_find(k)
    /\ hash_items' = hash_items + 1
    /\ \/ /\ in_old(k)
          /\ old_hashtable' =
                [old_hashtable EXCEPT ![Bucket(k, oldsize)] = @ \cup {k}]
          /\ UNCHANGED <<primary_hashtable, nbuckets, expanding, expand_bucket>>
       \/ /\ ~in_old(k)
          /\ LET table == [primary_hashtable EXCEPT
                              ![Bucket(k, nbuckets)] = @ \cup {k}]
             IN \/ /\ ~expanding /\ overfull(hash_items + 1, nbuckets)
                   /\ assoc_expand(table)
                \/ /\ expanding \/ ~overfull(hash_items + 1, nbuckets)
                   /\ primary_hashtable' = table
                   /\ UNCHANGED <<old_hashtable, nbuckets, expanding,
                                  expand_bucket>>

\* The callers delete only keys that are there: the assertion of line 623.
assoc_delete(k) ==
    /\ assoc_find(k)
    /\ hash_items' = hash_items - 1
    /\ \/ /\ in_old(k)
          /\ old_hashtable' =
                [old_hashtable EXCEPT ![Bucket(k, oldsize)] = @ \ {k}]
          /\ UNCHANGED primary_hashtable
       \/ /\ ~in_old(k)
          /\ primary_hashtable' =
                [primary_hashtable EXCEPT ![Bucket(k, nbuckets)] = @ \ {k}]
          /\ UNCHANGED old_hashtable
    /\ UNCHANGED <<nbuckets, expanding, expand_bucket>>

\* A connection that goes back to conn_read moves one bucket.
do_assoc_move_next_bucket ==
    /\ expanding
    /\ move_next_bucket(old_hashtable, primary_hashtable, expand_bucket,
                        nbuckets)
    /\ UNCHANGED <<nbuckets, hash_items>>

Next ==
    \/ \E k \in Keys : assoc_insert(k) \/ assoc_delete(k)
    \/ do_assoc_move_next_bucket

Spec == Init /\ [][Next]_vars

\* Every connection calls assoc_move_next_bucket each time it goes back to
\* reading a command (conn_set_state), so on a server that is being used the
\* move is taken again and again.
FairSpec == Spec /\ WF_vars(do_assoc_move_next_bucket)

----------------------------------------------------------------------------
InOld     == IF expanding THEN UNION {old_hashtable[b] : b \in 0 .. oldsize - 1}
                          ELSE {}
InPrimary == UNION {primary_hashtable[b] : b \in 0 .. nbuckets - 1}
Found     == {k \in Keys : assoc_find(k)}

TypeOK ==
    /\ nbuckets \in Nat \ {0}
    /\ expanding \in BOOLEAN
    /\ primary_hashtable \in [0 .. nbuckets - 1 -> SUBSET Keys]
    /\ old_hashtable \in [0 .. (IF expanding THEN oldsize ELSE 0) - 1
                              -> SUBSET Keys]
    /\ expand_bucket \in Nat
    /\ expanding => expand_bucket < oldsize
    /\ hash_items \in Int

\* Every key chained in either table is the one a lookup of that key reaches:
\* no key is stranded in a bucket that assoc_find does not walk for it, before,
\* in the middle of and after a growth of the table.
NothingStranded == InOld \cup InPrimary \subseteq Found

\* No key is on two chains, of one table or of both: a deletion would unlink one
\* copy and leave the other, whose item is then freed memory.
NoSecondCopy ==
    /\ InOld \cap InPrimary = {}
    /\ \A b, c \in 0 .. nbuckets - 1 :
          b # c => primary_hashtable[b] \cap primary_hashtable[c] = {}
    /\ expanding => \A b, c \in 0 .. oldsize - 1 :
          b # c => old_hashtable[b] \cap old_hashtable[c] = {}

\* hash_items, which decides when the table grows, is the number of items on
\* the chains of both tables together.
ItemsCounted == hash_items = Cardinality(InOld \cup InPrimary)

\* The two-table structure is a set of keys: what lookups find changes by the
\* inserted or deleted key only, and a growth or the move of a bucket changes
\* nothing a lookup can see (assoc_find, assoc_insert, assoc_delete).
Index == INSTANCE KeySet WITH keys <- Found
IndexSpec == Index!Spec

\* A growth that was started comes to its end, and the old table is released:
\* expand_bucket passes every bucket of the old table (assoc.c:565).
GrowthEnds == expanding ~> ~expanding

============================================================================
