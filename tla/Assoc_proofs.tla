--------------------------- MODULE Assoc_proofs ---------------------------
(***************************************************************************)
(* Proofs about the two ways in which the items of memcached are chained,  *)
(* the buckets of assoc.c and the LRU queues of items.c.                   *)
(*                                                                         *)
(* The hash table, for every set of keys, every hash function and every    *)
(* number of buckets: no key is ever stranded or chained twice, and the    *)
(* table is a set of keys to its callers.  The inductive invariant says    *)
(* that both tables are determined by one set of keys, the set that        *)
(* lookups find: Layout(S).                                                *)
(*                                                                         *)
(* The queue: its pointers stay a list of the linked items in the order of *)
(* their times, and eviction and flush_all take the items that they        *)
(* should.  Nothing is shown by induction along the list: that a queue is  *)
(* in order is said of neighbours and of the ends only, with nothing       *)
(* between two neighbours, and each change touches a few of them.          *)
(***************************************************************************)
EXTENDS Assoc, Lru, FiniteSetTheorems, TLAPS

Layout(S) ==
    /\ primary_hashtable =
          [c \in 0 .. nbuckets - 1 |->
              {k \in S : ~in_old(k) /\ Bucket(k, nbuckets) = c}]
    /\ old_hashtable =
          [c \in 0 .. (IF expanding THEN oldsize ELSE 0) - 1 |->
              {k \in S : in_old(k) /\ Bucket(k, oldsize) = c}]

\* The counters and flags the tables are indexed by.
Sizes ==
    /\ nbuckets \in Nat \ {0}
    /\ expanding \in BOOLEAN
    /\ expand_bucket \in Nat
    /\ expanding => expand_bucket < oldsize

IInv ==
    /\ Sizes
    /\ Layout(Found)
    /\ IsFiniteSet(Found)
    /\ hash_items = Cardinality(Found)

\* A bucket number is within the table (hv & hashmask(n) in assoc.c).
LEMMA BucketRange ==
    ASSUME NEW k \in Keys, NEW n \in Nat \ {0}
    PROVE  Bucket(k, n) \in 0 .. n - 1
  BY AssocAssumption DEF Bucket

LEMMA OldsizeNat == ASSUME Sizes PROVE oldsize \in Nat /\ (expanding => oldsize # 0)
  BY DEF Sizes, oldsize

\* In a table laid out for S, lookups find exactly S.
LEMMA LayoutFinds ==
    ASSUME NEW S \in SUBSET Keys, Sizes, Layout(S)
    PROVE  /\ Found = S
           /\ \A k \in Keys : assoc_find(k) <=> k \in S
<1>1. ASSUME NEW k \in Keys PROVE assoc_find(k) <=> k \in S
  <2>1. Bucket(k, nbuckets) \in 0 .. nbuckets - 1
    BY BucketRange DEF Sizes
  <2>2. CASE in_old(k)
    <3>1. expanding BY <2>2 DEF in_old
    <3>2. Bucket(k, oldsize) \in 0 .. oldsize - 1
      BY <3>1, OldsizeNat, BucketRange
    <3> QED BY <2>2, <3>1, <3>2 DEF assoc_find, Layout
  <2>3. CASE ~in_old(k)
    BY <2>1, <2>3 DEF assoc_find, Layout
  <2> QED BY <2>2, <2>3
<1> QED BY <1>1 DEF Found

\* The same of the next state.
LEMMA LayoutFindsNext ==
    ASSUME NEW S \in SUBSET Keys
    PROVE  (Sizes /\ Layout(S) => Found = S)'
<1>1. Sizes /\ Layout(S) => Found = S
  BY LayoutFinds
<1> QED BY <1>1, PTL

LEMMA FoundLookup ==
    ASSUME NEW k \in Keys PROVE assoc_find(k) <=> k \in Found
  BY DEF Found

\* Bucket b is moved out of a table of h buckets, those below b moved already,
\* into one of n: what is laid out for S stays laid out for S.
LEMMA MoveLayout ==
    ASSUME NEW S \in SUBSET Keys,
           NEW n \in Nat \ {0}, NEW h \in Nat, h = n \div 2, h # 0,
           NEW b \in 0 .. h - 1,
           NEW old, NEW new,
           old = [c \in 0 .. h - 1 |->
                     {k \in S : Bucket(k, h) >= b /\ Bucket(k, h) = c}],
           new = [c \in 0 .. n - 1 |->
                     {k \in S : Bucket(k, h) < b /\ Bucket(k, n) = c}],
           nbuckets' = n,
           move_next_bucket(old, new, b, n)
    PROVE  Sizes' /\ Layout(S)'
<1>1. \A k \in S : Bucket(k, h) \in 0 .. h - 1 /\ Bucket(k, n) \in 0 .. n - 1
  BY BucketRange
<1>2. oldsize' = h
  BY DEF oldsize
<1>3. Sizes'
  <2>1. expand_bucket' = b + 1 /\ expanding' \in BOOLEAN
    BY DEF move_next_bucket
  <2>2. expanding' => b + 1 < h
    <3>1. expanding' = (b + 1 # h)
      BY DEF move_next_bucket
    <3>2. b + 1 # h => b + 1 < h
      OBVIOUS
    <3> QED BY <3>1, <3>2
  <2> QED BY <1>2, <2>1, <2>2 DEF Sizes
<1>4. \A k \in S : in_old(k)' <=> Bucket(k, h) >= b + 1
  <2>1. \A k \in S : in_old(k)' <=> expanding' /\ Bucket(k, h) >= expand_bucket'
    BY <1>2 DEF in_old, Bucket
  <2>2. expand_bucket' = b + 1 /\ (expanding' <=> b + 1 # h)
    BY DEF move_next_bucket
  <2> QED BY <2>1, <2>2, <1>1
<1>5. primary_hashtable' =
          [c \in 0 .. n - 1 |-> {k \in S : ~in_old(k)' /\ Bucket(k, n) = c}]
  <2>1. ASSUME NEW c \in 0 .. n - 1
        PROVE  new[c] \cup {k \in old[b] : Bucket(k, n) = c}
                  = {k \in S : ~in_old(k)' /\ Bucket(k, n) = c}
    <3>1. old[b] = {k \in S : Bucket(k, h) = b}
      BY <1>1
    <3>2. new[c] = {k \in S : Bucket(k, h) < b /\ Bucket(k, n) = c}
      OBVIOUS
    <3>3. \A k \in S : ~in_old(k)' <=> Bucket(k, h) < b \/ Bucket(k, h) = b
      BY <1>1, <1>4
    <3> QED BY <3>1, <3>2, <3>3
  <2> QED BY <2>1 DEF move_next_bucket, Move
<1>6. old_hashtable' =
          [c \in 0 .. (IF expanding' THEN h ELSE 0) - 1 |->
              {k \in S : in_old(k)' /\ Bucket(k, h) = c}]
  <2>1. CASE b + 1 = h
    <3>1. expanding' = FALSE /\ old_hashtable' = EmptyTable(0)
      BY <2>1 DEF move_next_bucket
    <3>2. \A c \in 0 .. 0 - 1 : FALSE
      OBVIOUS
    <3> QED BY <3>1, <3>2 DEF EmptyTable
  <2>2. CASE b + 1 # h
    <3>1. expanding' /\ old_hashtable' = [old EXCEPT ![b] = {}]
      BY <2>2 DEF move_next_bucket
    <3>2. ASSUME NEW c \in 0 .. h - 1
          PROVE  [old EXCEPT ![b] = {}][c]
                    = {k \in S : in_old(k)' /\ Bucket(k, h) = c}
      BY <1>1, <1>4
    <3> QED BY <3>1, <3>2
  <2> QED BY <2>1, <2>2
<1> QED BY <1>2, <1>3, <1>5, <1>6 DEF Layout, Bucket

\* assoc_insert lays out one more key, whether or not it starts a growth.
LEMMA InsertLayout ==
    ASSUME NEW S \in SUBSET Keys, NEW k \in Keys,
           Sizes, Layout(S), assoc_insert(k)
    PROVE  Sizes' /\ Layout(S \cup {k})'
<1> DEFINE T == S \cup {k}
           table == [primary_hashtable EXCEPT ![Bucket(k, nbuckets)] = @ \cup {k}]
<1>1. oldsize \in Nat /\ (expanding => oldsize # 0) /\ nbuckets \in Nat \ {0}
  BY OldsizeNat DEF Sizes
<1>2. Bucket(k, nbuckets) \in 0 .. nbuckets - 1
  BY <1>1, BucketRange
<1>3. CASE in_old(k)
  <2>1. expanding /\ Bucket(k, oldsize) \in 0 .. oldsize - 1
    BY <1>1, <1>3, BucketRange DEF in_old
  <2>2. old_hashtable' =
            [old_hashtable EXCEPT ![Bucket(k, oldsize)] = @ \cup {k}]
        /\ UNCHANGED <<primary_hashtable, nbuckets, expanding, expand_bucket>>
    BY <1>3 DEF assoc_insert
  <2>3. oldsize' = oldsize /\ \A j \in T : in_old(j)' <=> in_old(j)
    BY <2>2 DEF oldsize, in_old, Bucket
  <2>4. ASSUME NEW c \in 0 .. oldsize - 1
        PROVE  old_hashtable'[c] = {j \in T : in_old(j) /\ Bucket(j, oldsize) = c}
    BY <1>3, <2>1, <2>2 DEF Layout
  <2>5. old_hashtable' = [c \in 0 .. oldsize - 1 |->
                             {j \in T : in_old(j) /\ Bucket(j, oldsize) = c}]
    BY <2>1, <2>2, <2>4 DEF Layout
  <2>6. primary_hashtable' = [c \in 0 .. nbuckets - 1 |->
                             {j \in T : ~in_old(j) /\ Bucket(j, nbuckets) = c}]
    <3>1. \A c \in 0 .. nbuckets - 1 :
              {j \in T : ~in_old(j) /\ Bucket(j, nbuckets) = c}
                = {j \in S : ~in_old(j) /\ Bucket(j, nbuckets) = c}
      BY <1>3
    <3> QED BY <2>2, <3>1 DEF Layout
  <2>7. Layout(T)'
    <3>1. nbuckets' = nbuckets /\ expanding' /\ oldsize' = oldsize
      BY <2>1, <2>2, <2>3
    <3>2. primary_hashtable' = [c \in 0 .. nbuckets' - 1 |->
                    {j \in T : ~in_old(j)' /\ Bucket(j, nbuckets') = c}]
      BY <2>3, <2>6, <3>1
    <3>3. old_hashtable' = [c \in 0 .. oldsize' - 1 |->
                    {j \in T : in_old(j)' /\ Bucket(j, oldsize') = c}]
      BY <2>3, <2>5, <3>1
    <3> QED BY <3>1, <3>2, <3>3 DEF Layout, Bucket
  <2> QED BY <2>2, <2>3, <2>7 DEF Sizes
<1>4. CASE ~in_old(k)
  <2>1. table = [c \in 0 .. nbuckets - 1 |->
                    {j \in T : ~in_old(j) /\ Bucket(j, nbuckets) = c}]
    <3>1. \A c \in 0 .. nbuckets - 1 :
              table[c] = {j \in T : ~in_old(j) /\ Bucket(j, nbuckets) = c}
      BY <1>2, <1>4 DEF Layout
    <3> QED BY <3>1 DEF Layout
  <2>2. CASE /\ primary_hashtable' = table
             /\ UNCHANGED <<old_hashtable, nbuckets, expanding, expand_bucket>>
    <3>1. oldsize' = oldsize /\ \A j \in T : in_old(j)' <=> in_old(j)
      BY <2>2 DEF oldsize, in_old, Bucket
    <3>2. old_hashtable = [c \in 0 .. (IF expanding THEN oldsize ELSE 0) - 1 |->
                             {j \in T : in_old(j) /\ Bucket(j, oldsize) = c}]
      <4>1. \A c \in 0 .. (IF expanding THEN oldsize ELSE 0) - 1 :
                {j \in T : in_old(j) /\ Bucket(j, oldsize) = c}
                  = {j \in S : in_old(j) /\ Bucket(j, oldsize) = c}
        BY <1>4
      <4> QED BY <4>1 DEF Layout
    <3>3. Layout(T)'
      BY <2>1, <2>2, <3>1, <3>2 DEF Layout, Bucket
    <3> QED BY <2>2, <3>1, <3>3 DEF Sizes
  <2>3. CASE /\ ~expanding
             /\ nbuckets' = 2 * nbuckets
             /\ move_next_bucket(table, EmptyTable(2 * nbuckets), 0, 2 * nbuckets)
    <3> DEFINE h == nbuckets
               n == 2 * nbuckets
    <3>1. n \in Nat \ {0} /\ h = n \div 2 /\ h # 0 /\ h \in Nat /\ 0 \in 0 .. h - 1
      BY <1>1
    <3>2. \A j \in T : ~in_old(j) /\ Bucket(j, h) \in 0 .. h - 1
      BY <1>1, <2>3, BucketRange DEF in_old
    <3>3. table = [c \in 0 .. h - 1 |->
                      {j \in T : Bucket(j, h) >= 0 /\ Bucket(j, h) = c}]
      <4>1. \A c \in 0 .. h - 1 :
                {j \in T : ~in_old(j) /\ Bucket(j, h) = c}
                  = {j \in T : Bucket(j, h) >= 0 /\ Bucket(j, h) = c}
        BY <3>2
      <4> QED BY <2>1, <4>1
    <3>4. EmptyTable(n) = [c \in 0 .. n - 1 |->
                      {j \in T : Bucket(j, h) < 0 /\ Bucket(j, n) = c}]
      BY <3>2 DEF EmptyTable
    <3>5. PICK hh, nn, old, new : hh = h /\ nn = n /\ old = table
                                  /\ new = EmptyTable(n)
      OBVIOUS
    <3>6. Sizes' /\ Layout(T)'
      BY <2>3, <3>1, <3>3, <3>4, <3>5, MoveLayout
    <3> QED BY <3>6
  <2> QED BY <1>4, <2>2, <2>3 DEF assoc_insert, assoc_expand
<1> QED BY <1>3, <1>4

\* assoc_delete lays out one key fewer.
LEMMA DeleteLayout ==
    ASSUME NEW S \in SUBSET Keys, NEW k \in Keys,
           Sizes, Layout(S), assoc_delete(k)
    PROVE  Sizes' /\ Layout(S \ {k})'
<1> DEFINE T == S \ {k}
           stale == IF expanding THEN oldsize ELSE 0
<1>1. oldsize \in Nat /\ (expanding => oldsize # 0) /\ nbuckets \in Nat \ {0}
  BY OldsizeNat DEF Sizes
<1>2. UNCHANGED <<nbuckets, expanding, expand_bucket>>
  BY DEF assoc_delete
<1>3. stale' = stale /\ oldsize' = oldsize /\ \A j \in T : in_old(j)' <=> in_old(j)
  BY <1>2 DEF oldsize, in_old, Bucket
<1>4. primary_hashtable' = [c \in 0 .. nbuckets - 1 |->
                              {j \in T : ~in_old(j) /\ Bucket(j, nbuckets) = c}]
  <2>1. Bucket(k, nbuckets) \in 0 .. nbuckets - 1
    BY <1>1, BucketRange
  <2>2. CASE in_old(k)
    <3>1. \A c \in 0 .. nbuckets - 1 :
              {j \in T : ~in_old(j) /\ Bucket(j, nbuckets) = c}
                = {j \in S : ~in_old(j) /\ Bucket(j, nbuckets) = c}
      BY <2>2
    <3> QED BY <2>2, <3>1 DEF Layout, assoc_delete
  <2>3. CASE ~in_old(k)
    <3>1. primary_hashtable' =
              [primary_hashtable EXCEPT ![Bucket(k, nbuckets)] = @ \ {k}]
      BY <2>3 DEF assoc_delete
    <3>2. \A c \in 0 .. nbuckets - 1 : primary_hashtable'[c]
                = {j \in T : ~in_old(j) /\ Bucket(j, nbuckets) = c}
      BY <2>1, <3>1 DEF Layout
    <3> QED BY <3>1, <3>2 DEF Layout
  <2> QED BY <2>2, <2>3
<1>5. old_hashtable' = [c \in 0 .. stale - 1 |->
                          {j \in T : in_old(j) /\ Bucket(j, oldsize) = c}]
  <2>1. CASE in_old(k)
    <3>1. expanding /\ Bucket(k, oldsize) \in 0 .. oldsize - 1
      BY <1>1, <2>1, BucketRange DEF in_old
    <3>2. old_hashtable' =
              [old_hashtable EXCEPT ![Bucket(k, oldsize)] = @ \ {k}]
      BY <2>1 DEF assoc_delete
    <3>3. \A c \in 0 .. stale - 1 : old_hashtable'[c]
                = {j \in T : in_old(j) /\ Bucket(j, oldsize) = c}
      BY <3>1, <3>2 DEF Layout
    <3> QED BY <3>1, <3>2, <3>3 DEF Layout
  <2>2. CASE ~in_old(k)
    <3>1. \A c \in 0 .. stale - 1 :
              {j \in T : in_old(j) /\ Bucket(j, oldsize) = c}
                = {j \in S : in_old(j) /\ Bucket(j, oldsize) = c}
      BY <2>2
    <3> QED BY <2>2, <3>1 DEF Layout, assoc_delete
  <2> QED BY <2>1, <2>2
<1>6. Layout(T)'
  <2>1. primary_hashtable' = [c \in 0 .. nbuckets' - 1 |->
                    {j \in T : ~in_old(j)' /\ Bucket(j, nbuckets') = c}]
    BY <1>2, <1>3, <1>4
  <2>2. old_hashtable' = [c \in 0 .. stale' - 1 |->
                    {j \in T : in_old(j)' /\ Bucket(j, oldsize') = c}]
    BY <1>3, <1>5
  <2> QED BY <2>1, <2>2 DEF Layout, Bucket
<1>7. Sizes'
  BY <1>2, <1>3 DEF Sizes
<1> QED BY <1>6, <1>7

\* do_assoc_move_next_bucket lays out the same keys.
LEMMA MoveNextLayout ==
    ASSUME NEW S \in SUBSET Keys, Sizes, Layout(S), do_assoc_move_next_bucket
    PROVE  Sizes' /\ Layout(S)'
<1>1. PICK h, n, b, old, new :
          /\ h = oldsize /\ n = nbuckets /\ b = expand_bucket
          /\ old = old_hashtable /\ new = primary_hashtable
  OBVIOUS
<1>2. expanding /\ n \in Nat \ {0} /\ h \in Nat /\ h = n \div 2 /\ h # 0
      /\ b \in 0 .. h - 1
  BY <1>1, OldsizeNat DEF do_assoc_move_next_bucket, Sizes, oldsize
<1>3. \A k \in S : Bucket(k, h) \in 0 .. h - 1
                   /\ (in_old(k) <=> Bucket(k, h) >= b)
                   /\ (~in_old(k) <=> Bucket(k, h) < b)
  BY <1>1, <1>2, BucketRange DEF in_old
<1>4. old = [c \in 0 .. h - 1 |->
                {k \in S : Bucket(k, h) >= b /\ Bucket(k, h) = c}]
  <2>1. \A c \in 0 .. h - 1 :
            {k \in S : in_old(k) /\ Bucket(k, h) = c}
              = {k \in S : Bucket(k, h) >= b /\ Bucket(k, h) = c}
    BY <1>3
  <2> QED BY <1>1, <1>2, <2>1 DEF Layout
<1>5. new = [c \in 0 .. n - 1 |->
                {k \in S : Bucket(k, h) < b /\ Bucket(k, n) = c}]
  <2>1. \A c \in 0 .. n - 1 :
            {k \in S : ~in_old(k) /\ Bucket(k, n) = c}
              = {k \in S : Bucket(k, h) < b /\ Bucket(k, n) = c}
    BY <1>3
  <2> QED BY <1>1, <1>2, <2>1 DEF Layout
<1>6. nbuckets' = n /\ move_next_bucket(old, new, b, n)
  BY <1>1 DEF do_assoc_move_next_bucket
<1> QED BY <1>2, <1>4, <1>5, <1>6, MoveLayout

----------------------------------------------------------------------------
LEMMA InitIInv == Init => IInv
<1> SUFFICES ASSUME Init PROVE IInv
  OBVIOUS
<1>1. Sizes
  BY AssocAssumption DEF Init, Sizes
<1>2. Layout({})
  <2>1. \A c \in 0 .. 0 - 1 : FALSE
    OBVIOUS
  <2> QED BY <2>1 DEF Init, Layout, EmptyTable
<1>3. Found = {}
  BY <1>1, <1>2, LayoutFinds
<1> QED BY <1>1, <1>2, <1>3, FS_EmptySet DEF IInv, Init

\* What one operation does to the set of keys that lookups find.
LEMMA StepFound ==
    ASSUME IInv, Next
    PROVE  /\ Sizes' /\ Layout(Found)'
           /\ \/ \E k \in Keys : /\ k \notin Found
                                 /\ Found' = Found \cup {k}
                                 /\ hash_items' = hash_items + 1
              \/ \E k \in Keys : /\ k \in Found
                                 /\ Found' = Found \ {k}
                                 /\ hash_items' = hash_items - 1
              \/ UNCHANGED <<Found, hash_items>>
<1>1. PICK S : S = Found
  OBVIOUS
<1>2. S \in SUBSET Keys /\ Sizes /\ Layout(S)
  BY <1>1 DEF IInv, Found, Layout
<1>3. ASSUME NEW T \in SUBSET Keys, Sizes', Layout(T)'
      PROVE  Found' = T /\ Layout(Found)'
  <2>1. Found' = T
    BY <1>3, LayoutFindsNext
  <2> QED BY <1>3, <2>1 DEF Layout
<1>4. ASSUME NEW k \in Keys, assoc_insert(k)
      PROVE  Sizes' /\ Layout(Found)' /\ k \notin Found
             /\ Found' = Found \cup {k} /\ hash_items' = hash_items + 1
  <2>1. Sizes' /\ Layout(S \cup {k})'
    BY <1>2, <1>4, InsertLayout
  <2>2. S \cup {k} \in SUBSET Keys
    BY <1>2
  <2> QED BY <1>1, <1>3, <1>4, <2>1, <2>2, FoundLookup DEF assoc_insert
<1>5. ASSUME NEW k \in Keys, assoc_delete(k)
      PROVE  Sizes' /\ Layout(Found)' /\ k \in Found
             /\ Found' = Found \ {k} /\ hash_items' = hash_items - 1
  <2>1. Sizes' /\ Layout(S \ {k})'
    BY <1>2, <1>5, DeleteLayout
  <2>2. S \ {k} \in SUBSET Keys
    BY <1>2
  <2> QED BY <1>1, <1>3, <1>5, <2>1, <2>2, FoundLookup DEF assoc_delete
<1>6. ASSUME do_assoc_move_next_bucket
      PROVE  Sizes' /\ Layout(Found)' /\ UNCHANGED <<Found, hash_items>>
  <2>1. Sizes' /\ Layout(S)'
    BY <1>2, <1>6, MoveNextLayout
  <2> QED BY <1>1, <1>2, <1>3, <1>6, <2>1 DEF do_assoc_move_next_bucket
<1> QED BY <1>4, <1>5, <1>6 DEF Next

LEMMA StepIInv == IInv /\ [Next]_vars => IInv'
<1> SUFFICES ASSUME IInv, [Next]_vars PROVE IInv'
  OBVIOUS
<1>1. CASE Next
  <2>1. Sizes' /\ Layout(Found)'
    BY <1>1, StepFound
  <2>2. IsFiniteSet(Found') /\ hash_items' = Cardinality(Found')
    <3>1. IsFiniteSet(Found) /\ hash_items = Cardinality(Found)
          /\ hash_items \in Nat
      BY FS_CardinalityType DEF IInv
    <3>2. ASSUME NEW k \in Keys, k \notin Found, Found' = Found \cup {k},
                 hash_items' = hash_items + 1
          PROVE  IsFiniteSet(Found') /\ hash_items' = Cardinality(Found')
      BY <3>1, <3>2, FS_AddElement
    <3>3. ASSUME NEW k \in Keys, k \in Found, Found' = Found \ {k},
                 hash_items' = hash_items - 1
          PROVE  IsFiniteSet(Found') /\ hash_items' = Cardinality(Found')
      BY <3>1, <3>3, FS_RemoveElement
    <3> QED BY <1>1, <3>1, <3>2, <3>3, StepFound
  <2> QED BY <2>1, <2>2 DEF IInv
<1>2. CASE UNCHANGED vars
  <2>1. UNCHANGED <<Sizes, Layout(Found), Found, hash_items>>
    BY <1>2 DEF vars, Sizes, Layout, Found, assoc_find, in_old, oldsize, Bucket
  <2> QED BY <2>1 DEF IInv
<1> QED BY <1>1, <1>2

\* The tables are laid out for the set of keys that lookups find, always.
THEOREM Invariance == Spec => []IInv
  BY InitIInv, StepIInv, PTL DEF Spec

----------------------------------------------------------------------------
LEMMA IInvChains == IInv => InOld \cup InPrimary = Found
<1> SUFFICES ASSUME IInv PROVE InOld \cup InPrimary = Found
  OBVIOUS
<1>1. Sizes /\ Layout(Found) /\ Found \subseteq Keys
  BY DEF IInv, Found
<1>2. ASSUME NEW k \in Found PROVE k \in InOld \cup InPrimary
  <2>1. Bucket(k, nbuckets) \in 0 .. nbuckets - 1
    BY <1>1, BucketRange DEF Sizes
  <2>2. CASE in_old(k)
    <3>1. expanding /\ Bucket(k, oldsize) \in 0 .. oldsize - 1
      BY <1>1, <2>2, OldsizeNat, BucketRange DEF in_old
    <3> QED BY <1>1, <2>2, <3>1 DEF Layout, InOld
  <2>3. CASE ~in_old(k)
    BY <1>1, <2>1, <2>3 DEF Layout, InPrimary
  <2> QED BY <2>2, <2>3
<1>3. InOld \subseteq Found
  BY <1>1 DEF InOld, Layout
<1>4. InPrimary \subseteq Found
  BY <1>1 DEF InPrimary, Layout
<1> QED BY <1>2, <1>3, <1>4

\* Every chained key is found by a lookup, before, during and after a growth
\* (assoc_find walks the table that assoc_insert and the mover filled).
THEOREM NeverStranded == Spec => []NothingStranded
<1>1. IInv => NothingStranded
  BY IInvChains DEF NothingStranded
<1> QED BY <1>1, Invariance, PTL

\* No key is on two chains, of one table or of both.
THEOREM NeverCopied == Spec => []NoSecondCopy
<1>1. IInv => NoSecondCopy
  <2> SUFFICES ASSUME IInv PROVE NoSecondCopy
    OBVIOUS
  <2>1. Sizes /\ Layout(Found)
    BY DEF IInv
  <2>2. InOld \cap InPrimary = {}
    BY <2>1 DEF Layout, InOld, InPrimary
  <2>3. \A b, c \in 0 .. nbuckets - 1 :
            b # c => primary_hashtable[b] \cap primary_hashtable[c] = {}
    BY <2>1 DEF Layout
  <2>4. expanding => \A b, c \in 0 .. oldsize - 1 :
            b # c => old_hashtable[b] \cap old_hashtable[c] = {}
    BY <2>1 DEF Layout
  <2> QED BY <2>2, <2>3, <2>4 DEF NoSecondCopy
<1> QED BY <1>1, Invariance, PTL

\* hash_items is the number of items on the chains.
THEOREM AlwaysCounted == Spec => []ItemsCounted
<1>1. IInv => ItemsCounted
  BY IInvChains DEF IInv, ItemsCounted
<1> QED BY <1>1, Invariance, PTL

\* The variables keep their types: in particular bucket numbers stay in range.
THEOREM TypeCorrect == Spec => []TypeOK
<1>1. IInv => TypeOK
  <2> SUFFICES ASSUME IInv PROVE TypeOK
    OBVIOUS
  <2>1. Sizes /\ Layout(Found) /\ Found \subseteq Keys
    BY DEF IInv, Found
  <2>2. primary_hashtable \in [0 .. nbuckets - 1 -> SUBSET Keys]
    BY <2>1 DEF Layout
  <2>3. old_hashtable \in [0 .. (IF expanding THEN oldsize ELSE 0) - 1
                              -> SUBSET Keys]
    BY <2>1 DEF Layout
  <2>4. hash_items \in Int
    BY FS_CardinalityType DEF IInv
  <2> QED BY <2>1, <2>2, <2>3, <2>4 DEF TypeOK, Sizes
<1> QED BY <1>1, Invariance, PTL

\* The two-table structure implements a set of keys (assoc.h's interface): every
\* operation changes what lookups find by its own key alone, and growing the
\* table and moving its buckets cannot be seen.
THEOREM ImplementsKeySet == Spec => IndexSpec
<1>1. Init => Index!Init
  <2> SUFFICES ASSUME Init PROVE Found = {}
    BY DEF Index!Init
  <2>1. \A k \in Keys : ~assoc_find(k)
    <3>1. \A k \in Keys : Bucket(k, nbuckets) \in 0 .. nbuckets - 1
      BY BucketRange, AssocAssumption DEF Init
    <3> QED BY <3>1 DEF Init, assoc_find, in_old, EmptyTable
  <2> QED BY <2>1 DEF Found
<1>2. IInv /\ [Next]_vars => [Index!Next]_Found
  <2> SUFFICES ASSUME IInv, [Next]_vars PROVE [Index!Next]_Found
    OBVIOUS
  <2>1. CASE Next
    BY <2>1, StepFound DEF Index!Next, Index!Insert, Index!Delete
  <2>2. CASE UNCHANGED vars
    BY <2>2 DEF vars, Found, assoc_find, in_old, oldsize, Bucket
  <2> QED BY <2>1, <2>2
<1> QED BY <1>1, <1>2, Invariance, PTL DEF Spec, IndexSpec, Index!Spec

----------------------------------------------------------------------------
(* The queue of items.c *)

Maybe == Items \cup {Null}

Queues == [heads : Maybe, tails : Maybe, sizes : Int,
           next : [Items -> Maybe], prev : [Items -> Maybe]]

\* Chained, of any queue q and set L of items.
IsChained(q, L) ==
    /\ (q.heads = Null) = (L = {}) /\ (q.tails = Null) = (L = {})
    /\ q.heads # Null => q.heads \in L /\ q.prev[q.heads] = Null
    /\ q.tails # Null => q.tails \in L /\ q.next[q.tails] = Null
    /\ \A i \in L :
        /\ IF q.next[i] = Null THEN q.tails = i
           ELSE q.next[i] \in L /\ q.prev[q.next[i]] = i
        /\ IF q.prev[i] = Null THEN q.heads = i
           ELSE q.prev[i] \in L /\ q.next[q.prev[i]] = i

\* InOrder, of any queue, with different times t.
IsOrdered(q, L, t) ==
    /\ \A i, j \in L : t[i] = t[j] => i = j
    /\ \A i \in L : t[i] <= t[q.heads] /\ t[i] >= t[q.tails]
    /\ \A i \in L : q.next[i] # Null =>
        /\ t[q.next[i]] < t[i]
        /\ \A j \in L : ~(t[q.next[i]] < t[j] /\ t[j] < t[i])

----------------------------------------------------------------------------
\* item_unlink_q takes an item out of a list and leaves a list.
LEMMA UnlinkChained ==
    ASSUME NEW q \in Queues, NEW L \in SUBSET Items, NEW t \in [Items -> Nat],
           IsChained(q, L), IsOrdered(q, L, t), NEW i \in L
    PROVE  /\ item_unlink_q(q, i) \in Queues
           /\ IsChained(item_unlink_q(q, i), L \ {i})
<1> DEFINE r == item_unlink_q(q, i)
           n == q.next[i]
           p == q.prev[i]
<1>1. /\ r.heads = IF q.heads = i THEN n ELSE q.heads
      /\ r.tails = IF q.tails = i THEN p ELSE q.tails
      /\ \A j \in Items : r.prev[j] = IF j = n THEN p ELSE q.prev[j]
      /\ \A j \in Items : r.next[j] = IF j = p THEN n ELSE q.next[j]
  BY DEF item_unlink_q
<1>2. /\ q.heads \in Maybe /\ q.tails \in Maybe /\ n \in Maybe /\ p \in Maybe
      /\ \A j \in Items : q.next[j] \in Maybe /\ q.prev[j] \in Maybe
      /\ Null \notin Items
  BY LruAssumption DEF Queues
<1>3. r \in Queues
  BY <1>2 DEF item_unlink_q, Queues
<1>4. \A j \in L : /\ q.next[j] # Null => q.next[j] \in L /\ q.prev[q.next[j]] = j
                   /\ q.prev[j] # Null => q.prev[j] \in L /\ q.next[q.prev[j]] = j
                   /\ q.next[j] = Null => q.tails = j
                   /\ q.prev[j] = Null => q.heads = j
  BY DEF IsChained
<1>5. /\ q.heads \in L /\ q.prev[q.heads] = Null
      /\ q.tails \in L /\ q.next[q.tails] = Null
  BY DEF IsChained
<1>6. \A j \in L : q.next[j] # j
  BY <1>2, <1>4 DEF IsOrdered
<1>7. n # i /\ p # i
  BY <1>2, <1>4, <1>6
<1>8. ASSUME NEW j \in L \ {i}
      PROVE  /\ IF r.next[j] = Null THEN r.tails = j
                ELSE r.next[j] \in L \ {i} /\ r.prev[r.next[j]] = j
             /\ IF r.prev[j] = Null THEN r.heads = j
                ELSE r.prev[j] \in L \ {i} /\ r.next[r.prev[j]] = j
  <2>1. CASE j = p
    BY <1>1, <1>2, <1>4, <1>5, <1>7, <2>1
  <2>2. CASE j # p
    BY <1>1, <1>2, <1>4, <1>5, <1>7, <2>2
  <2> QED BY <2>1, <2>2
<1>9. /\ (r.heads = Null) = (L \ {i} = {}) /\ (r.tails = Null) = (L \ {i} = {})
      /\ r.heads # Null => r.heads \in L \ {i} /\ r.prev[r.heads] = Null
      /\ r.tails # Null => r.tails \in L \ {i} /\ r.next[r.tails] = Null
  <2>1. r.heads # Null => r.heads \in L \ {i} /\ r.prev[r.heads] = Null
    BY <1>1, <1>2, <1>4, <1>5, <1>7
  <2>2. r.tails # Null => r.tails \in L \ {i} /\ r.next[r.tails] = Null
    BY <1>1, <1>2, <1>4, <1>5, <1>7
  <2>3. ASSUME r.heads = Null \/ r.tails = Null PROVE L = {i}
    <3>1. q.heads = i /\ q.tails = i
      BY <1>1, <1>2, <1>4, <1>5, <2>3
    <3>2. \A j \in L : t[j] = t[i]
      BY <3>1 DEF IsOrdered
    <3> QED BY <3>2 DEF IsOrdered
  <2> QED BY <2>1, <2>2, <2>3, <1>2
<1> QED BY <1>3, <1>8, <1>9 DEF IsChained

LEMMA UnlinkOrdered ==
    ASSUME NEW q \in Queues, NEW L \in SUBSET Items, NEW t \in [Items -> Nat],
           IsChained(q, L), IsOrdered(q, L, t), NEW i \in L
    PROVE  IsOrdered(item_unlink_q(q, i), L \ {i}, t)
<1> DEFINE r == item_unlink_q(q, i)
           n == q.next[i]
           p == q.prev[i]
<1>1. /\ r.heads = IF q.heads = i THEN n ELSE q.heads
      /\ r.tails = IF q.tails = i THEN p ELSE q.tails
      /\ \A j \in Items : r.next[j] = IF j = p THEN n ELSE q.next[j]
  BY DEF item_unlink_q
<1>2. /\ Null \notin Items
      /\ \A j \in Items : t[j] \in Nat
      /\ \A j \in L : q.next[j] \in Maybe /\ q.prev[j] \in Maybe
  BY LruAssumption DEF Queues
<1>3. \A j \in L : /\ q.next[j] # Null => q.next[j] \in L /\ q.prev[q.next[j]] = j
                   /\ q.prev[j] # Null => q.prev[j] \in L /\ q.next[q.prev[j]] = j
                   /\ q.next[j] = Null => q.tails = j
                   /\ q.prev[j] = Null => q.heads = j
  BY DEF IsChained
<1>4. q.heads \in L /\ q.tails \in L
  BY DEF IsChained
<1>5. /\ \A j, k \in L : t[j] = t[k] => j = k
      /\ \A j \in L : t[j] <= t[q.heads] /\ t[j] >= t[q.tails]
      /\ \A j \in L : q.next[j] # Null =>
          /\ t[q.next[j]] < t[j]
          /\ \A k \in L : ~(t[q.next[j]] < t[k] /\ t[k] < t[j])
  BY DEF IsOrdered
<1>6. ASSUME NEW j \in L \ {i} PROVE t[j] <= t[r.heads]
  <2>1. CASE q.heads = i
    <3>1. t[j] < t[i] /\ n # Null
      BY <1>2, <1>3, <1>4, <1>5, <2>1
    <3> QED BY <3>1, <2>1, <1>1, <1>2, <1>3, <1>5
  <2>2. CASE q.heads # i
    BY <2>2, <1>1, <1>5
  <2> QED BY <2>1, <2>2
<1>7. ASSUME NEW j \in L \ {i} PROVE t[j] >= t[r.tails]
  <2>1. CASE q.tails = i
    <3>1. t[i] < t[j] /\ p # Null
      BY <1>2, <1>3, <1>4, <1>5, <2>1
    <3>2. p \in L /\ q.next[p] = i
      BY <3>1, <1>3
    <3> QED BY <3>1, <3>2, <2>1, <1>1, <1>2, <1>3, <1>5
  <2>2. CASE q.tails # i
    BY <2>2, <1>1, <1>5
  <2> QED BY <2>1, <2>2
<1>8. ASSUME NEW j \in L \ {i}, r.next[j] # Null
      PROVE  /\ t[r.next[j]] < t[j]
             /\ \A k \in L \ {i} : ~(t[r.next[j]] < t[k] /\ t[k] < t[j])
  <2>1. CASE j = p
    <3>1. r.next[j] = n /\ n \in L /\ q.next[j] = i
      BY <2>1, <1>1, <1>2, <1>3, <1>8
    <3>2. t[n] < t[i] /\ t[i] < t[j] /\ j \in Items /\ n \in Items /\ i \in Items
      BY <3>1, <1>2, <1>3, <1>5
    <3>3. ASSUME NEW k \in L \ {i} PROVE ~(t[n] < t[k] /\ t[k] < t[j])
      <4>1. t[k] # t[i] /\ k \in Items
        BY <1>5
      <4>2. ~(t[n] < t[k] /\ t[k] < t[i]) /\ ~(t[i] < t[k] /\ t[k] < t[j])
        BY <3>1, <1>2, <1>5
      <4> QED BY <4>1, <4>2, <3>2, <1>2
    <3> QED BY <3>1, <3>2, <3>3, <1>2
  <2>2. CASE j # p
    BY <2>2, <1>1, <1>5, <1>8
  <2> QED BY <2>1, <2>2
<1> QED BY <1>5, <1>6, <1>7, <1>8 DEF IsOrdered

\* item_link_q puts an item that is newer than the others before a list.
LEMMA LinkChained ==
    ASSUME NEW q \in Queues, NEW L \in SUBSET Items,
           IsChained(q, L), NEW i \in Items \ L
    PROVE  /\ item_link_q(q, i) \in Queues
           /\ IsChained(item_link_q(q, i), L \cup {i})
<1> DEFINE r == item_link_q(q, i)
<1>1. /\ r.heads = i
      /\ r.tails = IF q.tails = Null THEN i ELSE q.tails
      /\ \A j \in Items : r.next[j] = IF j = i THEN q.heads ELSE q.next[j]
      /\ \A j \in Items : r.prev[j] = IF j = i THEN Null
                                      ELSE IF j = q.heads THEN i ELSE q.prev[j]
  BY DEF item_link_q, Queues
<1>2. /\ Null \notin Items /\ q.heads \in Maybe /\ q.tails \in Maybe
      /\ \A j \in Items : q.next[j] \in Maybe /\ q.prev[j] \in Maybe
  BY LruAssumption DEF Queues
<1>3. r \in Queues
  <2>1. [q.next EXCEPT ![i] = q.heads] \in [Items -> Maybe] /\ q.sizes + 1 \in Int
    BY <1>2 DEF Queues
  <2>2. (IF q.tails = Null THEN i ELSE q.tails) \in Maybe /\ i \in Maybe
    BY <1>2 DEF Maybe
  <2>3. [j \in Items |-> IF j = i THEN Null ELSE IF j = q.heads THEN i ELSE q.prev[j]]
            \in [Items -> Maybe]
    BY <1>2 DEF Maybe
  <2> QED BY <2>1, <2>2, <2>3 DEF item_link_q, Queues
<1>4. \A j \in L : /\ q.next[j] # Null => q.next[j] \in L /\ q.prev[q.next[j]] = j
                   /\ q.prev[j] # Null => q.prev[j] \in L /\ q.next[q.prev[j]] = j
                   /\ q.next[j] = Null => q.tails = j
                   /\ q.prev[j] = Null => q.heads = j
  BY DEF IsChained
<1>5. /\ (q.heads = Null) = (L = {}) /\ (q.tails = Null) = (L = {})
      /\ q.heads # Null => q.heads \in L /\ q.prev[q.heads] = Null
      /\ q.tails # Null => q.tails \in L /\ q.next[q.tails] = Null
  BY DEF IsChained
<1>6. ASSUME NEW j \in L \cup {i}
      PROVE  /\ IF r.next[j] = Null THEN r.tails = j
                ELSE r.next[j] \in L \cup {i} /\ r.prev[r.next[j]] = j
             /\ IF r.prev[j] = Null THEN r.heads = j
                ELSE r.prev[j] \in L \cup {i} /\ r.next[r.prev[j]] = j
  <2>1. CASE j = i
    BY <2>1, <1>1, <1>2, <1>5
  <2>2. CASE j \in L
    BY <2>2, <1>1, <1>2, <1>4, <1>5
  <2> QED BY <2>1, <2>2
<1>7. /\ (r.heads = Null) = (L \cup {i} = {}) /\ (r.tails = Null) = (L \cup {i} = {})
      /\ r.heads # Null => r.heads \in L \cup {i} /\ r.prev[r.heads] = Null
      /\ r.tails # Null => r.tails \in L \cup {i} /\ r.next[r.tails] = Null
  BY <1>1, <1>2, <1>5
<1> QED BY <1>3, <1>6, <1>7 DEF IsChained

LEMMA LinkOrdered ==
    ASSUME NEW q \in Queues, NEW L \in SUBSET Items, NEW t \in [Items -> Nat],
           NEW u \in [Items -> Nat], NEW i \in Items \ L,
           IsChained(q, L), IsOrdered(q, L, t),
           \A j \in L : u[j] = t[j] /\ t[j] < u[i]
    PROVE  IsOrdered(item_link_q(q, i), L \cup {i}, u)
<1> DEFINE r == item_link_q(q, i)
<1>1. /\ r.heads = i
      /\ r.tails = IF q.tails = Null THEN i ELSE q.tails
      /\ \A j \in Items : r.next[j] = IF j = i THEN q.heads ELSE q.next[j]
  BY DEF item_link_q, Queues
<1>2. /\ Null \notin Items
      /\ \A j \in Items : t[j] \in Nat /\ u[j] \in Nat
  BY LruAssumption
<1>3. /\ \A j \in L : q.next[j] # Null => q.next[j] \in L
      /\ q.heads # Null => q.heads \in L
      /\ (q.tails = Null) = (L = {})
      /\ q.tails # Null => q.tails \in L
  BY DEF IsChained
<1>4. /\ \A j, k \in L : t[j] = t[k] => j = k
      /\ \A j \in L : t[j] <= t[q.heads] /\ t[j] >= t[q.tails]
      /\ \A j \in L : q.next[j] # Null =>
          /\ t[q.next[j]] < t[j]
          /\ \A k \in L : ~(t[q.next[j]] < t[k] /\ t[k] < t[j])
  BY DEF IsOrdered
<1>5. \A j, k \in L \cup {i} : u[j] = u[k] => j = k
  BY <1>2, <1>4
<1>6. \A j \in L \cup {i} : u[j] <= u[r.heads] /\ u[j] >= u[r.tails]
  <2>1. \A j \in L \cup {i} : u[j] <= u[i]
    BY <1>2
  <2>2. CASE L = {}
    BY <2>2, <1>1, <1>2, <1>3
  <2>3. CASE L # {}
    <3>1. r.tails = q.tails /\ q.tails \in L
      BY <2>3, <1>1, <1>3
    <3> QED BY <3>1, <2>1, <1>1, <1>2, <1>4
  <2> QED BY <2>2, <2>3
<1>7. ASSUME NEW j \in L \cup {i}, r.next[j] # Null
      PROVE  /\ u[r.next[j]] < u[j]
             /\ \A k \in L \cup {i} : ~(u[r.next[j]] < u[k] /\ u[k] < u[j])
  <2>1. CASE j = i
    <3>1. r.next[j] = q.heads /\ q.heads \in L
      BY <2>1, <1>1, <1>3, <1>7
    <3> QED BY <3>1, <2>1, <1>2, <1>4
  <2>2. CASE j \in L
    <3>1. r.next[j] = q.next[j] /\ q.next[j] \in L
      BY <2>2, <1>1, <1>3, <1>7
    <3> QED BY <3>1, <2>2, <1>2, <1>4
  <2> QED BY <2>1, <2>2
<1> QED BY <1>5, <1>6, <1>7 DEF IsOrdered

----------------------------------------------------------------------------
WalkNames == {"none", "evict", "evicted", "repair", "flush"}

Typed ==
    /\ Queue \in Queues
    /\ linked \in SUBSET Items /\ held \in SUBSET Items
    /\ time \in [Items -> Nat] /\ now \in Nat
    /\ walk \in [by : WalkNames, iter : Maybe, tries : Nat, limit : Nat]

\* The linked items that a search from the tail has left behind at i.
Below(i) == IF i = Null THEN linked ELSE {j \in linked : time[j] < time[i]}

\* A search is at a linked item and has counted those it left behind, which an
\* eviction found held; a flush is at the head.
WalkRight ==
    /\ WalkInQueue
    /\ walk.by \in {"none", "evicted"} => walk.iter = Null
    /\ walk.by = "flush" => walk.iter = heads
    /\ walk.by = "evict" => /\ Below(walk.iter) \subseteq held
                            /\ Cardinality(Below(walk.iter)) = Tries - walk.tries

\* The inductive invariant.
LruInv ==
    /\ Typed
    /\ IsChained(Queue, linked) /\ IsOrdered(Queue, linked, time)
    /\ \A i \in linked : time[i] <= now
    /\ SizeExact
    /\ WalkRight

LEMMA LinkedFinite == Typed => /\ IsFiniteSet(linked) /\ Cardinality(linked) \in Nat
                               /\ IsFiniteSet(held) /\ Cardinality(held) \in Nat
BY LruAssumption, FS_Subset, FS_CardinalityType DEF Typed

\* What is asked of the queue, apart from the walks.
QueueRight ==
    /\ Typed
    /\ IsChained(Queue, linked) /\ IsOrdered(Queue, linked, time)
    /\ \A i \in linked : time[i] <= now
    /\ SizeExact

LEMMA LinkStep ==
    ASSUME QueueRight, NEW i \in Items, do_item_link(i) PROVE QueueRight'
<1> DEFINE r == item_link_q(Queue, i)
<1>1. /\ Queue' = r /\ linked' = linked \cup {i} /\ i \notin linked
      /\ time' = [time EXCEPT ![i] = now + 1] /\ now' = now + 1
      /\ held' = held /\ walk' = walk
  BY DEF do_item_link, Becomes, Newest, Queue, item_link_q
<1>2. r \in Queues /\ IsChained(r, linked \cup {i})
  BY <1>1, LinkChained DEF QueueRight, Typed
<1>3. /\ time' \in [Items -> Nat]
      /\ \A j \in linked : time'[j] = time[j] /\ time[j] < time'[i]
      /\ \A j \in linked' : time'[j] <= now'
  BY <1>1 DEF QueueRight, Typed
<1>4. IsOrdered(r, linked \cup {i}, time')
  BY <1>1, <1>3, LinkOrdered DEF QueueRight, Typed
<1>5. Typed'
  BY <1>1, <1>2, <1>3 DEF QueueRight, Typed
<1>6. Queue.sizes = sizes /\ r.sizes = sizes + 1 /\ Queue'.sizes = sizes'
  BY DEF item_link_q, Queue
<1>7. SizeExact'
  <2>1. Cardinality(linked \cup {i}) = Cardinality(linked) + 1
    BY <1>1, LinkedFinite, FS_AddElement DEF QueueRight
  <2>2. sizes' = sizes + 1
    BY <1>1, <1>6
  <2> QED BY <1>1, <2>1, <2>2 DEF SizeExact, QueueRight
<1> QED BY <1>1, <1>2, <1>3, <1>4, <1>5, <1>7 DEF QueueRight

\* An item is unlinked by a command, by a search or by a flush.
LEMMA UnlinkStep ==
    ASSUME QueueRight, NEW i \in linked, unlink(i),
           UNCHANGED <<time, now>>, held' \in SUBSET Items,
           walk' \in [by : WalkNames, iter : Maybe, tries : Nat, limit : Nat]
    PROVE  QueueRight'
<1> DEFINE r == item_unlink_q(Queue, i)
<1>1. Queue' = r /\ linked' = linked \ {i} /\ time' = time /\ now' = now
  BY DEF unlink, Becomes, Queue, item_unlink_q
<1>2. /\ r \in Queues /\ IsChained(r, linked \ {i}) /\ IsOrdered(r, linked \ {i}, time)
  BY UnlinkChained, UnlinkOrdered DEF QueueRight, Typed
<1>3. Typed'
  BY <1>1, <1>2 DEF QueueRight, Typed
<1>4. Queue.sizes = sizes /\ r.sizes = sizes - 1 /\ Queue'.sizes = sizes'
  BY DEF item_unlink_q, Queue
<1>5. SizeExact'
  BY <1>1, <1>4, LinkedFinite, FS_RemoveElement DEF SizeExact, QueueRight
<1> QED BY <1>1, <1>2, <1>3, <1>5 DEF QueueRight

LEMMA UpdateStep ==
    ASSUME QueueRight, NEW i \in Items, do_item_update(i) PROVE QueueRight'
<1> DEFINE o == item_unlink_q(Queue, i)
           L == linked \ {i}
           r == item_link_q(o, i)
<1>1. /\ Queue' = r /\ linked' = linked /\ i \in linked
      /\ time' = [time EXCEPT ![i] = now + 1] /\ now' = now + 1
      /\ held' = held /\ walk' = walk
  BY DEF do_item_update, move_to_head, Becomes, Newest, Queue, item_link_q
<1>2. o \in Queues /\ IsChained(o, L) /\ IsOrdered(o, L, time)
  BY <1>1, UnlinkChained, UnlinkOrdered DEF QueueRight, Typed
<1>3. L \cup {i} = linked /\ i \in Items \ L /\ L \in SUBSET Items
  BY <1>1 DEF QueueRight, Typed
<1>4. r \in Queues /\ IsChained(r, linked)
  BY <1>2, <1>3, LinkChained
<1>5. /\ time' \in [Items -> Nat]
      /\ \A j \in L : time'[j] = time[j] /\ time[j] < time'[i]
      /\ \A j \in linked' : time'[j] <= now'
  BY <1>1 DEF QueueRight, Typed
<1>6. IsOrdered(r, linked, time')
  BY <1>2, <1>3, <1>5, LinkOrdered DEF QueueRight, Typed
<1>7. Typed'
  BY <1>1, <1>4, <1>5 DEF QueueRight, Typed
<1>8. Queue.sizes = sizes /\ r.sizes = sizes /\ Queue'.sizes = sizes'
  BY DEF item_link_q, item_unlink_q, Queue, QueueRight, Typed, Queues
<1>9. SizeExact'
  <2>1. sizes' = sizes
    BY <1>1, <1>8
  <2> QED BY <1>1, <2>1 DEF SizeExact, QueueRight
<1> QED BY <1>1, <1>4, <1>5, <1>6, <1>7, <1>9 DEF QueueRight

\* A step that leaves the queue alone.
LEMMA StillStep ==
    ASSUME QueueRight, UNCHANGED <<queue, linked, time, now>>, held' \in SUBSET Items,
           walk' \in [by : WalkNames, iter : Maybe, tries : Nat, limit : Nat]
    PROVE  QueueRight'
BY DEF QueueRight, Typed, Queue, queue, SizeExact

----------------------------------------------------------------------------
\* The facts that the walks use of the queue.
LEMMA Ends ==
    ASSUME QueueRight
    PROVE  /\ heads \in Maybe /\ tails \in Maybe /\ Null \notin Items
           /\ (heads = Null) = (linked = {}) /\ (tails = Null) = (linked = {})
           /\ heads # Null => heads \in linked
           /\ tails # Null => tails \in linked
           /\ \A i \in linked : time[i] <= time[heads] /\ time[i] >= time[tails]
           /\ \A i, j \in linked : time[i] = time[j] => i = j
           /\ \A i \in linked : prev[i] = Null => heads = i
           /\ \A i \in linked : prev[i] # Null =>
                /\ prev[i] \in linked /\ time[i] < time[prev[i]]
                /\ \A j \in linked : ~(time[i] < time[j] /\ time[j] < time[prev[i]])
           /\ \A i \in linked : prev[i] \in Maybe /\ next[i] \in Maybe
           /\ linked \subseteq Items /\ \A i \in Items : time[i] \in Nat
<1>1. /\ Queue.heads = heads /\ Queue.tails = tails
      /\ Queue.next = next /\ Queue.prev = prev
  BY DEF Queue
<1>2. /\ heads \in Maybe /\ tails \in Maybe
      /\ next \in [Items -> Maybe] /\ prev \in [Items -> Maybe]
  BY <1>1 DEF QueueRight, Typed, Queues
<1>3. /\ (heads = Null) = (linked = {}) /\ (tails = Null) = (linked = {})
      /\ heads # Null => heads \in linked
      /\ tails # Null => tails \in linked
      /\ \A i \in linked : IF prev[i] = Null THEN heads = i
                           ELSE prev[i] \in linked /\ next[prev[i]] = i
  BY <1>1 DEF QueueRight, IsChained
<1>4. /\ \A i, j \in linked : time[i] = time[j] => i = j
      /\ \A i \in linked : time[i] <= time[heads] /\ time[i] >= time[tails]
      /\ \A i \in linked : next[i] # Null =>
            /\ time[next[i]] < time[i]
            /\ \A j \in linked : ~(time[next[i]] < time[j] /\ time[j] < time[i])
  BY <1>1 DEF QueueRight, IsOrdered
<1>5. Null \notin Items /\ linked \subseteq Items /\ \A i \in Items : time[i] \in Nat
  BY LruAssumption DEF QueueRight, Typed
<1> QED BY <1>2, <1>3, <1>4, <1>5

\* The turn of an eviction that passes a held item by.
LEMMA EvictTurn ==
    ASSUME QueueRight, WalkRight, walk.by = "evict", walk.iter # Null,
           walk.tries # 0, walk.iter \in held
    PROVE  LET p == prev[walk.iter] IN
           /\ Below(p) = Below(walk.iter) \cup {walk.iter}
           /\ walk.iter \notin Below(walk.iter)
           /\ Cardinality(Below(p)) = Tries - (walk.tries - 1)
<1> DEFINE i == walk.iter
           p == prev[i]
<1>1. i \in linked
  BY DEF WalkRight, WalkInQueue
<1>2. Below(i) = {j \in linked : time[j] < time[i]}
  BY DEF Below
<1>3. Below(p) = Below(i) \cup {i}
  <2>1. CASE p = Null
    <3>1. \A j \in linked : j = i \/ time[j] < time[i]
      BY <1>1, <2>1, Ends
    <3> QED BY <3>1, <1>1, <1>2, <2>1 DEF Below
  <2>2. CASE p # Null
    <3>1. \A j \in linked : time[j] < time[p] <=> (j = i \/ time[j] < time[i])
      BY <1>1, <2>2, Ends
    <3>2. Below(p) = {j \in linked : time[j] < time[p]}
      BY <2>2 DEF Below
    <3> QED BY <3>1, <3>2, <1>1, <1>2
  <2> QED BY <2>1, <2>2
<1>4. i \notin Below(i)
  BY <1>1, <1>2, Ends
<1>5. IsFiniteSet(Below(i))
  BY <1>2, LinkedFinite, FS_Subset DEF QueueRight
<1>6. Cardinality(Below(p)) = Cardinality(Below(i)) + 1
  BY <1>3, <1>4, <1>5, FS_AddElement
<1>7. Cardinality(Below(i)) = Tries - walk.tries /\ walk.tries \in Nat /\ Tries \in Nat
  BY LruAssumption DEF WalkRight, QueueRight, Typed
<1> QED BY <1>3, <1>4, <1>6, <1>7

LEMMA LruInvInit == LruInit => LruInv
<1> SUFFICES ASSUME LruInit PROVE LruInv
  OBVIOUS
<1>1. Typed
  BY DEF LruInit, Typed, Queue, Queues, Maybe, NoWalk, WalkNames
<1>2. IsChained(Queue, linked)
  BY DEF LruInit, IsChained, Queue
<1>3. IsOrdered(Queue, linked, time)
  BY DEF LruInit, IsOrdered
<1>4. SizeExact
  BY FS_EmptySet DEF LruInit, SizeExact
<1>5. WalkRight
  BY DEF LruInit, WalkRight, WalkInQueue, NoWalk
<1> QED BY <1>1, <1>2, <1>3, <1>4, <1>5 DEF LruInit, LruInv

\* Between two walks nothing is asked of the walk but that there is none.
LEMMA NoWalkRight == ASSUME walk.iter = Null, walk.by \in {"none", "evicted"} PROVE WalkRight
BY DEF WalkRight, WalkInQueue

LEMMA SearchStep == ASSUME LruInv, search PROVE LruInv'
<1> DEFINE i == walk.iter
<1>1. QueueRight /\ WalkRight
  BY DEF LruInv, QueueRight
<1>2. UNCHANGED <<time, now>> /\ walk.by \in {"evict", "repair"}
  BY DEF search, Searching
<1>3. ASSUME i = Null \/ walk.tries = 0 \/ fits_search(i), walk' = SearchDone
      PROVE  /\ walk' \in [by : WalkNames, iter : Maybe, tries : Nat, limit : Nat]
             /\ WalkRight'
  <2>1. SearchDone \in [by : WalkNames, iter : Maybe, tries : Nat, limit : Nat]
    BY DEF SearchDone, NoWalk, WalkNames, Maybe
  <2>2. walk'.iter = Null /\ walk'.by \in {"none", "evicted"}
    BY <1>3 DEF SearchDone, NoWalk
  <2> QED BY <1>3, <2>1, <2>2 DEF WalkRight, WalkInQueue
<1>4. CASE (i = Null \/ walk.tries = 0) /\ walk' = SearchDone /\ UNCHANGED <<queue, linked, held>>
  <2>1. QueueRight'
    BY <1>1, <1>2, <1>3, <1>4, StillStep DEF QueueRight, Typed
  <2> QED BY <2>1, <1>3, <1>4 DEF LruInv, QueueRight
<1>5. CASE i # Null /\ fits_search(i) /\ unlink(i) /\ held' = held \ {i} /\ walk' = SearchDone
  <2>1. i \in linked
    BY <1>1, <1>5 DEF WalkRight, WalkInQueue
  <2>2. QueueRight'
    BY <1>1, <1>2, <1>3, <1>5, <2>1, UnlinkStep DEF QueueRight, Typed
  <2> QED BY <2>2, <1>3, <1>5 DEF LruInv, QueueRight
<1>6. CASE /\ i # Null /\ walk.tries # 0 /\ ~fits_search(i)
           /\ walk' = [walk EXCEPT !.iter = search_next(i), !.tries = @ - 1]
           /\ UNCHANGED <<queue, linked, held>>
  <2>1. i \in linked
    BY <1>1, <1>6 DEF WalkRight, WalkInQueue
  <2>2. /\ walk \in [by : WalkNames, iter : Maybe, tries : Nat, limit : Nat]
        /\ prev[i] \in Maybe
    BY <1>1, <2>1, Ends DEF QueueRight, Typed
  <2>3. walk.tries - 1 \in Nat
    BY <2>2, <1>6
  <2>4. /\ walk' \in [by : WalkNames, iter : Maybe, tries : Nat, limit : Nat]
        /\ walk'.by = walk.by /\ walk'.iter = prev[i] /\ walk'.tries = walk.tries - 1
    BY <1>6, <2>2, <2>3 DEF search_next
  <2>5. QueueRight'
    BY <1>1, <1>2, <1>6, <2>4, StillStep DEF QueueRight, Typed
  <2>6. WalkInQueue'
    BY <1>1, <1>6, <2>1, <2>4, Ends DEF WalkInQueue
  <2>7. ASSUME walk'.by = "evict"
        PROVE  Below(walk.iter)' \subseteq held' /\ Cardinality(Below(walk.iter)') = Tries - walk'.tries
    <3>1. walk.by = "evict" /\ i \in held
      BY <1>6, <2>4, <2>7 DEF fits_search
    <3>2. /\ Below(prev[i]) = Below(i) \cup {i}
          /\ Cardinality(Below(prev[i])) = Tries - (walk.tries - 1)
      BY <3>1, <1>1, <1>6, EvictTurn
    <3>3. Below(walk.iter)' = Below(prev[i])
      BY <1>2, <1>6, <2>4 DEF Below
    <3> QED BY <3>1, <3>2, <3>3, <1>1, <1>6, <2>4 DEF WalkRight
  <2>8. WalkRight'
    BY <1>2, <2>4, <2>6, <2>7 DEF WalkRight
  <2> QED BY <2>5, <2>8 DEF LruInv, QueueRight
<1> QED BY <1>4, <1>5, <1>6 DEF search

LEMMA FlushStep == ASSUME LruInv, flush PROVE LruInv'
<1> DEFINE i == walk.iter
<1>1. QueueRight /\ WalkRight /\ walk.by = "flush" /\ i = heads
  BY DEF LruInv, QueueRight, flush, WalkRight
<1>2. UNCHANGED <<held, time, now>>
  BY DEF flush
<1>3. CASE /\ i # Null /\ walk' = [walk EXCEPT !.iter = after_flushed(i)] /\ unlink(i)
  <2>1. i \in linked
    BY <1>1, <1>3, Ends
  <2>2. /\ walk \in [by : WalkNames, iter : Maybe, tries : Nat, limit : Nat]
        /\ next[i] \in Maybe
    BY <1>1, <2>1, Ends DEF QueueRight, Typed
  <2>3. /\ walk' \in [by : WalkNames, iter : Maybe, tries : Nat, limit : Nat]
        /\ walk'.by = "flush" /\ walk'.iter = next[i]
    BY <1>1, <1>3, <2>2 DEF after_flushed
  <2>4. heads' = next[i]
    BY <1>1, <1>3 DEF unlink, Becomes, item_unlink_q, Queue
  <2>5. QueueRight'
    BY <1>1, <1>2, <1>3, <2>1, <2>3, UnlinkStep DEF QueueRight, Typed
  <2>6. heads' # Null => heads' \in linked'
    <3>1. /\ heads' = Queue'.heads
          /\ (Queue'.heads) # Null => (Queue'.heads) \in linked'
      BY <2>5 DEF QueueRight, IsChained, Queue
    <3> QED BY <3>1
  <2>7. WalkRight'
    BY <2>3, <2>4, <2>6 DEF WalkRight, WalkInQueue
  <2> QED BY <2>5, <2>7 DEF LruInv, QueueRight
<1>4. CASE walk' = NoWalk /\ UNCHANGED <<queue, linked>>
  <2>1. /\ walk' \in [by : WalkNames, iter : Maybe, tries : Nat, limit : Nat]
        /\ walk'.iter = Null /\ walk'.by = "none"
    BY <1>4 DEF NoWalk, WalkNames, Maybe
  <2>2. QueueRight'
    BY <1>1, <1>2, <1>4, <2>1, StillStep DEF QueueRight, Typed
  <2>3. WalkRight'
    BY <2>1 DEF WalkRight, WalkInQueue
  <2> QED BY <2>2, <2>3 DEF LruInv, QueueRight
<1> QED BY <1>3, <1>4 DEF flush

\* The steps that begin a walk, or end one between two searches.
LEMMA WalkStep ==
    ASSUME LruInv, NEW limit \in Nat,
           evict_begin \/ repair_begin(limit) \/ evict_end \/ flush_begin(limit)
    PROVE  LruInv'
<1>1. QueueRight /\ UNCHANGED <<queue, linked, held, time, now>>
  BY DEF LruInv, QueueRight, evict_begin, repair_begin, evict_end, flush_begin
<1>2. Tries \in Nat /\ heads \in Maybe /\ tails \in Maybe
  BY <1>1, LruAssumption, Ends
<1>3. walk' \in [by : WalkNames, iter : Maybe, tries : Nat, limit : Nat]
  BY <1>2 DEF evict_begin, repair_begin, evict_end, flush_begin, NoWalk, WalkNames, Maybe
<1>4. QueueRight'
  BY <1>1, <1>3, StillStep DEF QueueRight, Typed
<1>5. heads' = heads /\ linked' = linked /\ held' = held /\ time' = time
  BY <1>1 DEF queue
<1>6. WalkInQueue'
  BY <1>1, <1>5, Ends DEF evict_begin, repair_begin, evict_end, flush_begin, NoWalk, WalkInQueue
<1>7. ASSUME walk'.by = "evict"
      PROVE  Below(walk.iter)' = {} /\ walk'.tries = Tries
  <2>1. walk'.iter = tails /\ walk'.tries = Tries /\ tails # Null
    BY <1>7 DEF evict_begin, repair_begin, evict_end, flush_begin, NoWalk
  <2>2. \A j \in linked : ~(time[j] < time[tails])
    BY <1>1, <2>1, Ends
  <2> QED BY <1>5, <2>1, <2>2 DEF Below
<1>8. walk'.by \in {"none", "evicted"} => walk'.iter = Null
  BY DEF evict_begin, repair_begin, evict_end, flush_begin, NoWalk
<1>9. walk'.by = "flush" => walk'.iter = heads'
  BY <1>5 DEF evict_begin, repair_begin, evict_end, flush_begin, NoWalk
<1>10. WalkRight'
  <2>1. ASSUME walk'.by = "evict"
        PROVE  /\ Below(walk.iter)' \subseteq held'
               /\ Cardinality(Below(walk.iter)') = Tries - walk'.tries
    BY <2>1, <1>2, <1>7, FS_EmptySet
  <2> QED BY <2>1, <1>6, <1>8, <1>9 DEF WalkRight
<1> QED BY <1>4, <1>10 DEF LruInv, QueueRight

\* The operations happen between the walks.
LEMMA OperationStep ==
    ASSUME LruInv, NEW i \in Items,
           do_item_link(i) \/ do_item_unlink(i) \/ do_item_update(i) \/ reference(i)
    PROVE  LruInv'
<1>1. QueueRight /\ walk.by = "none" /\ walk' = walk /\ walk.iter = Null
  BY DEF LruInv, QueueRight, WalkRight, Idle,
         do_item_link, do_item_unlink, do_item_update, reference
<1>2. WalkRight'
  BY <1>1 DEF WalkRight, WalkInQueue
<1>3. CASE do_item_link(i)
  BY <1>1, <1>2, <1>3, LinkStep DEF LruInv, QueueRight
<1>4. CASE do_item_unlink(i)
  <2>1. QueueRight'
    BY <1>1, <1>4, UnlinkStep DEF do_item_unlink, QueueRight, Typed
  <2> QED BY <2>1, <1>2 DEF LruInv, QueueRight
<1>5. CASE do_item_update(i)
  BY <1>1, <1>2, <1>5, UpdateStep DEF LruInv, QueueRight
<1>6. CASE reference(i)
  <2>1. QueueRight'
    BY <1>1, <1>6, StillStep DEF reference, QueueRight, Typed
  <2> QED BY <2>1, <1>2 DEF LruInv, QueueRight
<1> QED BY <1>3, <1>4, <1>5, <1>6

LEMMA LruInvStep == LruInv /\ [LruNext]_lruVars => LruInv'
<1> SUFFICES ASSUME LruInv, [LruNext]_lruVars PROVE LruInv'
  OBVIOUS
<1>1. CASE UNCHANGED lruVars
  BY <1>1 DEF lruVars, queue, LruInv, Typed, Queue, SizeExact, WalkRight, WalkInQueue, Below
<1>2. ASSUME NEW i \in Items,
             do_item_link(i) \/ do_item_unlink(i) \/ do_item_update(i) \/ reference(i)
      PROVE  LruInv'
  BY <1>2, OperationStep
<1>3. CASE search
  BY <1>3, SearchStep
<1>4. CASE flush
  BY <1>4, FlushStep
<1>5. CASE \E limit \in 1 .. MaxTime : repair_begin(limit) \/ flush_begin(limit)
  <2>1. 1 .. MaxTime \subseteq Nat
    BY LruAssumption
  <2> QED BY <1>5, <2>1, WalkStep
<1>6. CASE evict_begin \/ evict_end
  <2>1. 0 \in Nat
    OBVIOUS
  <2> QED BY <1>6, <2>1, WalkStep
<1> QED BY <1>1, <1>2, <1>3, <1>4, <1>5, <1>6 DEF LruNext

LEMMA LruInvariance == LruSpec => []LruInv
BY LruInvInit, LruInvStep, PTL DEF LruSpec

----------------------------------------------------------------------------
\* The pointers of the queue are a list of the linked items, read from either
\* end, whatever is linked, moved, evicted, repaired or flushed.
THEOREM AlwaysChained == LruSpec => []Chained
<1>1. LruInv => Chained
  BY DEF LruInv, IsChained, Chained, Queue
<1> QED BY <1>1, LruInvariance, PTL

\* The list is in the order in which items were linked or moved to the head.
THEOREM AlwaysInOrder == LruSpec => []InOrder
<1>1. LruInv => InOrder
  BY DEF LruInv, IsOrdered, InOrder, Queue
<1> QED BY <1>1, LruInvariance, PTL

\* sizes is the number of linked items.
THEOREM AlwaysSizeExact == LruSpec => []SizeExact
<1>1. LruInv => SizeExact
  BY DEF LruInv
<1> QED BY <1>1, LruInvariance, PTL

\* No walk along the queue comes to an item that is not in it.
THEOREM AlwaysWalkInQueue == LruSpec => []WalkInQueue
<1>1. LruInv => WalkInQueue
  BY DEF LruInv, WalkRight
<1> QED BY <1>1, LruInvariance, PTL

\* Eviction takes the least recently used of the items that nobody holds, and
\* gives up only when it has met as many held items as it may, or all are held.
THEOREM AlwaysEvictsOldest == LruSpec => EvictsOldest
<1> DEFINE A ==
      walk.by = "evict" =>
        /\ \A i \in linked \ linked' :
            i \notin held /\ \A j \in linked : time[j] < time[i] => j \in held
        /\ walk'.by = "evicted" /\ linked' = linked =>
            linked \subseteq held \/ Cardinality(held) >= Tries
<1>1. ASSUME LruInv, [LruNext]_lruVars PROVE [A]_lruVars
  <2>1. SUFFICES ASSUME LruNext, walk.by = "evict" PROVE A
    BY <1>1
  <2> DEFINE i == walk.iter
  <2>2. search
    BY <2>1 DEF LruNext, Idle, do_item_link, do_item_unlink, do_item_update, reference,
                evict_begin, evict_end, repair_begin, flush_begin, flush
  <2>3. QueueRight /\ WalkRight
    BY <1>1 DEF LruInv, QueueRight
  <2>4. CASE i # Null /\ fits_search(i) /\ unlink(i) /\ held' = held \ {i} /\ walk' = SearchDone
    <3>1. i \notin held /\ i \in linked /\ linked' = linked \ {i}
      BY <2>1, <2>3, <2>4 DEF fits_search, unlink, WalkRight, WalkInQueue
    <3>2. \A j \in linked : time[j] < time[i] => j \in held
      BY <2>1, <2>3, <2>4 DEF WalkRight, Below
    <3>3. \A j \in linked \ linked' : j = i
      BY <3>1
    <3>4. linked' # linked
      BY <3>1
    <3> QED BY <3>1, <3>2, <3>3, <3>4
  <2>5. CASE (i = Null \/ walk.tries = 0) /\ walk' = SearchDone /\ UNCHANGED <<queue, linked, held>>
    <3>1. ASSUME i = Null PROVE linked \subseteq held
      BY <3>1, <2>1, <2>3 DEF WalkRight, Below
    <3>2. ASSUME walk.tries = 0 PROVE Cardinality(held) >= Tries
      <4>1. Below(i) \subseteq held /\ Cardinality(Below(i)) = Tries
        BY <3>2, <2>1, <2>3, LruAssumption DEF WalkRight
      <4>2. IsFiniteSet(held) /\ Cardinality(held) \in Nat
        BY <2>3, LinkedFinite DEF QueueRight
      <4>3. Cardinality(Below(i)) <= Cardinality(held)
        BY <4>1, <4>2, FS_Subset
      <4> QED BY <4>1, <4>2, <4>3, LruAssumption
    <3> QED BY <3>1, <3>2, <2>5
  <2>6. CASE /\ walk' = [walk EXCEPT !.iter = search_next(i), !.tries = @ - 1]
             /\ UNCHANGED <<queue, linked, held>>
    <3>1. walk'.by = "evict"
      BY <2>1, <2>3, <2>6 DEF QueueRight, Typed
    <3> QED BY <3>1, <2>6
  <2> QED BY <2>2, <2>4, <2>5, <2>6 DEF search
<1> QED BY <1>1, LruInvariance, PTL DEF LruSpec, EvictsOldest

\* flush_all leaves no item linked whose time is not before its limit, though
\* its loop ends at the first item that is.
THEOREM AlwaysFlushTakesAll == LruSpec => FlushTakesAll
<1> DEFINE A == walk.by = "flush" /\ walk'.by = "none" =>
                  \A i \in linked' : time[i] < walk.limit
<1>1. ASSUME LruInv, [LruNext]_lruVars PROVE [A]_lruVars
  <2>1. SUFFICES ASSUME LruNext, walk.by = "flush", walk'.by = "none" PROVE A
    BY <1>1
  <2>2. flush
    BY <2>1 DEF LruNext, Idle, do_item_link, do_item_unlink, do_item_update, reference,
                evict_begin, evict_end, repair_begin, flush_begin, search, Searching
  <2>3. QueueRight /\ walk.iter = heads /\ walk.limit \in Nat
    BY <1>1, <2>1 DEF LruInv, QueueRight, WalkRight, Typed
  <2>4. ~(walk.iter # Null /\ time[walk.iter] >= walk.limit) /\ linked' = linked
    BY <2>1, <2>2, <2>3 DEF flush, QueueRight, Typed
  <2>5. \A i \in linked : heads \in linked /\ time[i] <= time[heads]
    BY <2>3, Ends
  <2>6. \A i \in linked : time[i] < walk.limit
    BY <2>3, <2>4, <2>5, Ends
  <2> QED BY <2>4, <2>6
<1> QED BY <1>1, LruInvariance, PTL DEF LruSpec, FlushTakesAll
=============================================================================
