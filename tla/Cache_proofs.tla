---------------------------- MODULE Cache_proofs ----------------------------
(***************************************************************************)
(* Proofs about the commands of memcached, for any connections, keys,      *)
(* items, values and times and every interleaving of the commands' steps,  *)
(* the clock and the delete timer.                                         *)
(*                                                                         *)
(* First: flags, hash table and LRU list agree, reference counts are       *)
(* exact, and the items marked deleted are those in the delete queue.      *)
(* items.c is proved function by function: each turns a sound cache into a *)
(* sound one, or an assertion stops the server (Goes).  It is said with it *)
(* what becomes of the reference counts and of the queued items.  The      *)
(* steps of the commands are then steps from one count to another, and     *)
(* IInv adds who holds what.                                               *)
(*                                                                         *)
(* Second: what lookups return is LossyStore, and a delete lock holds.     *)
(* Again it goes function by function: each leaves the item of a key as it *)
(* was or takes it out, but for one key, which may get a new cas id, and   *)
(* gives at most one chunk another key (Does).                             *)
(*                                                                         *)
(* Third: types, the delete queue and flush_all.  Each function changes    *)
(* data and cas ids of two chunks at most (Stamps), and keeps the list in  *)
(* the order of use (Tidy).                                                *)
(***************************************************************************)
EXTENDS Cache, TLAPS, WellFoundedInduction, SequenceTheorems, FiniteSetTheorems

----------------------------------------------------------------------------
(* Lists without repetition *)

\* The sequence has each item of S once, and no other.
Lists(seq, S) ==
    /\ seq \in Seq(Items)
    /\ \A n \in 1 .. Len(seq) : seq[n] \in S
    /\ \A i \in S : \E n \in 1 .. Len(seq) : seq[n] = i
    /\ \A m, n \in 1 .. Len(seq) : seq[m] = seq[n] => m = n

\* Two sequences, one behind the other.
LEMMA Joined ==
    ASSUME NEW S, NEW a \in Seq(S), NEW b \in Seq(S)
    PROVE  /\ a \o b \in Seq(S) /\ Len(a \o b) = Len(a) + Len(b)
           /\ \A i \in 1 .. Len(a) : (a \o b)[i] = a[i]
           /\ \A i \in 1 .. Len(b) : (a \o b)[Len(a) + i] = b[i]
  OBVIOUS

\* A new head.
LEMMA ListsPush ==
    ASSUME NEW seq, NEW S, Lists(seq, S), NEW i \in Items, i \notin S
    PROVE  Lists(<<i>> \o seq, S \cup {i})
  <1> DEFINE new == <<i>> \o seq
             l == Len(seq)
  <1>1. seq \in Seq(Items) /\ l \in Nat
    BY DEF Lists
  <1>2. /\ new \in Seq(Items) /\ Len(new) = l + 1 /\ new[1] = i
        /\ \A n \in 1 .. l : new[n + 1] = seq[n]
    BY <1>1
  <1> HIDE DEF new
  <1>3. \A n \in 1 .. l + 1 : n = 1 \/ (n - 1 \in 1 .. l /\ new[n] = seq[n - 1])
    <2> TAKE n \in 1 .. l + 1
    <2>1. CASE n # 1
      <3> DEFINE m == n - 1
      <3>1. m \in 1 .. l /\ n = m + 1
        BY <1>1, <2>1
      <3> QED
        BY <1>2, <3>1
    <2> QED
      BY <2>1
  <1>4. \A n \in 1 .. l + 1 : new[n] \in S \cup {i}
    BY <1>2, <1>3 DEF Lists
  <1>5. \A j \in S \cup {i} : \E n \in 1 .. l + 1 : new[n] = j
    <2> TAKE j \in S \cup {i}
    <2>1. CASE j = i
      BY <1>1, <1>2, <2>1
    <2>2. CASE j \in S
      <3>1. PICK n \in 1 .. l : seq[n] = j
        BY <2>2 DEF Lists
      <3>2. n + 1 \in 1 .. l + 1
        BY <1>1
      <3> QED
        BY <1>2, <3>1, <3>2
    <2> QED
      BY <2>1, <2>2
  <1>6. ASSUME NEW m \in 1 .. l + 1, NEW n \in 1 .. l + 1, new[m] = new[n] PROVE m = n
    <2>1. \A a \in 1 .. l : seq[a] # i
      BY DEF Lists
    <2>2. CASE m = 1 \/ n = 1
      BY <1>2, <1>3, <1>6, <2>1, <2>2
    <2>3. CASE m # 1 /\ n # 1
      <3>1. m - 1 \in 1 .. l /\ n - 1 \in 1 .. l /\ seq[m - 1] = seq[n - 1]
        BY <1>3, <1>6, <2>3
      <3>2. m - 1 = n - 1
        BY <3>1 DEF Lists
      <3> QED
        BY <3>2
    <2> QED
      BY <2>2, <2>3
  <1> QED
    BY <1>2, <1>4, <1>5, <1>6 DEF Lists, new

\* A place less.
LEMMA ListsRemove ==
    ASSUME NEW seq, NEW S, Lists(seq, S), NEW k \in 1 .. Len(seq)
    PROVE  Lists(SubSeq(seq, 1, k - 1) \o SubSeq(seq, k + 1, Len(seq)), S \ {seq[k]})
  <1> DEFINE l == Len(seq)
             a == SubSeq(seq, 1, k - 1)
             b == SubSeq(seq, k + 1, l)
             new == a \o b
             i == seq[k]
  <1>1. seq \in Seq(Items) /\ l \in Nat /\ k \in 1 .. l
    BY DEF Lists
  <1>2. /\ a \in Seq(Items) /\ Len(a) = k - 1 /\ \A n \in 1 .. k - 1 : a[n] = seq[n]
    <2>1. k - 1 \in Nat /\ k - 1 <= l
      BY <1>1
    <2> DEFINE h == k - 1
    <2>2. h \in Nat /\ h <= l
      BY <2>1
    <2> HIDE DEF h
    <2>3. SubSeq(seq, 1, h) \in Seq(Items) /\ Len(SubSeq(seq, 1, h)) = h
          /\ \A n \in 1 .. h : SubSeq(seq, 1, h)[n] = seq[n]
      BY <1>1, <2>2
    <2> QED
      BY <2>3 DEF h
  <1>3. /\ b \in Seq(Items) /\ Len(b) = l - k /\ \A n \in 1 .. l - k : b[n] = seq[k + n]
    <2> DEFINE h == k + 1
    <2>1. h \in 1 .. l + 1 /\ l \in h - 1 .. l
      BY <1>1
    <2>2. /\ SubSeq(seq, h, l) \in Seq(Items) /\ Len(SubSeq(seq, h, l)) = l - h + 1
          /\ \A n \in 1 .. l - h + 1 : SubSeq(seq, h, l)[n] = seq[h + n - 1]
      <3> HIDE DEF h
      <3>1. \A x \in 1 .. Len(seq) : seq[x] \in Items
        BY <1>1
      <3> QED
        BY <1>1, <2>1, <3>1, SubSeqProperties
    <2>3. l - h + 1 = l - k /\ \A n \in 1 .. l - k : h + n - 1 = k + n
      BY <1>1
    <2> QED
      BY <2>2, <2>3
  <1> HIDE DEF a, b
  <1>4. /\ new \in Seq(Items) /\ Len(new) = l - 1
        /\ \A n \in 1 .. k - 1 : new[n] = seq[n]
        /\ \A n \in 1 .. l - k : new[k - 1 + n] = seq[k + n]
    <2> DEFINE p == k - 1
               q == l - k
    <2>1. /\ new \in Seq(Items) /\ Len(new) = Len(a) + Len(b)
          /\ \A n \in 1 .. Len(a) : new[n] = a[n]
          /\ \A n \in 1 .. Len(b) : new[Len(a) + n] = b[n]
      <3>1. a \in Seq(Items) /\ b \in Seq(Items)
        BY <1>2, <1>3
      <3> QED
        BY <3>1, Joined
    <2>2. Len(a) = p /\ Len(b) = q /\ p + q = l - 1
      BY <1>1, <1>2, <1>3
    <2> HIDE DEF p, q, new
    <2>3. /\ new \in Seq(Items) /\ Len(new) = l - 1
          /\ \A n \in 1 .. p : new[n] = a[n]
          /\ \A n \in 1 .. q : new[p + n] = b[n]
      BY <2>1, <2>2
    <2> QED
      BY <1>2, <1>3, <2>3 DEF p, q
  <1> HIDE DEF new
  <1>5. \A n \in 1 .. l - 1 : \/ n < k /\ new[n] = seq[n]
                              \/ n >= k /\ n + 1 \in 1 .. l /\ new[n] = seq[n + 1]
    <2> TAKE n \in 1 .. l - 1
    <2>1. CASE n < k
      BY <1>1, <1>4, <2>1
    <2>2. CASE n >= k
      <3> DEFINE m == n - k + 1
      <3>1. m \in 1 .. l - k /\ k - 1 + m = n /\ k + m = n + 1
        BY <1>1, <2>2
      <3> HIDE DEF m
      <3>2. new[k - 1 + m] = seq[k + m]
        BY <1>4, <3>1
      <3> QED
        BY <1>1, <2>2, <3>1, <3>2
    <2> QED
      BY <1>1, <2>1, <2>2
  <1>6. \A m, n \in 1 .. l : seq[m] = seq[n] => m = n
    BY DEF Lists
  <1>7. \A n \in 1 .. l - 1 : new[n] \in S \ {i}
    <2> TAKE n \in 1 .. l - 1
    <2>1. \A m \in 1 .. l : m # k => seq[m] \in S \ {i}
      BY <1>1, <1>6 DEF Lists
    <2> QED
      BY <1>1, <1>5, <2>1
  <1>8. \A j \in S \ {i} : \E n \in 1 .. l - 1 : new[n] = j
    <2> TAKE j \in S \ {i}
    <2>1. PICK m \in 1 .. l : seq[m] = j
      BY DEF Lists
    <2>2. CASE m < k
      <3>1. m \in 1 .. l - 1 /\ m \in 1 .. k - 1
        BY <1>1, <2>2
      <3>2. new[m] = seq[m]
        BY <1>4, <3>1
      <3> QED
        BY <2>1, <3>1, <3>2
    <2>3. CASE m > k
      <3>1. m - 1 \in 1 .. l - 1 /\ m - 1 >= k /\ (m - 1) + 1 = m
        BY <1>1, <2>3
      <3> DEFINE n == m - 1
      <3>2. n \in 1 .. l - 1 /\ n >= k /\ n + 1 = m /\ ~(n < k)
        BY <1>1, <3>1
      <3> HIDE DEF n
      <3>3. new[n] = seq[m]
        BY <1>5, <3>2
      <3> QED
        BY <2>1, <3>2, <3>3
    <2>4. m # k /\ m \in Nat /\ k \in Nat
      BY <1>1, <2>1
    <2> QED
      BY <2>2, <2>3, <2>4
  <1>9. ASSUME NEW m \in 1 .. l - 1, NEW n \in 1 .. l - 1, new[m] = new[n] PROVE m = n
    <2>1. m \in 1 .. l /\ n \in 1 .. l
      BY <1>1
    <2> QED
      BY <1>1, <1>5, <1>6, <1>9, <2>1
  <1> QED
    BY <1>4, <1>7, <1>8, <1>9 DEF Lists, new, a, b

----------------------------------------------------------------------------
(* Sound caches; assertions and item_free *)

\* The fields of the record c of items.c.
Fields == {"free", "linked", "deleted", "refcount", "key", "data", "time", "exptime",
           "cas_id", "table", "lru", "last_cas", "halted"}

\* c is a record with these fields.
Shape(c) == c = [f \in Fields |-> c[f]]

\* The types that the proofs need.
Typed(c) ==
    /\ c.free \subseteq Items /\ c.linked \subseteq Items /\ c.deleted \subseteq Items
    /\ c.refcount \in [Items -> Nat] /\ c.key \in [Items -> Keys \cup {Null}]
    /\ c.table \in [Keys -> Items \cup {Null}] /\ c.time \in [Items -> Nat]

\* Flags, table and LRU list agree.
Linked(c) ==
    /\ c.free \cap c.linked = {}
    /\ \A i \in Items : i \notin c.free => c.key[i] \in Keys
    /\ \A k \in Keys : c.table[k] # Null => c.table[k] \in c.linked /\ c.key[c.table[k]] = k
    /\ \A i \in c.linked : c.table[c.key[i]] = i
    /\ Lists(c.lru, c.linked)

\* What is not linked and not held is free, but for X.
FreeBut(c, X) ==
    /\ \A i \in Items \ X : i \in c.free <=> i \notin c.linked /\ c.refcount[i] = 0
    /\ \A i \in c.deleted \ c.free : c.refcount[i] # 0

\* No linked item is old enough for tail repair.
Young(c) == EvictToFree => \A i \in c.linked : c.time[i] + RepairAge >= current_time

\* A cache between two calls.
Sound(c) == Typed(c) /\ Linked(c) /\ FreeBut(c, {}) /\ Young(c)

\* A server that stopped, or a sound cache.
Fine(c) == Shape(c) /\ (c.halted = "no" => Sound(c))

\* The items that are marked deleted; a free chunk may keep the mark.
Queued(c) == c.deleted \ c.free

\* From c to d references become refs.
Goes(c, d, refs) ==
    /\ Shape(d)
    /\ d.halted = "no" =>
          /\ c.halted = "no" /\ Sound(d)
          /\ d.refcount = refs /\ Queued(d) = Queued(c)

\* An assertion that holds changes nothing; one that fails stops the server.
LEMMA Expects ==
    ASSUME NEW c, Shape(c), NEW holds, NEW name, name # "no", NEW e, e = Expect(c, holds, name)
    PROVE  /\ Shape(e) /\ (e.halted = "no" => e = c /\ holds)
           /\ (c.halted # "no" => e = c) /\ (holds => e = c)
  <1>1. CASE holds \/ c.halted # "no"
    BY <1>1 DEF Expect
  <1>2. CASE ~(holds \/ c.halted # "no")
    <2>1. e = [c EXCEPT !.halted = name]
      BY <1>2 DEF Expect
    <2>2. Shape(e) /\ e.halted = name
      BY <2>1 DEF Shape, Fields
    <2> QED
      BY <1>2, <2>2
  <1> QED
    BY <1>1, <1>2

\* What item_free of i makes of c.
Freed(c, i, e) ==
    /\ Shape(e)
    /\ e.halted = "no" => c.halted = "no" /\ i \notin c.linked /\ c.refcount[i] = 0
    /\ /\ c.halted = "no" /\ i \notin c.linked /\ c.refcount[i] = 0
       /\ Lists(c.lru, c.linked)
       => e.halted = "no"
    /\ e.free = c.free \cup {i} /\ e.linked = c.linked /\ e.deleted = c.deleted
    /\ e.refcount = c.refcount /\ e.key = [c.key EXCEPT ![i] = Null]
    /\ e.time = [c.time EXCEPT ![i] = 0] /\ e.exptime = c.exptime
    /\ e.table = c.table /\ e.lru = c.lru

\* item_free stops the server unless the item is out of use.
LEMMA Frees ==
    ASSUME NEW c, Shape(c), NEW i \in Items
    PROVE  Freed(c, i, item_free(c, i))
  <1> DEFINE ends == {c.lru[n] : n \in DOMAIN c.lru \cap {1, Len(c.lru)}}
             holds == i \notin c.linked \cup ends /\ c.refcount[i] = 0
             d == Expect(c, holds, "item_free")
             e == item_free(c, i)
  <1>1. e = [d EXCEPT !.free = @ \cup {i}, !.key[i] = Null, !.data[i] = <<>>,
                      !.time[i] = 0, !.cas_id[i] = 0]
    BY DEF item_free
  <1>2. /\ Shape(d) /\ (d.halted = "no" => d = c /\ holds)
        /\ (c.halted # "no" => d = c) /\ (holds => d = c)
    <2>1. "item_free" # "no"
      OBVIOUS
    <2> HIDE DEF holds
    <2> QED
      BY <2>1, Expects
  <1>3. \A f \in Fields \ {"halted"} : d[f] = c[f]
    <2> HIDE DEF holds
    <2> QED
      BY DEF Expect, Shape, Fields
  <1>4. Lists(c.lru, c.linked) => ends \subseteq c.linked
    <2> SUFFICES ASSUME Lists(c.lru, c.linked) PROVE ends \subseteq c.linked
      OBVIOUS
    <2>1. DOMAIN c.lru = 1 .. Len(c.lru)
      BY DEF Lists
    <2> QED
      BY <2>1 DEF Lists
  <1>5. (i \notin c.linked /\ c.refcount[i] = 0 /\ Lists(c.lru, c.linked)) => holds
    BY <1>4
  <1>6. holds => i \notin c.linked /\ c.refcount[i] = 0
    OBVIOUS
  <1> HIDE DEF holds, d, e
  <1>7. /\ Shape(e) /\ e.halted = d.halted
        /\ e.free = d.free \cup {i} /\ e.linked = d.linked /\ e.deleted = d.deleted
        /\ e.refcount = d.refcount /\ e.key = [d.key EXCEPT ![i] = Null]
        /\ e.time = [d.time EXCEPT ![i] = 0] /\ e.exptime = d.exptime
        /\ e.table = d.table /\ e.lru = d.lru
    BY <1>1, <1>2 DEF Shape, Fields
  <1> QED
    BY <1>2, <1>3, <1>5, <1>6, <1>7 DEF Fields, Freed, e

----------------------------------------------------------------------------
(* Unlinking *)

\* item_free of an item that is out of the table and the list.
LEMMA FreesSound ==
    ASSUME NEW c, Shape(c), c.halted = "no", Typed(c), Linked(c), Young(c),
           NEW i \in Items, FreeBut(c, {i}), i \notin c.linked, c.refcount[i] = 0,
           i \notin c.deleted, NEW e, e = item_free(c, i)
    PROVE  /\ Shape(e) /\ e.halted = "no" /\ Sound(e) /\ e.refcount = c.refcount
           /\ e.free = c.free \cup {i} /\ e.linked = c.linked /\ e.deleted = c.deleted
           /\ e.exptime = c.exptime /\ Queued(e) = Queued(c)
           /\ \A j \in Items \ {i} : e.key[j] = c.key[j]
  <1>1. /\ Shape(e) /\ e.halted = "no"
        /\ e.free = c.free \cup {i} /\ e.linked = c.linked /\ e.deleted = c.deleted
        /\ e.refcount = c.refcount /\ e.key = [c.key EXCEPT ![i] = Null]
        /\ e.time = [c.time EXCEPT ![i] = 0] /\ e.exptime = c.exptime
        /\ e.table = c.table /\ e.lru = c.lru
    BY Frees DEF Linked, Freed
  <1>2. Typed(e)
    BY <1>1 DEF Typed
  <1>3. \A j \in Items \ {i} : e.key[j] = c.key[j] /\ e.time[j] = c.time[j]
    BY <1>1 DEF Typed
  <1>4. Linked(e)
    <2>1. \A j \in c.linked : j \in Items \ {i}
      BY DEF Typed
    <2>2. e.free \cap e.linked = {} /\ Lists(e.lru, e.linked)
      BY <1>1 DEF Linked
    <2>3. \A j \in Items : j \notin e.free => e.key[j] \in Keys
      BY <1>1, <1>3 DEF Linked
    <2>4. \A k \in Keys : e.table[k] # Null => e.table[k] \in e.linked /\ e.key[e.table[k]] = k
      BY <1>1, <1>3, <2>1 DEF Linked
    <2>5. \A j \in e.linked : e.table[e.key[j]] = j
      BY <1>1, <1>3, <2>1 DEF Linked
    <2> QED
      BY <2>2, <2>3, <2>4, <2>5 DEF Linked
  <1>5. FreeBut(e, {})
    BY <1>1 DEF FreeBut
  <1>6. Young(e)
    BY <1>1, <1>3 DEF Young, Typed
  <1>7. Queued(e) = Queued(c)
    BY <1>1 DEF Queued
  <1> QED
    BY <1>1, <1>2, <1>3, <1>4, <1>5, <1>6, <1>7 DEF Sound

\* item_unlink_q takes the one place of the item.
LEMMA UnlinksQ ==
    ASSUME NEW c, Shape(c), NEW i, NEW e, e = unlink_q(c, i)
    PROVE  /\ Shape(e) /\ \A f \in Fields \ {"lru"} : e[f] = c[f]
           /\ \A S : Lists(c.lru, S) /\ i \in S => Lists(e.lru, S \ {i})
  <1> DEFINE n == CHOOSE n \in DOMAIN c.lru : c.lru[n] = i
             l == SubSeq(c.lru, 1, n - 1) \o SubSeq(c.lru, n + 1, Len(c.lru))
  <1>1. e = [c EXCEPT !.lru = l]
    BY DEF unlink_q, Shape, Fields
  <1>2. ASSUME NEW S, Lists(c.lru, S), i \in S PROVE Lists(l, S \ {i})
    <2>1. DOMAIN c.lru = 1 .. Len(c.lru)
      BY <1>2 DEF Lists
    <2>2. \E m \in DOMAIN c.lru : c.lru[m] = i
      BY <1>2, <2>1 DEF Lists
    <2>3. n \in 1 .. Len(c.lru) /\ c.lru[n] = i
      BY <2>1, <2>2
    <2> HIDE DEF n
    <2> QED
      BY <1>2, <2>3, ListsRemove
  <1> HIDE DEF l
  <1>3. Shape(e) /\ e.lru = l /\ \A f \in Fields \ {"lru"} : e[f] = c[f]
    BY <1>1 DEF Shape, Fields
  <1> QED
    BY <1>2, <1>3

\* do_item_unlink: out of flags, table and list, and freed if nobody holds it.
LEMMA Unlinks ==
    ASSUME NEW c, Shape(c), NEW i \in Items, NEW e, e = do_item_unlink(c, i)
    PROVE  /\ Shape(e) /\ (c.halted # "no" => e.halted # "no")
           /\ c.halted = "no" /\ Sound(c) =>
                 /\ e.halted = "no" /\ Sound(e) /\ e.refcount = c.refcount
                 /\ Queued(e) = Queued(c) /\ e.deleted = c.deleted /\ e.exptime = c.exptime
                 /\ e.linked = c.linked \ {i} /\ c.free \subseteq e.free
                 /\ c.refcount[i] # 0 => e.free = c.free
  <1>1. CASE i \notin c.linked
    <2>1. e = c
      BY <1>1 DEF do_item_unlink
    <2>2. c.halted = "no" /\ Sound(c) => c.linked = c.linked \ {i}
      BY <1>1
    <2> QED
      BY <2>1, <2>2
  <1>2. CASE i \in c.linked
    <2> DEFINE k == c.key[i]
               a == Expect(c, c.table[k] # Null, "assoc_delete")
               x == [a EXCEPT !.linked = @ \ {i}, !.table[k] = Null]
               b == unlink_q(x, i)
    <2>1. e = IF c.refcount[i] = 0 THEN item_free(b, i) ELSE b
      BY <1>2 DEF do_item_unlink
    <2>2. Shape(a) /\ (c.halted # "no" => a = c) /\ (c.table[k] # Null => a = c)
      <3>1. "assoc_delete" # "no"
        OBVIOUS
      <3> QED
        BY <3>1, Expects
    <2> HIDE DEF a
    <2>3. /\ Shape(x) /\ x.linked = a.linked \ {i} /\ x.table = [a.table EXCEPT ![k] = Null]
          /\ \A f \in Fields \ {"linked", "table"} : x[f] = a[f]
      BY <2>2 DEF Shape, Fields
    <2> HIDE DEF x
    <2>4. /\ Shape(b) /\ \A f \in Fields \ {"lru"} : b[f] = x[f]
          /\ \A S : Lists(x.lru, S) /\ i \in S => Lists(b.lru, S \ {i})
      BY <2>3, UnlinksQ
    <2> HIDE DEF b
    <2>5. Shape(item_free(b, i)) /\ (item_free(b, i).halted = "no" => b.halted = "no")
      <3>1. Shape(b)
        BY <2>4
      <3> QED
        BY <3>1, Frees DEF Freed
    <2>6. Shape(e) /\ (c.halted # "no" => e.halted # "no")
      BY <2>1, <2>2, <2>3, <2>4, <2>5 DEF Fields
    <2>7. ASSUME c.halted = "no", Sound(c)
          PROVE  /\ e.halted = "no" /\ Sound(e) /\ e.refcount = c.refcount
                 /\ Queued(e) = Queued(c) /\ e.deleted = c.deleted /\ e.exptime = c.exptime
                 /\ e.linked = c.linked \ {i} /\ c.free \subseteq e.free
                 /\ c.refcount[i] # 0 => e.free = c.free
      <3>1. k \in Keys /\ c.table[k] = i /\ i # Null
        BY <1>2, <2>7, ItemsAssumption DEF Sound, Typed, Linked
      <3>2. a = c
        BY <2>2, <3>1
      <3>3. /\ b.linked = c.linked \ {i} /\ b.table = [c.table EXCEPT ![k] = Null]
            /\ b.free = c.free /\ b.deleted = c.deleted /\ b.refcount = c.refcount
            /\ b.key = c.key /\ b.time = c.time /\ b.exptime = c.exptime /\ b.halted = "no"
            /\ Lists(b.lru, c.linked \ {i})
        BY <1>2, <2>3, <2>4, <2>7, <3>2 DEF Fields, Sound, Linked
      <3> HIDE DEF k
      <3>4. Typed(b)
        BY <2>7, <3>3 DEF Sound, Typed
      <3>5. Linked(b)
        <4>1. b.free \cap b.linked = {} /\ Lists(b.lru, b.linked)
          BY <2>7, <3>3 DEF Sound, Linked
        <4>2. \A j \in Items : j \notin b.free => b.key[j] \in Keys
          BY <2>7, <3>3 DEF Sound, Linked
        <4>3. \A h \in Keys : b.table[h] = IF h = k THEN Null ELSE c.table[h]
          BY <2>7, <3>3 DEF Sound, Typed
        <4>4. \A h \in Keys : b.table[h] # Null => b.table[h] \in b.linked /\ b.key[b.table[h]] = h
          BY <2>7, <3>1, <3>3, <4>3 DEF Sound, Linked, k
        <4>5. \A j \in b.linked : b.table[b.key[j]] = j
          <5> TAKE j \in b.linked
          <5>1. j \in c.linked /\ j # i /\ j \in Items /\ j \notin c.free
            BY <2>7, <3>3 DEF Sound, Typed, Linked
          <5>2. c.table[c.key[j]] = j /\ c.key[j] \in Keys /\ c.key[j] # k
            BY <2>7, <3>1, <5>1 DEF Sound, Linked
          <5> QED
            BY <3>3, <4>3, <5>2
        <4> QED
          BY <4>1, <4>2, <4>4, <4>5 DEF Linked
      <3>6. Young(b)
        BY <2>7, <3>3 DEF Sound, Young
      <3>7. Queued(b) = Queued(c)
        BY <3>3 DEF Queued
      <3>8. FreeBut(b, {i}) /\ i \notin c.free
        BY <1>2, <2>7, <3>3 DEF Sound, FreeBut, Linked
      <3>9. CASE c.refcount[i] = 0
        <4>1. i \notin b.deleted
          BY <2>7, <3>3, <3>8, <3>9 DEF Sound, FreeBut
        <4>2. i \notin b.linked /\ b.refcount[i] = 0 /\ e = item_free(b, i)
          BY <2>1, <3>3, <3>9
        <4>3. /\ e.halted = "no" /\ Sound(e) /\ e.refcount = b.refcount
              /\ e.free = b.free \cup {i} /\ e.linked = b.linked /\ e.deleted = b.deleted
              /\ e.exptime = b.exptime /\ Queued(e) = Queued(b)
          BY <2>4, <3>3, <3>4, <3>5, <3>6, <3>8, <4>1, <4>2, FreesSound
        <4> QED
          BY <3>3, <3>7, <3>9, <4>3
      <3>10. CASE c.refcount[i] # 0
        <4>1. FreeBut(b, {})
          BY <3>3, <3>8, <3>10 DEF FreeBut
        <4>2. e = b
          BY <2>1, <3>10
        <4> QED
          BY <3>3, <3>4, <3>5, <3>6, <3>7, <3>10, <4>1, <4>2 DEF Sound
      <3> QED
        BY <3>9, <3>10
    <2> QED
      BY <2>6, <2>7
  <1> QED
    BY <1>1, <1>2

\* The unlink of any item keeps a cache sound, and the counts.
LEMMA UnlinkGoes ==
    ASSUME NEW c, Fine(c), NEW i \in Items
    PROVE  Goes(c, do_item_unlink(c, i), c.refcount)
  BY Unlinks DEF Fine, Goes

\* What an unlink of i makes of a sound cache.
Unlinked(c, i, e) ==
    /\ Shape(e) /\ e.halted = "no" /\ Sound(e) /\ e.refcount = c.refcount
    /\ Queued(e) = Queued(c) /\ e.deleted = c.deleted /\ e.exptime = c.exptime
    /\ e.linked = c.linked \ {i} /\ c.free \subseteq e.free
    /\ c.refcount[i] # 0 => e.free = c.free

\* No assertion fails in it.
LEMMA UnlinkRuns ==
    ASSUME NEW c, Fine(c), c.halted = "no", NEW i \in Items
    PROVE  Unlinked(c, i, do_item_unlink(c, i)) /\ do_item_unlink(c, i).halted = "no"
  BY Unlinks DEF Fine, Unlinked

----------------------------------------------------------------------------
(* Linking, moving and holding *)

\* One reference to i more, and one less.
More(refs, i) == [refs EXCEPT ![i] = @ + 1]
Less(refs, i) == [refs EXCEPT ![i] = IF refs[i] = 0 THEN 0 ELSE refs[i] - 1]

\* item_link_q: the item becomes the head of the list.
LEMMA LinksQ ==
    ASSUME NEW c, Shape(c), NEW i, NEW e, e = link_q(c, i)
    PROVE  /\ Shape(e) /\ \A f \in Fields \ {"lru"} : e[f] = c[f]
           /\ e.lru = <<i>> \o c.lru
  <1> DEFINE l == <<i>> \o c.lru
  <1>1. e = [c EXCEPT !.lru = l]
    BY DEF link_q, Shape, Fields
  <1> HIDE DEF l
  <1>2. Shape(e) /\ e.lru = l /\ \A f \in Fields \ {"lru"} : e[f] = c[f]
    BY <1>1 DEF Shape, Fields
  <1> QED
    BY <1>2 DEF l

\* do_item_link of an item that is neither linked nor free, under a key that the table
\* does not have: the assertions stop the server otherwise.
LEMMA LinkGoes ==
    ASSUME current_time \in Nat, NEW c, Fine(c), NEW i \in Items
    PROVE  Goes(c, do_item_link(c, i), c.refcount)
  <1> DEFINE k == c.key[i]
             out == i \notin c.linked \cup c.free
             none == c.table[k] = Null
             a == Expect(c, out, "do_item_link")
             b == Expect(a, none, "assoc_insert")
             cas == c.last_cas + 1
             old == b.last_cas + 1
             x == [b EXCEPT !.linked = @ \cup {i}, !.time[i] = current_time,
                            !.table[k] = i, !.last_cas = old, !.cas_id[i] = cas]
             e == do_item_link(c, i)
  <1>1. e = link_q(x, i)
    BY DEF do_item_link
  <1>2. Shape(c)
    BY DEF Fine
  <1>3. Shape(a) /\ (a.halted = "no" => a = c /\ out)
    <2>1. "do_item_link" # "no"
      OBVIOUS
    <2> HIDE DEF out
    <2> QED
      BY <1>2, <2>1, Expects
  <1> HIDE DEF a, out, none
  <1>4. Shape(b) /\ (b.halted = "no" => b = a /\ none)
    <2>1. "assoc_insert" # "no"
      OBVIOUS
    <2> QED
      BY <1>3, <2>1, Expects
  <1> HIDE DEF b, cas, old
  <1>5. /\ Shape(x) /\ x.linked = b.linked \cup {i} /\ x.time = [b.time EXCEPT ![i] = current_time]
        /\ x.table = [b.table EXCEPT ![k] = i]
        /\ x.free = b.free /\ x.deleted = b.deleted /\ x.refcount = b.refcount
        /\ x.key = b.key /\ x.lru = b.lru /\ x.halted = b.halted
    BY <1>4 DEF Shape, Fields
  <1> HIDE DEF x, e
  <1>6. Shape(e) /\ (\A f \in Fields \ {"lru"} : e[f] = x[f]) /\ e.lru = <<i>> \o x.lru
    BY <1>1, <1>5, LinksQ
  <1>7. ASSUME e.halted = "no"
        PROVE  c.halted = "no" /\ Sound(e) /\ e.refcount = c.refcount /\ Queued(e) = Queued(c)
    <2>1. b.halted = "no"
      BY <1>5, <1>6, <1>7 DEF Fields
    <2>2. b = c /\ c.halted = "no" /\ out /\ none
      BY <1>3, <1>4, <2>1
    <2>3. Sound(c)
      BY <2>2 DEF Fine
    <2>4. /\ e.linked = c.linked \cup {i} /\ e.time = [c.time EXCEPT ![i] = current_time]
          /\ e.table = [c.table EXCEPT ![k] = i]
          /\ e.free = c.free /\ e.deleted = c.deleted /\ e.refcount = c.refcount
          /\ e.key = c.key /\ e.lru = <<i>> \o c.lru
      BY <1>5, <1>6, <2>2 DEF Fields
    <2>5. k \in Keys /\ i \notin c.linked /\ i \notin c.free /\ i # Null
      BY <2>2, <2>3, ItemsAssumption DEF Sound, Linked, out
    <2>6. Typed(e)
      BY <2>3, <2>4, <2>5 DEF Sound, Typed
    <2>7. Linked(e)
      <3>1. Lists(e.lru, e.linked)
        <4>1. Lists(c.lru, c.linked)
          BY <2>3 DEF Sound, Linked
        <4> QED
          BY <2>4, <2>5, <4>1, ListsPush
      <3>2. e.free \cap e.linked = {}
        BY <2>3, <2>4, <2>5 DEF Sound, Linked
      <3>3. \A j \in Items : j \notin e.free => e.key[j] \in Keys
        BY <2>3, <2>4 DEF Sound, Linked
      <3>4. \A h \in Keys : e.table[h] = IF h = k THEN i ELSE c.table[h]
        BY <2>3, <2>4 DEF Sound, Typed
      <3>5. \A h \in Keys : e.table[h] # Null => e.table[h] \in e.linked /\ e.key[e.table[h]] = h
        BY <2>3, <2>4, <3>4 DEF Sound, Linked
      <3>6. \A j \in e.linked : e.table[e.key[j]] = j
        <4> TAKE j \in e.linked
        <4>1. CASE j = i
          BY <2>4, <2>5, <3>4, <4>1
        <4>2. CASE j # i
          <5>1. j \in c.linked /\ j \in Items /\ j \notin c.free
            BY <2>3, <2>4, <4>2 DEF Sound, Typed, Linked
          <5>2. c.table[c.key[j]] = j /\ c.key[j] \in Keys /\ j # Null
            BY <2>3, <5>1, ItemsAssumption DEF Sound, Linked
          <5>3. c.key[j] # k
            BY <2>2, <5>2 DEF none
          <5> QED
            BY <2>4, <3>4, <5>2, <5>3
        <4> QED
          BY <4>1, <4>2
      <3> QED
        BY <3>1, <3>2, <3>3, <3>5, <3>6 DEF Linked
    <2>8. FreeBut(e, {})
      BY <2>3, <2>4, <2>5 DEF Sound, FreeBut
    <2>9. Young(e)
      <3> SUFFICES ASSUME EvictToFree, NEW j \in e.linked
                   PROVE  e.time[j] + RepairAge >= current_time
        BY DEF Young
      <3>1. CASE j = i
        <4>1. e.time[j] = current_time
          BY <2>3, <2>4, <3>1 DEF Sound, Typed
        <4> QED
          BY <4>1, ItemsAssumption
      <3>2. CASE j # i
        BY <2>3, <2>4, <3>2 DEF Sound, Typed, Young
      <3> QED
        BY <3>1, <3>2
    <2>10. Queued(e) = Queued(c)
      BY <2>4 DEF Queued
    <2> QED
      BY <2>2, <2>4, <2>6, <2>7, <2>8, <2>9, <2>10 DEF Sound
  <1> QED
    BY <1>6, <1>7 DEF Goes, e

\* The move to the head of the list that a lookup makes.
LEMMA UpdateGoes ==
    ASSUME current_time \in Nat, NEW c, Fine(c), NEW i \in Items
    PROVE  Goes(c, do_item_update(c, i), c.refcount)
  <1> DEFINE out == i \notin c.free
             a == Expect(c, out, "do_item_update")
             b == unlink_q(a, i)
             x == [b EXCEPT !.time[i] = current_time]
             e == do_item_update(c, i)
  <1>1. CASE ~long_unused(c, i)
    <2>1. e = c
      BY <1>1 DEF do_item_update
    <2> QED
      BY <2>1 DEF Goes, Fine
  <1>2. CASE long_unused(c, i)
    <2>1. e = IF i \in c.linked THEN link_q(x, i) ELSE a
      BY <1>2 DEF do_item_update
    <2>2. Shape(c)
      BY DEF Fine
    <2>3. Shape(a) /\ (a.halted = "no" => a = c /\ out)
      <3>1. "do_item_update" # "no"
        OBVIOUS
      <3> HIDE DEF out
      <3> QED
        BY <2>2, <3>1, Expects
    <2> HIDE DEF a
    <2>4. CASE i \notin c.linked
      BY <2>1, <2>3, <2>4 DEF Goes, Fine
    <2>5. CASE i \in c.linked
      <3>1. /\ Shape(b) /\ \A f \in Fields \ {"lru"} : b[f] = a[f]
            /\ \A S : Lists(a.lru, S) /\ i \in S => Lists(b.lru, S \ {i})
        BY <2>3, UnlinksQ
      <3> HIDE DEF b
      <3>2. /\ Shape(x) /\ x.time = [b.time EXCEPT ![i] = current_time]
            /\ \A f \in Fields \ {"time"} : x[f] = b[f]
        BY <3>1 DEF Shape, Fields
      <3> HIDE DEF x, e
      <3>3. Shape(e) /\ (\A f \in Fields \ {"lru"} : e[f] = x[f]) /\ e.lru = <<i>> \o x.lru
        <4>1. e = link_q(x, i)
          BY <2>1, <2>5
        <4> QED
          BY <3>2, <4>1, LinksQ
      <3>4. ASSUME e.halted = "no"
            PROVE  c.halted = "no" /\ Sound(e) /\ e.refcount = c.refcount /\ Queued(e) = Queued(c)
        <4>1. a = c /\ c.halted = "no"
          BY <2>3, <3>1, <3>2, <3>3, <3>4 DEF Fields
        <4>2. Sound(c)
          BY <4>1 DEF Fine
        <4>3. /\ e.linked = c.linked /\ e.time = [c.time EXCEPT ![i] = current_time]
              /\ e.table = c.table
              /\ e.free = c.free /\ e.deleted = c.deleted /\ e.refcount = c.refcount
              /\ e.key = c.key /\ e.lru = <<i>> \o b.lru
          BY <3>1, <3>2, <3>3, <4>1 DEF Fields
        <4>4. Typed(e) /\ FreeBut(e, {}) /\ Queued(e) = Queued(c)
          BY <4>2, <4>3 DEF Sound, Typed, FreeBut, Queued
        <4>5. Lists(e.lru, e.linked)
          <5>1. Lists(b.lru, c.linked \ {i})
            BY <2>5, <3>1, <4>1, <4>2 DEF Sound, Linked
          <5>2. i \notin c.linked \ {i}
            OBVIOUS
          <5>3. Lists(e.lru, (c.linked \ {i}) \cup {i})
            BY <4>3, <5>1, <5>2, ListsPush
          <5>4. (c.linked \ {i}) \cup {i} = e.linked
            BY <2>5, <4>3
          <5> QED
            BY <5>3, <5>4
        <4>6. Linked(e)
          BY <4>2, <4>3, <4>5 DEF Sound, Linked
        <4>7. Young(e)
          <5> SUFFICES ASSUME EvictToFree, NEW j \in e.linked
                   PROVE  e.time[j] + RepairAge >= current_time
            BY DEF Young
          <5>1. CASE j = i
            <6>1. e.time[j] = current_time
              BY <4>2, <4>3, <5>1 DEF Sound, Typed
            <6> QED
              BY <6>1, ItemsAssumption
          <5>2. CASE j # i
            BY <4>2, <4>3, <5>2 DEF Sound, Typed, Young
          <5> QED
            BY <5>1, <5>2
        <4> QED
          BY <4>1, <4>3, <4>4, <4>6, <4>7 DEF Sound
      <3> QED
        BY <3>3, <3>4 DEF Goes, e
    <2> QED
      BY <2>4, <2>5
  <1> QED
    BY <1>1, <1>2

\* A lookup holds the item it returns.
LEMMA HoldGoes ==
    ASSUME NEW c, Fine(c), NEW i \in Items, c.halted = "no" => i \notin c.free
    PROVE  Goes(c, Hold(c, i), More(c.refcount, i))
  <1> DEFINE e == Hold(c, i)
             n == c.refcount[i] + 1
  <1>1. e = [c EXCEPT !.refcount[i] = n]
    BY DEF Hold, Fine, Shape, Fields
  <1>2. More(c.refcount, i) = [c.refcount EXCEPT ![i] = n]
    BY DEF More
  <1>3. Shape(c)
    BY DEF Fine
  <1>4. c.halted = "no" => n \in Nat \ {0}
    BY DEF Fine, Sound, Typed
  <1> HIDE DEF n, e
  <1>5. /\ Shape(e) /\ e.refcount = [c.refcount EXCEPT ![i] = n]
        /\ \A f \in Fields \ {"refcount"} : e[f] = c[f]
    BY <1>1, <1>3 DEF Shape, Fields
  <1>6. /\ e.free = c.free /\ e.linked = c.linked /\ e.deleted = c.deleted
        /\ e.key = c.key /\ e.time = c.time /\ e.table = c.table /\ e.lru = c.lru
        /\ e.halted = c.halted
    BY <1>5 DEF Fields
  <1>7. ASSUME e.halted = "no"
        PROVE  c.halted = "no" /\ Sound(e) /\ Queued(e) = Queued(c)
    <2>1. c.halted = "no" /\ Sound(c) /\ i \notin c.free
      BY <1>6, <1>7 DEF Fine
    <2>2. \A j \in Items : e.refcount[j] = IF j = i THEN n ELSE c.refcount[j]
      BY <1>5, <2>1 DEF Sound, Typed
    <2>3. Typed(e)
      BY <1>4, <1>5, <1>6, <2>1 DEF Sound, Typed
    <2>4. Linked(e) /\ Young(e) /\ Queued(e) = Queued(c)
      BY <1>6, <2>1 DEF Sound, Linked, Young, Queued
    <2>5. FreeBut(e, {})
      BY <1>4, <1>6, <2>1, <2>2 DEF Sound, FreeBut, Typed
    <2> QED
      BY <2>1, <2>3, <2>4, <2>5 DEF Sound
  <1> QED
    BY <1>2, <1>5, <1>7 DEF Goes, e

----------------------------------------------------------------------------
(* Releasing, replacing and looking up *)

\* A reference is given back: the count goes down, and an item that is out of
\* the table is freed with its last reference.
LEMMA RemoveGoes ==
    ASSUME NEW c, Fine(c), NEW i \in Items
    PROVE  /\ Goes(c, do_item_remove(c, i), Less(c.refcount, i))
           /\ do_item_remove(c, i).halted = "no" => do_item_remove(c, i).exptime = c.exptime
  <1> DEFINE out == i \notin c.free
             a == Expect(c, out, "do_item_remove")
             n == IF c.refcount[i] = 0 THEN 0 ELSE c.refcount[i] - 1
             held == i \notin c.deleted \/ n # 0
             x == [a EXCEPT !.refcount[i] = n]
             name == "do_item_remove deleted"
             b == Expect(x, held, name)
             e == do_item_remove(c, i)
  <1>1. e = IF n = 0 /\ i \notin c.linked THEN item_free(b, i) ELSE b
    BY DEF do_item_remove
  <1>2. Shape(c)
    BY DEF Fine
  <1>3. Shape(a) /\ (a.halted = "no" => a = c /\ out)
    <2>1. "do_item_remove" # "no"
      OBVIOUS
    <2> HIDE DEF out
    <2> QED
      BY <1>2, <2>1, Expects
  <1>4. Less(c.refcount, i) = [c.refcount EXCEPT ![i] = n]
    BY DEF Less
  <1>5. c.halted = "no" => n \in Nat
    <2> HAVE c.halted = "no"
    <2>1. c.refcount[i] \in Nat
      BY DEF Fine, Sound, Typed
    <2> QED
      BY <2>1
  <1> HIDE DEF a, n, held
  <1>6. /\ Shape(x) /\ x.refcount = [a.refcount EXCEPT ![i] = n]
        /\ \A f \in Fields \ {"refcount"} : x[f] = a[f]
    BY <1>3 DEF Shape, Fields
  <1> HIDE DEF x
  <1>7. Shape(b) /\ (b.halted = "no" => b = x /\ held)
    <2>1. name # "no"
      OBVIOUS
    <2> HIDE DEF name
    <2>2. Shape(x)
      BY <1>6
    <2> QED
      BY <2>1, <2>2, Expects
  <1> HIDE DEF b
  <1>8. Freed(b, i, item_free(b, i))
    BY <1>7, Frees
  <1> HIDE DEF e
  <1>9. Shape(e) /\ (e.halted = "no" => b.halted = "no")
    BY <1>1, <1>7, <1>8 DEF Freed
  <1>10. ASSUME e.halted = "no"
         PROVE  /\ c.halted = "no" /\ Sound(e) /\ e.refcount = [c.refcount EXCEPT ![i] = n]
                /\ Queued(e) = Queued(c) /\ e.exptime = c.exptime
    <2>1. c.halted = "no" /\ out /\ held
          /\ b.refcount = [c.refcount EXCEPT ![i] = n]
          /\ b.free = c.free /\ b.linked = c.linked /\ b.deleted = c.deleted
          /\ b.key = c.key /\ b.time = c.time /\ b.table = c.table /\ b.lru = c.lru
          /\ b.halted = "no" /\ b.exptime = c.exptime
      BY <1>3, <1>6, <1>7, <1>9, <1>10 DEF Fields
    <2>2. Sound(c) /\ n \in Nat
      BY <1>5, <2>1 DEF Fine
    <2>3. \A j \in Items : b.refcount[j] = IF j = i THEN n ELSE c.refcount[j]
      BY <2>1, <2>2 DEF Sound, Typed
    <2>4. Typed(b)
      BY <2>1, <2>2 DEF Sound, Typed
    <2>5. Linked(b) /\ Young(b) /\ Queued(b) = Queued(c)
      BY <2>1, <2>2 DEF Sound, Linked, Young, Queued
    <2>6. FreeBut(b, {i}) /\ (n = 0 => i \notin c.deleted)
      BY <2>1, <2>2, <2>3 DEF Sound, FreeBut, held
    <2>7. CASE n = 0 /\ i \notin c.linked
      <3>1. e = item_free(b, i)
        BY <1>1, <2>7
      <3>2. b.refcount[i] = 0 /\ i \notin b.linked /\ i \notin b.deleted
        BY <2>1, <2>3, <2>6, <2>7
      <3>3. Sound(e) /\ e.refcount = b.refcount /\ Queued(e) = Queued(b) /\ e.exptime = b.exptime
        <4>1. b.halted = "no" /\ Shape(b) /\ Typed(b) /\ Linked(b) /\ Young(b)
          BY <1>7, <2>1, <2>4, <2>5
        <4>2. FreeBut(b, {i})
          BY <2>6
        <4> QED
          BY <3>1, <3>2, <4>1, <4>2, FreesSound
      <3> QED
        BY <2>1, <2>5, <3>3
    <2>8. CASE ~(n = 0 /\ i \notin c.linked)
      <3>1. e = b
        BY <1>1, <2>8
      <3>2. FreeBut(b, {})
        BY <2>1, <2>2, <2>3, <2>6, <2>8 DEF Sound, FreeBut, held, out
      <3> QED
        BY <2>1, <2>4, <2>5, <3>1, <3>2 DEF Sound
    <2> QED
      BY <2>7, <2>8
  <1> QED
    BY <1>4, <1>9, <1>10 DEF Goes, e

\* do_item_replace: the one out, the other in.
LEMMA ReplaceGoes ==
    ASSUME current_time \in Nat, NEW c, Fine(c), NEW i \in Items, NEW new \in Items
    PROVE  Goes(c, do_item_replace(c, i, new), c.refcount)
  <1> DEFINE out == i \notin c.free
             a == Expect(c, out, "do_item_replace")
             b == do_item_unlink(a, i)
             e == do_item_link(b, new)
  <1>1. e = do_item_replace(c, i, new)
    BY DEF do_item_replace
  <1>2. Shape(c)
    BY DEF Fine
  <1>3. Shape(a) /\ (a.halted = "no" => a = c)
    <2>1. "do_item_replace" # "no"
      OBVIOUS
    <2> HIDE DEF out
    <2> QED
      BY <1>2, <2>1, Expects
  <1> HIDE DEF a
  <1>4. Fine(a)
    BY <1>3 DEF Fine
  <1>5. Goes(a, b, a.refcount)
    BY <1>4, UnlinkGoes
  <1>6. Fine(b)
    BY <1>5 DEF Goes, Fine
  <1> HIDE DEF b
  <1>7. Goes(b, e, b.refcount)
    BY <1>6, LinkGoes
  <1> HIDE DEF e
  <1>8. Goes(c, e, c.refcount)
    BY <1>3, <1>5, <1>7 DEF Goes
  <1> QED
    BY <1>1, <1>8

\* What a lookup returns: a cache, and an item it now holds, or none.
Got(c, g) ==
    \/ g.it = Null /\ Goes(c, g.c, c.refcount)
    \/ g.it \in Items /\ g.it # Null /\ Goes(c, g.c, More(c.refcount, g.it))

\* Both lookups hold what they return; the expired and flushed are unlinked.
LEMMA GetGoes ==
    ASSUME NEW c, Fine(c), c.halted = "no", NEW k \in Keys
    PROVE  Got(c, do_item_get_notedeleted(c, k)) /\ Got(c, do_item_get_nocheck(c, k))
           /\ do_item_get_notedeleted(c, k).c.halted = "no"
  <1>1. c.table[k] \in Items \cup {Null} /\ Null \notin Items
    BY ItemsAssumption DEF Fine, Sound, Typed
  <1>2. c.table[k] # Null => c.table[k] \notin c.free
    BY DEF Fine, Sound, Linked
  <1>3. Goes(c, c, c.refcount)
    BY DEF Fine, Goes
  <1> DEFINE i == c.table[k]
  <1>4. i # Null => Goes(c, Hold(c, i), More(c.refcount, i))
    BY <1>1, <1>2, HoldGoes
  <1>5. i # Null => Goes(c, do_item_unlink(c, i), c.refcount)
    BY <1>1, UnlinkGoes
  <1>6. i # Null => do_item_unlink(c, i).halted = "no"
    BY <1>1, UnlinkRuns
  <1>7. i # Null => Hold(c, i).halted = "no"
    BY DEF Hold, Fine, Shape, Fields
  <1> HIDE DEF i
  <1>8. Got(c, do_item_get_nocheck(c, k))
    BY <1>1, <1>3, <1>4 DEF Got, do_item_get_nocheck, i
  <1>9. Visible(c, k) => i # Null
    BY DEF Visible, i
  <1>10. Got(c, do_item_get_notedeleted(c, k)) /\ do_item_get_notedeleted(c, k).c.halted = "no"
    <2> DEFINE g == do_item_get_notedeleted(c, k)
    <2>1. CASE Visible(c, k)
      <3>1. g = [it |-> i, c |-> Hold(c, i)]
        BY <2>1 DEF do_item_get_notedeleted, i
      <3> HIDE DEF g
      <3>2. g.it = i /\ g.c = Hold(c, i)
        BY <3>1
      <3>3. i \in Items /\ i # Null
        BY <1>1, <1>9, <2>1 DEF i
      <3> QED
        BY <1>4, <1>7, <3>2, <3>3 DEF Got, g
    <2>2. CASE ~Visible(c, k) /\ (i = Null \/ delete_locked(c, k))
      <3>1. g = [it |-> Null, c |-> c]
        BY <2>2 DEF do_item_get_notedeleted, i
      <3> HIDE DEF g
      <3>2. g.it = Null /\ g.c = c
        BY <3>1
      <3> QED
        BY <1>3, <3>2 DEF Got, g
    <2>3. CASE ~Visible(c, k) /\ ~(i = Null \/ delete_locked(c, k))
      <3>1. g = [it |-> Null, c |-> do_item_unlink(c, i)]
        BY <2>3 DEF do_item_get_notedeleted, i
      <3> HIDE DEF g
      <3>2. g.it = Null /\ g.c = do_item_unlink(c, i)
        BY <3>1
      <3> QED
        BY <1>5, <1>6, <2>3, <3>2 DEF Got, g
    <2> QED
      BY <2>1, <2>2, <2>3
  <1> QED
    BY <1>8, <1>10

----------------------------------------------------------------------------
(* Eviction and allocation *)

\* A set of numbers has a smallest one.
LEMMA Smallest ==
    ASSUME NEW T, T \subseteq Nat, T # {}
    PROVE  \E x \in T : \A y \in T : x <= y
  <1>0. T \subseteq Nat /\ T # {}
    OBVIOUS
  <1>1. PICK x \in T : \A y \in T : ~(<<y, x>> \in OpToRel(<, Nat))
    BY <1>0, NatLessThanWellFounded, WFMin
  <1>2. \A y \in T : ~(y < x)
    BY <1>1 DEF OpToRel
  <1> QED
    BY <1>0, <1>2

\* The search for a victim finds a linked item, if any.
LEMMA LastLinked ==
    ASSUME NEW c, Lists(c.lru, c.linked), NEW items, LastOf(c, items) # Null
    PROVE  LastOf(c, items) \in items \cap c.linked
  <1> DEFINE found == {n \in DOMAIN c.lru : n > Len(c.lru) - Tries /\ c.lru[n] \in items}
             last == CHOOSE n \in found : \A m \in found : m <= n
             l == Len(c.lru)
             T == {m \in Nat : \E n \in found : m = l - n}
  <1>1. found # {} /\ LastOf(c, items) = c.lru[last]
    BY DEF LastOf
  <1>2. l \in Nat /\ DOMAIN c.lru = 1 .. l
    BY DEF Lists
  <1>3. found \subseteq 1 .. l
    BY <1>2
  <1>4. \A n \in found : c.lru[n] \in items
    OBVIOUS
  <1> HIDE DEF found, l
  <1>5. T # {} /\ T \subseteq Nat
    <2>1. PICK n \in found : TRUE
      BY <1>1
    <2>2. l - n \in Nat
      BY <1>2, <1>3
    <2>3. l - n \in T
      BY <2>2
    <2> QED
      BY <2>3
  <1>6. PICK x \in T : \A y \in T : x <= y
    <2> HIDE DEF T
    <2> QED
      BY <1>5, Smallest
  <1>7. PICK n \in found : x = l - n
    BY <1>6
  <1>8. \A m \in found : m <= n
    <2> TAKE m \in found
    <2> DEFINE y == l - m
    <2>1. y \in Nat /\ y = l - m
      BY <1>2, <1>3
    <2> HIDE DEF y
    <2>2. y \in T
      BY <2>1
    <2>3. x <= y
      BY <1>6, <2>2
    <2> QED
      BY <1>2, <1>3, <1>7, <2>1, <2>3
  <1>9. last \in found
    BY <1>7, <1>8
  <1> HIDE DEF last
  <1> QED
    BY <1>1, <1>3, <1>4, <1>9 DEF Lists, l

\* Tail repair finds nothing while no linked item is too old.
LEMMA RepairsNothing ==
    ASSUME current_time \in Nat, EvictToFree, NEW c, Sound(c)
    PROVE  tail_repair(c) = c
  <1> DEFINE items == {j \in Items : /\ c.refcount[j] # 0
                                      /\ c.time[j] + RepairAge < current_time}
             i == LastOf(c, items)
  <1>1. Lists(c.lru, c.linked)
    BY DEF Sound, Linked
  <1>2. i = Null
    <2> SUFFICES ASSUME i # Null PROVE FALSE
      OBVIOUS
    <2> HIDE DEF items
    <2>1. i \in items \cap c.linked
      BY <1>1, LastLinked
    <2>2. c.time[i] + RepairAge >= current_time /\ c.time[i] + RepairAge < current_time
      BY <2>1 DEF Sound, Young, items
    <2>3. c.time[i] \in Nat
      BY <2>1 DEF Sound, Typed
    <2> QED
      BY <2>2, <2>3, ItemsAssumption
  <1> QED
    BY <1>2 DEF tail_repair

\* What room is made, nothing but unlinked items goes.
LEMMA Reclaims ==
    ASSUME current_time \in Nat, NEW c, Fine(c), c.halted = "no"
    PROVE  /\ Goes(c, reclaim(c), c.refcount) /\ Fine(reclaim(c))
           /\ reclaim(c).halted = "no"
  <1> DEFINE d == evict(c)
  <1>1. Goes(c, c, c.refcount)
    BY DEF Fine, Goes
  <1>2. Goes(c, d, c.refcount) /\ d.halted = "no"
    <2> DEFINE items == {j \in Items : c.refcount[j] = 0}
               i == LastOf(c, items)
    <2>1. d = IF i = Null THEN c ELSE do_item_unlink(c, i)
      BY DEF evict
    <2>2. Lists(c.lru, c.linked) /\ c.linked \subseteq Items
      BY DEF Fine, Sound, Typed, Linked
    <2> HIDE DEF items, d
    <2>3. i # Null => i \in Items
      BY <2>2, LastLinked
    <2> HIDE DEF i
    <2>4. CASE i = Null
      BY <1>1, <2>1, <2>4
    <2>5. CASE i # Null
      <3>1. d = do_item_unlink(c, i)
        BY <2>1, <2>5
      <3>2. Unlinked(c, i, do_item_unlink(c, i))
        BY <2>3, <2>5, UnlinkRuns
      <3> QED
        BY <3>1, <3>2 DEF Unlinked, Goes
    <2> QED
      BY <2>4, <2>5
  <1> HIDE DEF d
  <1>3. Sound(d)
    BY <1>2 DEF Goes
  <1>4. EvictToFree => tail_repair(d) = d
    BY <1>3, RepairsNothing
  <1>5. reclaim(c) = c \/ reclaim(c) = d
    BY <1>4 DEF reclaim, d
  <1> QED
    BY <1>1, <1>2, <1>5 DEF Goes, Fine

\* A free chunk is taken for a new item.
LEMMA NewItem ==
    ASSUME NEW c, Fine(c), c.halted = "no", NEW i \in c.free, NEW k \in Keys, NEW exptime
    PROVE  /\ i \in Items /\ Goes(c, new_item(c, i, k, exptime), More(c.refcount, i))
           /\ new_item(c, i, k, exptime).halted = "no"
  <1> DEFINE e == new_item(c, i, k, exptime)
             one == 1
  <1>1. Shape(c) /\ Sound(c)
    BY DEF Fine
  <1>2. i \in Items /\ i \notin c.linked /\ c.refcount[i] = 0
    BY <1>1 DEF Sound, Typed, Linked, FreeBut
  <1>3. More(c.refcount, i) = [c.refcount EXCEPT ![i] = one]
    BY <1>2 DEF More
  <1>4. e = [c EXCEPT !.free = @ \ {i}, !.deleted = @ \ {i}, !.refcount[i] = one,
                      !.key[i] = k, !.exptime[i] = exptime]
    BY DEF new_item
  <1>5. one \in Nat \ {0}
    OBVIOUS
  <1> HIDE DEF one, e
  <1>6. /\ Shape(e) /\ e.free = c.free \ {i} /\ e.deleted = c.deleted \ {i}
        /\ e.refcount = [c.refcount EXCEPT ![i] = one] /\ e.key = [c.key EXCEPT ![i] = k]
        /\ e.linked = c.linked /\ e.table = c.table /\ e.time = c.time /\ e.lru = c.lru
        /\ e.halted = c.halted
    BY <1>1, <1>4 DEF Shape, Fields
  <1>7. Typed(e)
    BY <1>1, <1>2, <1>5, <1>6 DEF Sound, Typed
  <1>8. \A j \in Items : /\ e.refcount[j] = IF j = i THEN one ELSE c.refcount[j]
                         /\ e.key[j] = IF j = i THEN k ELSE c.key[j]
    BY <1>1, <1>6 DEF Sound, Typed
  <1>9. Linked(e)
    <2>1. \A j \in c.linked : j \in Items /\ j # i
      BY <1>1, <1>2 DEF Sound, Typed
    <2>2. e.free \cap e.linked = {} /\ Lists(e.lru, e.linked)
      BY <1>1, <1>6 DEF Sound, Linked
    <2>3. \A j \in Items : j \notin e.free => e.key[j] \in Keys
      BY <1>1, <1>6, <1>8 DEF Sound, Linked
    <2>4. \A h \in Keys : e.table[h] # Null => e.table[h] \in e.linked /\ e.key[e.table[h]] = h
      BY <1>1, <1>6, <1>8, <2>1 DEF Sound, Linked
    <2>5. \A j \in e.linked : e.table[e.key[j]] = j
      BY <1>1, <1>6, <1>8, <2>1 DEF Sound, Linked
    <2> QED
      BY <2>2, <2>3, <2>4, <2>5 DEF Linked
  <1>10. FreeBut(e, {})
    BY <1>1, <1>5, <1>6, <1>8 DEF Sound, FreeBut, Typed
  <1>11. Young(e) /\ Queued(e) = Queued(c)
    BY <1>1, <1>6 DEF Sound, Young, Queued
  <1>12. Sound(e)
    BY <1>7, <1>9, <1>10, <1>11 DEF Sound
  <1> QED
    BY <1>2, <1>3, <1>6, <1>11, <1>12 DEF Goes, e

\* do_item_alloc returns a chunk that was free, with one reference, or none.
LEMMA AllocGoes ==
    ASSUME current_time \in Nat, NEW c, Fine(c), c.halted = "no",
           NEW k \in Keys, NEW exptime, NEW room,
           NEW a \in do_item_alloc(c, k, exptime, room)
    PROVE  Got(c, a) /\ a.c.halted = "no" /\ Fine(a.c)
  <1> DEFINE d == reclaim(c)
  <1>1. Goes(c, d, c.refcount) /\ Fine(d) /\ d.halted = "no"
    BY Reclaims
  <1>2. Goes(c, c, c.refcount)
    BY DEF Fine, Goes
  <1> HIDE DEF d
  <1>3. CASE a = [it |-> Null, c |-> c] \/ a = [it |-> Null, c |-> d]
    <2>1. a.it = Null /\ (a.c = c \/ a.c = d)
      BY <1>3
    <2> QED
      BY <1>1, <1>2, <2>1 DEF Got
  <1>4. ASSUME NEW i \in d.free, a = [it |-> i, c |-> new_item(d, i, k, exptime)]
        PROVE  Got(c, a) /\ a.c.halted = "no" /\ Fine(a.c)
    <2>1. a.it = i /\ a.c = new_item(d, i, k, exptime)
      BY <1>4
    <2>2. /\ i \in Items /\ Goes(d, a.c, More(d.refcount, i))
          /\ a.c.halted = "no"
      BY <1>1, <1>4, <2>1, NewItem
    <2>3. Goes(c, a.c, More(c.refcount, i))
      BY <1>1, <2>2 DEF Goes
    <2>4. i # Null
      BY <2>2, ItemsAssumption
    <2> QED
      BY <2>1, <2>2, <2>3, <2>4 DEF Got, Goes, Fine
  <1>5. \/ a = [it |-> Null, c |-> c] \/ a = [it |-> Null, c |-> d]
        \/ \E i \in d.free : a = [it |-> i, c |-> new_item(d, i, k, exptime)]
    BY DEF do_item_alloc, d
  <1> QED
    BY <1>3, <1>4, <1>5

----------------------------------------------------------------------------
(* Other data; the unlinks of a flush *)

\* d is c with other data and cas ids.
Same(c, d) == Shape(d) /\ \A f \in Fields \ {"data", "cas_id", "last_cas"} : d[f] = c[f]

\* The proofs are not about data and cas ids.
LEMMA SameGoes ==
    ASSUME NEW b, NEW c, NEW d, NEW refs, Goes(b, c, refs), Same(c, d)
    PROVE  Goes(b, d, refs) /\ (d.halted = "no" => c.halted = "no")
  <1>1. /\ d.free = c.free /\ d.linked = c.linked /\ d.deleted = c.deleted
        /\ d.refcount = c.refcount /\ d.key = c.key /\ d.time = c.time
        /\ d.table = c.table /\ d.lru = c.lru /\ d.halted = c.halted /\ Shape(d)
    BY DEF Same, Fields
  <1>2. Sound(c) => Sound(d)
    BY <1>1 DEF Sound, Typed, Linked, FreeBut, Young
  <1>3. Queued(d) = Queued(c)
    BY <1>1 DEF Queued
  <1> QED
    BY <1>1, <1>2, <1>3 DEF Goes

\* The three ways in which these are written.
LEMMA SameData ==
    ASSUME NEW c, Shape(c), NEW i, NEW text
    PROVE  Same(c, [c EXCEPT !.data[i] = text])
  BY DEF Same, Shape, Fields

\* As SameData.
LEMMA SameDataCas ==
    ASSUME NEW c, Shape(c), NEW i, NEW text, NEW id
    PROVE  Same(c, [c EXCEPT !.data[i] = text, !.cas_id[i] = id])
  BY DEF Same, Shape, Fields

\* As SameData.
LEMMA SameLastCas ==
    ASSUME NEW c, Shape(c), NEW i, NEW text, NEW id, NEW last
    PROVE  Same(c, [c EXCEPT !.last_cas = last, !.cas_id[i] = id, !.data[i] = text])
  BY DEF Same, Shape, Fields

\* f holds the cache after each of the first `end` unlinks of a flush.
Flushing(f, c, end) ==
    f = [n \in 0 .. end |-> IF n = 0 THEN c ELSE do_item_unlink(f[n - 1], c.lru[n])]

\* Such functions exist: the shortest end without one would have a predecessor
\* without one.
LEMMA FlushingExists ==
    ASSUME NEW c, NEW n \in Nat
    PROVE  \E r : Flushing(r, c, n)
  <1> DEFINE T == {m \in 0 .. n : ~\E r : Flushing(r, c, m)}
  <1>1. SUFFICES ASSUME T # {} PROVE FALSE
    <2>1. n \notin T
      BY <1>1
    <2> QED
      BY <2>1
  <1>2. PICK x \in T : \A y \in T : x <= y
    <2>1. T \subseteq Nat
      OBVIOUS
    <2> HIDE DEF T
    <2> QED
      BY <1>1, <2>1, Smallest
  <1>3. x # 0
    <2>1. Flushing([i \in 0 .. 0 |-> c], c, 0)
      BY DEF Flushing
    <2> QED
      BY <2>1
  <1>4. x \in 1 .. n /\ x - 1 \in 0 .. n /\ x - 1 \notin T
    BY <1>2, <1>3
  <1>5. PICK r : Flushing(r, c, x - 1)
    BY <1>4
  <1> DEFINE q == [i \in 0 .. x |-> IF i = x THEN do_item_unlink(r[x - 1], c.lru[x]) ELSE r[i]]
             p == [i \in 0 .. x |-> IF i = 0 THEN c ELSE do_item_unlink(q[i - 1], c.lru[i])]
  <1>6. ASSUME NEW i \in 0 .. x PROVE q[i] = p[i]
    <2>1. CASE i = x
      BY <1>4, <2>1
    <2>2. CASE i = 0
      <3>1. r[0] = c
        BY <1>4, <1>5 DEF Flushing
      <3> QED
        BY <1>4, <2>2, <3>1
    <2>3. CASE i \in 1 .. x - 1
      <3>1. r[i] = do_item_unlink(r[i - 1], c.lru[i])
        BY <1>4, <1>5, <2>3 DEF Flushing
      <3>2. i - 1 \in 0 .. x /\ i - 1 # x /\ i # x /\ i # 0
        BY <1>4, <2>3
      <3>3. q[i - 1] = r[i - 1] /\ q[i] = r[i]
        BY <3>2
      <3>4. p[i] = do_item_unlink(q[i - 1], c.lru[i])
        BY <3>2
      <3> QED
        BY <3>1, <3>3, <3>4
    <2> QED
      BY <1>4, <2>1, <2>2, <2>3
  <1>7. q = p
    BY <1>6
  <1>8. Flushing(q, c, x)
    BY <1>7 DEF Flushing
  <1> QED
    BY <1>2, <1>8

\* The unlinks of a flush, one after the other.
LEMMA FlushingGoes ==
    ASSUME NEW c, Fine(c), c.halted = "no", NEW end \in 0 .. Len(c.lru),
           NEW f, Flushing(f, c, end)
    PROVE  Goes(c, f[end], c.refcount)
  <1> DEFINE P(n) == Goes(c, f[n], c.refcount) /\ f[n].halted = "no"
             T == {n \in 0 .. end : ~P(n)}
  <1>1. Len(c.lru) \in Nat /\ \A n \in 1 .. Len(c.lru) : c.lru[n] \in Items
    BY DEF Fine, Sound, Linked, Lists
  <1>2. SUFFICES ASSUME T # {} PROVE FALSE
    <2>1. end \notin T
      BY <1>2
    <2> QED
      BY <1>1, <2>1
  <1>3. PICK x \in T : \A y \in T : x <= y
    <2>1. T \subseteq Nat
      OBVIOUS
    <2> HIDE DEF T
    <2> QED
      BY <1>2, <2>1, Smallest
  <1>4. f[0] = c
    BY <1>1 DEF Flushing
  <1>5. P(0)
    BY <1>4 DEF Goes, Fine
  <1> HIDE DEF P
  <1>6. x \in 1 .. end /\ x - 1 \in 0 .. end /\ x - 1 \notin T
    BY <1>1, <1>3, <1>5
  <1> DEFINE b == f[x - 1]
             i == c.lru[x]
  <1>7. P(x - 1)
    BY <1>6
  <1>8. Goes(c, b, c.refcount) /\ b.halted = "no" /\ Fine(b)
    BY <1>7 DEF P, Goes, Fine
  <1>9. f[x] = do_item_unlink(b, i) /\ i \in Items
    BY <1>1, <1>6 DEF Flushing
  <1> HIDE DEF b, i
  <1>10. Unlinked(b, i, f[x])
    BY <1>8, <1>9, UnlinkRuns
  <1>11. P(x)
    BY <1>8, <1>10 DEF P, Goes, Unlinked
  <1> QED
    BY <1>3, <1>11

\* do_item_flush_expired keeps a cache sound, and the counts.
LEMMA FlushGoes ==
    ASSUME NEW c, Fine(c), c.halted = "no"
    PROVE  Goes(c, do_item_flush_expired(c), c.refcount)
  <1> DEFINE old == {n \in DOMAIN c.lru : c.time[c.lru[n]] < oldest_live}
             first == CHOOSE n \in old : \A m \in old : n <= m
             end == IF old = {} THEN Len(c.lru) ELSE first - 1
             f == CHOOSE f : f = [n \in 0 .. end |->
                      IF n = 0 THEN c ELSE do_item_unlink(f[n - 1], c.lru[n])]
  <1>1. CASE oldest_live = 0
    <2>1. do_item_flush_expired(c) = c
      BY <1>1 DEF do_item_flush_expired
    <2> QED
      BY <2>1 DEF Fine, Goes
  <1>2. CASE oldest_live # 0
    <2>1. do_item_flush_expired(c) = f[end]
      BY <1>2 DEF do_item_flush_expired
    <2>2. Len(c.lru) \in Nat /\ DOMAIN c.lru = 1 .. Len(c.lru)
      BY DEF Fine, Sound, Linked, Lists
    <2>3. end \in 0 .. Len(c.lru)
      <3>1. old \subseteq 1 .. Len(c.lru)
        BY <2>2
      <3> HIDE DEF old
      <3>2. CASE old = {}
        BY <2>2, <3>2
      <3>3. CASE old # {}
        <4>1. old \subseteq Nat
          BY <3>1
        <4>2. \E n \in old : \A m \in old : n <= m
          BY <3>3, <4>1, Smallest
        <4>3. first \in old
          BY <4>2
        <4> HIDE DEF first
        <4> QED
          BY <2>2, <3>1, <3>3, <4>3
      <3> QED
        BY <3>2, <3>3
    <2> HIDE DEF end
    <2>4. \E r : Flushing(r, c, end)
      <3>1. end \in Nat
        BY <2>2, <2>3
      <3> QED
        BY <3>1, FlushingExists
    <2>5. Flushing(f, c, end)
      BY <2>4 DEF Flushing
    <2> HIDE DEF f
    <2> QED
      BY <2>1, <2>3, <2>5, FlushingGoes
  <1> QED
    BY <1>1, <1>2

----------------------------------------------------------------------------
(* Arithmetic *)

\* A reference taken and given back; the order of takes is irrelevant.
LEMMA LessMore ==
    ASSUME NEW refs \in [Items -> Nat], NEW i \in Items
    PROVE  /\ Less(More(refs, i), i) = refs /\ More(refs, i) \in [Items -> Nat]
           /\ \A j \in Items : More(More(refs, i), j) = More(More(refs, j), i)
  <1>1. More(refs, i) \in [Items -> Nat]
    BY DEF More
  <1>2. \A j \in Items : More(refs, i)[j] = IF j = i THEN refs[j] + 1 ELSE refs[j]
    BY DEF More
  <1>3. More(refs, i)[i] # 0 /\ More(refs, i)[i] - 1 = refs[i]
    <2> DEFINE n == refs[i]
    <2>1. n \in Nat /\ More(refs, i)[i] = n + 1
      BY <1>2
    <2> HIDE DEF n
    <2>2. n + 1 # 0 /\ n + 1 - 1 = n
      BY <2>1
    <2> QED
      BY <2>1, <2>2 DEF n
  <1>4. Less(More(refs, i), i) = [More(refs, i) EXCEPT ![i] = refs[i]]
    BY <1>3 DEF Less
  <1>5. Less(More(refs, i), i) = refs
    BY <1>1, <1>2, <1>4
  <1>6. ASSUME NEW j \in Items PROVE More(More(refs, i), j) = More(More(refs, j), i)
    BY DEF More
  <1> QED
    BY <1>1, <1>5, <1>6

\* A reference taken and given back around a step that leaves the references.
LEMMA TakenBack ==
    ASSUME NEW c, Fine(c), NEW d, NEW i \in Items, Goes(c, d, More(c.refcount, i))
    PROVE  Goes(c, do_item_remove(d, i), c.refcount)
  <1> DEFINE e == do_item_remove(d, i)
  <1>1. Fine(d)
    BY DEF Goes, Fine
  <1>2. Goes(d, e, Less(d.refcount, i))
    BY <1>1, RemoveGoes
  <1> HIDE DEF e
  <1>3. ASSUME e.halted = "no" PROVE e.refcount = c.refcount
    <2>1. d.halted = "no" /\ e.refcount = Less(d.refcount, i)
      BY <1>2, <1>3 DEF Goes
    <2>2. d.refcount = More(c.refcount, i) /\ c.halted = "no"
      BY <2>1 DEF Goes
    <2>3. c.refcount \in [Items -> Nat]
      BY <2>2 DEF Fine, Sound, Typed
    <2> QED
      BY <2>1, <2>2, <2>3, LessMore
  <1>4. Goes(c, e, c.refcount)
    BY <1>2, <1>3 DEF Goes
  <1> QED
    BY <1>4 DEF e

\* do_store_item gives back what its lookup held.
LEMMA DropGoes ==
    ASSUME NEW c, Fine(c), NEW g, Got(c, g), NEW d, Goes(g.c, d, g.c.refcount)
    PROVE  Goes(c, Drop(d, g.it), c.refcount)
  <1>1. CASE g.it = Null
    <2>1. Drop(d, g.it) = d
      BY <1>1 DEF Drop
    <2>2. Goes(c, g.c, c.refcount)
      BY <1>1 DEF Got
    <2>3. Goes(c, d, c.refcount)
      BY <2>2 DEF Goes
    <2> QED
      BY <2>1, <2>3
  <1>2. CASE g.it # Null
    <2> DEFINE i == g.it
    <2>1. Drop(d, i) = do_item_remove(d, i) /\ i \in Items
      BY <1>2 DEF Drop, Got
    <2>2. Goes(c, g.c, More(c.refcount, i))
      BY <1>2 DEF Got
    <2>3. Goes(c, d, More(c.refcount, i))
      BY <2>2 DEF Goes
    <2> HIDE DEF i
    <2>4. Goes(c, do_item_remove(d, i), c.refcount)
      BY <2>1, <2>3, TakenBack
    <2> QED
      BY <2>1, <2>4 DEF i
  <1> QED
    BY <1>1, <1>2

\* The cache a lookup leaves.
LEMMA GotFine ==
    ASSUME NEW c, Fine(c), NEW g, Got(c, g)
    PROVE  Fine(g.c) /\ Goes(g.c, g.c, g.c.refcount)
  BY DEF Got, Goes, Fine

\* An item that is held is not free, and has a key.
LEMMA HeldKey ==
    ASSUME NEW c, Fine(c), c.halted = "no", NEW i \in Items, c.refcount[i] # 0
    PROVE  i \notin c.free /\ c.key[i] \in Keys
  BY DEF Fine, Sound, Linked, FreeBut

\* do_add_delta, in place or in a new item, leaves the counts.
LEMMA DeltaGoes ==
    ASSUME current_time \in Nat, NEW c, Fine(c), c.halted = "no", NEW i \in Items,
           c.refcount[i] # 0, NEW cmd, NEW e \in do_add_delta(c, i, cmd)
    PROVE  Goes(c, e, c.refcount)
  <1> DEFINE v == number(c.data[i])
             text == digits(result(v, cmd))
             pad == [n \in 1 .. Len(c.data[i]) - Len(text) |-> Blank]
             both == text \o pad
             next == c.last_cas + 1
             same == [c EXCEPT !.last_cas = @ + 1, !.cas_id[i] = c.last_cas + 1,
                               !.data[i] = text \o pad]
             new(a) == do_item_remove(do_item_replace(
                           [a.c EXCEPT !.data[a.it] = text], i, a.it), a.it)
             key == c.key[i]
             exptime == c.exptime[i]
             room == Len(text)
  <1>1. \/ e = c \/ e = same
        \/ \E a \in do_item_alloc(c, key, exptime, room) :
              e = IF a.it = Null THEN a.c ELSE new(a)
    BY DEF do_add_delta
  <1>2. Goes(c, c, c.refcount) /\ Shape(c) /\ key \in Keys
    BY HeldKey DEF Goes, Fine
  <1>3. Same(c, same)
    <2>1. same = [c EXCEPT !.last_cas = next, !.cas_id[i] = next, !.data[i] = both]
      BY <1>2 DEF Shape, Fields
    <2> HIDE DEF same, next, both
    <2>2. Same(c, [c EXCEPT !.last_cas = next, !.cas_id[i] = next, !.data[i] = both])
      BY <1>2, SameLastCas
    <2> QED
      BY <2>1, <2>2
  <1> HIDE DEF text, key, exptime, room, same
  <1>4. ASSUME NEW a \in do_item_alloc(c, key, exptime, room), a.it # Null
        PROVE  Goes(c, new(a), c.refcount)
    <2> DEFINE i2 == a.it
               b == [a.c EXCEPT !.data[i2] = text]
               d == do_item_replace(b, i, i2)
    <2>1. Got(c, a)
      BY <1>2, <1>4, AllocGoes
    <2>2. i2 \in Items /\ Goes(c, a.c, More(c.refcount, i2)) /\ Shape(a.c)
      BY <1>4, <2>1 DEF Got, Goes
    <2>3. new(a) = do_item_remove(d, i2)
      OBVIOUS
    <2> HIDE DEF i2
    <2>4. Same(a.c, b)
      BY <2>2, SameData
    <2> HIDE DEF b
    <2>5. Goes(c, b, More(c.refcount, i2)) /\ Fine(b)
      <3>1. Goes(c, b, More(c.refcount, i2))
        BY <2>2, <2>4, SameGoes
      <3> QED
        BY <3>1 DEF Goes, Fine
    <2>6. Goes(b, d, b.refcount)
      BY <2>2, <2>5, ReplaceGoes
    <2> HIDE DEF d, new
    <2>7. Goes(c, d, More(c.refcount, i2))
      BY <2>5, <2>6 DEF Goes
    <2>8. Goes(c, do_item_remove(d, i2), c.refcount)
      BY <2>2, <2>7, TakenBack
    <2> QED
      BY <2>3, <2>8
  <1>5. ASSUME NEW a \in do_item_alloc(c, key, exptime, room), a.it = Null
        PROVE  Goes(c, a.c, c.refcount)
    <2>1. Got(c, a)
      BY <1>2, <1>5, AllocGoes
    <2> QED
      BY <1>5, <2>1, ItemsAssumption DEF Got
  <1>6. Goes(c, same, c.refcount)
    BY <1>2, <1>3, SameGoes
  <1> HIDE DEF new
  <1> QED
    BY <1>1, <1>2, <1>4, <1>5, <1>6

----------------------------------------------------------------------------
(* Storing *)

\* The combined item of append and prepend is linked in place of the old one.
LEMMA AppendGoes ==
    ASSUME current_time \in Nat, NEW c, Fine(c), NEW g, Got(c, g), g.it # Null,
           g.c.halted = "no", NEW k \in Keys, NEW exptime, NEW room, NEW text,
           NEW a \in do_item_alloc(g.c, k, exptime, room)
    PROVE  /\ a.it = Null => Goes(c, do_item_remove(a.c, g.it), c.refcount)
           /\ a.it # Null =>
                 Goes(c, do_item_remove(do_item_remove(do_item_replace(
                         [a.c EXCEPT !.data[a.it] = text], g.it, a.it), g.it), a.it),
                      c.refcount)
  <1> DEFINE i == g.it
             j == a.it
             b == g.c
  <1>1. Fine(b) /\ b.halted = "no" /\ i \in Items /\ Goes(c, b, More(c.refcount, i))
    BY GotFine DEF Got
  <1>2. Got(b, a)
    <2>1. Fine(g.c)
      BY GotFine
    <2> QED
      BY <2>1, AllocGoes
  <1>3. b.refcount = More(c.refcount, i) /\ c.halted = "no" /\ Queued(b) = Queued(c)
    BY <1>1 DEF Goes
  <1>4. c.refcount \in [Items -> Nat]
    BY <1>3 DEF Fine, Sound, Typed
  <1> HIDE DEF i, j, b
  <1>5. ASSUME a.it = Null PROVE Goes(c, do_item_remove(a.c, i), c.refcount)
    <2>1. Goes(b, a.c, b.refcount)
      BY <1>2, <1>5, ItemsAssumption DEF Got
    <2>2. Goes(c, a.c, More(c.refcount, i))
      BY <1>1, <1>3, <2>1 DEF Goes
    <2> QED
      BY <1>1, <2>2, TakenBack
  <1>6. ASSUME a.it # Null
        PROVE  Goes(c, do_item_remove(do_item_remove(do_item_replace(
                         [a.c EXCEPT !.data[j] = text], i, j), i), j), c.refcount)
    <2> DEFINE d == [a.c EXCEPT !.data[j] = text]
               e == do_item_replace(d, i, j)
               f == do_item_remove(e, i)
               m == More(c.refcount, j)
    <2>1. j \in Items /\ Goes(b, a.c, More(b.refcount, j))
      BY <1>2, <1>6 DEF Got, j
    <2>2. Same(a.c, d)
      <3>1. Shape(a.c)
        BY <2>1 DEF Goes
      <3> QED
        BY <3>1, SameData
    <2> HIDE DEF d
    <2>3. Goes(b, d, More(b.refcount, j)) /\ Fine(d)
      <3>1. Goes(b, d, More(b.refcount, j))
        BY <2>1, <2>2, SameGoes
      <3> QED
        BY <3>1 DEF Goes, Fine
    <2>4. Goes(d, e, d.refcount)
      BY <1>1, <2>1, <2>3, ReplaceGoes
    <2> HIDE DEF e
    <2>5. Fine(e)
      BY <2>4 DEF Goes, Fine
    <2>6. Goes(e, f, Less(e.refcount, i))
      BY <1>1, <2>5, RemoveGoes
    <2>7. More(More(c.refcount, i), j) = More(m, i) /\ Less(More(m, i), i) = m
      <3>1. m \in [Items -> Nat]
        BY <1>4, <2>1, LessMore
      <3>2. Less(More(m, i), i) = m
        BY <1>1, <3>1, LessMore
      <3>3. More(More(c.refcount, i), j) = More(m, i)
        BY <1>1, <1>4, <2>1, LessMore
      <3> QED
        BY <3>2, <3>3
    <2> HIDE DEF f, m
    <2>8. ASSUME f.halted = "no"
          PROVE  f.refcount = m /\ Queued(f) = Queued(c)
      <3>1. e.halted = "no" /\ f.refcount = Less(e.refcount, i) /\ Queued(f) = Queued(e)
        BY <2>6, <2>8 DEF Goes
      <3>2. d.halted = "no" /\ e.refcount = d.refcount /\ Queued(e) = Queued(d)
        BY <2>4, <3>1 DEF Goes
      <3>3. d.refcount = More(b.refcount, j) /\ Queued(d) = Queued(b)
        BY <2>3, <3>2 DEF Goes
      <3>4. Less(e.refcount, i) = m
        BY <1>3, <2>7, <3>2, <3>3
      <3> QED
        BY <1>3, <3>1, <3>2, <3>3, <3>4
    <2>9. Goes(c, f, m)
      BY <1>3, <2>6, <2>8 DEF Goes
    <2>10. Goes(c, do_item_remove(f, j), c.refcount)
      <3>1. Goes(c, f, More(c.refcount, j))
        BY <2>9 DEF m
      <3> QED
        BY <2>1, <3>1, TakenBack
    <2> QED
      BY <2>10 DEF f, e, d
  <1> QED
    BY <1>5, <1>6 DEF i, j

\* The ways do_store_item may go, to e: an add of what is there, a refusal, a cas, an
\* append or a prepend, and the others.
StoreWays(c, i, cmd, e) ==
    LET k      == c.key[i]
        locked == delete_locked(c, k)
        g      == do_item_get_notedeleted(c, k)
        old    == IF locked THEN do_item_get_nocheck(g.c, k) ELSE g
        text   == joined(c, cmd, i, g.it)
    IN \/ e = do_item_remove(do_item_update(g.c, g.it), g.it) /\ g.it # Null
       \/ e = g.c /\ g.it = Null
       \/ e = Drop(IF old.it # Null /\ c.cas_id[i] = old.c.cas_id[old.it]
                   THEN do_item_replace(old.c, old.it, i) ELSE old.c, old.it)
       \/ /\ g.it # Null
          /\ \E a \in do_item_alloc(g.c, k, c.exptime[g.it], Len(text)) :
                e = IF a.it = Null THEN do_item_remove(a.c, g.it)
                    ELSE do_item_remove(do_item_remove(do_item_replace(
                             [a.c EXCEPT !.data[a.it] = text], g.it, a.it), g.it), a.it)
       \/ e = Drop(IF old.it # Null THEN do_item_replace(old.c, old.it, i)
                   ELSE do_item_link(old.c, i), old.it)

\* A lookup finds nothing under a delete lock.
LEMMA LockedGet ==
    ASSUME NEW c, NEW k, delete_locked(c, k)
    PROVE  LET g == do_item_get_notedeleted(c, k) IN g.it = Null /\ g.c = c
  <1>1. ~Visible(c, k)
    BY DEF Visible
  <1>2. do_item_get_notedeleted(c, k) = [it |-> Null, c |-> c]
    BY <1>1 DEF do_item_get_notedeleted
  <1> QED
    BY <1>2

\* There is no other way.
LEMMA StoreCases ==
    ASSUME NEW c, NEW i, NEW cmd, NEW e \in do_store_item(c, i, cmd)
    PROVE  StoreWays(c, i, cmd, e)
  <1> DEFINE k == c.key[i]
             locked == delete_locked(c, k)
             g == do_item_get_notedeleted(c, k)
             old == IF locked THEN do_item_get_nocheck(g.c, k) ELSE g
             text == joined(c, cmd, i, g.it)
             exptime == c.exptime[g.it]
             room == Len(text)
             new(a) == do_item_remove(do_item_remove(do_item_replace(
                           [a.c EXCEPT !.data[a.it] = text], g.it, a.it), g.it), a.it)
             x == do_item_remove(do_item_update(g.c, g.it), g.it)
             y == IF old.it # Null /\ c.cas_id[i] = old.c.cas_id[old.it]
                  THEN do_item_replace(old.c, old.it, i) ELSE old.c
             z == IF old.it # Null THEN do_item_replace(old.c, old.it, i)
                                   ELSE do_item_link(old.c, i)
  <1>1. locked => g.it = Null
    BY LockedGet
  <1>2. \/ e = x /\ g.it # Null
        \/ e = g.c /\ g.it = Null
        \/ e = Drop(y, old.it)
        \/ /\ g.it # Null
           /\ \E a \in do_item_alloc(g.c, k, exptime, room) :
                 e = IF a.it = Null THEN do_item_remove(a.c, g.it) ELSE new(a)
        \/ e = Drop(z, old.it)
    <2> DEFINE M == {IF a.it = Null THEN do_item_remove(a.c, g.it) ELSE new(a) :
                     a \in do_item_alloc(g.c, k, exptime, room)}
               all == CASE g.it # Null /\ cmd = "add" -> {x}
                        [] refused(g, locked, cmd) -> {g.c}
                        [] cmd = "cas" -> {Drop(y, old.it)}
                        [] cmd \in {"append", "prepend"} /\ g.it # Null -> M
                        [] OTHER -> {Drop(z, old.it)}
    <2>1. do_store_item(c, i, cmd) = all
      BY DEF do_store_item
    <2>2. refused(g, locked, cmd) => g.it = Null
      BY <1>1 DEF refused
    <2> HIDE DEF x, y, z, k, locked, g, old, M
    <2>3. CASE g.it # Null /\ cmd = "add"
      BY <2>1, <2>2, <2>3
    <2>4. CASE refused(g, locked, cmd) /\ ~(g.it # Null /\ cmd = "add")
      <3>1. cmd # "cas"
        BY <2>4 DEF refused
      <3> QED
        BY <2>1, <2>2, <2>4, <3>1
    <2>5. CASE cmd = "cas" /\ ~refused(g, locked, cmd)
      <3>1. all = {Drop(y, old.it)}
        BY <2>5
      <3> QED
        BY <2>1, <3>1
    <2>6. CASE cmd \in {"append", "prepend"} /\ g.it # Null
      <3>1. all = M
        BY <2>2, <2>6
      <3> HIDE DEF all
      <3> QED
        BY <2>1, <2>6, <3>1 DEF M
    <2>7. CASE /\ ~(g.it # Null /\ cmd = "add") /\ ~refused(g, locked, cmd) /\ cmd # "cas"
               /\ ~(cmd \in {"append", "prepend"} /\ g.it # Null)
      <3>1. all = {Drop(z, old.it)}
        BY <2>7
      <3> QED
        BY <2>1, <3>1
    <2> QED
      BY <2>3, <2>4, <2>5, <2>6, <2>7
  <1> QED
    BY <1>2, Zenon DEF StoreWays

\* So does do_store_item, in all its cases.
LEMMA StoreGoes ==
    ASSUME current_time \in Nat, NEW c, Fine(c), c.halted = "no", NEW i \in Items,
           c.refcount[i] # 0, NEW cmd, NEW e \in do_store_item(c, i, cmd)
    PROVE  Goes(c, e, c.refcount)
  <1> DEFINE k == c.key[i]
             locked == delete_locked(c, k)
             g == do_item_get_notedeleted(c, k)
             old == IF locked THEN do_item_get_nocheck(g.c, k) ELSE g
             text == joined(c, cmd, i, g.it)
             exptime == c.exptime[g.it]
             room == Len(text)
             new(a) == do_item_remove(do_item_remove(do_item_replace(
                           [a.c EXCEPT !.data[a.it] = text], g.it, a.it), g.it), a.it)
             x == do_item_remove(do_item_update(g.c, g.it), g.it)
             y == IF old.it # Null /\ c.cas_id[i] = old.c.cas_id[old.it]
                  THEN do_item_replace(old.c, old.it, i) ELSE old.c
             z == IF old.it # Null THEN do_item_replace(old.c, old.it, i)
                                   ELSE do_item_link(old.c, i)
  <1>1. k \in Keys
    BY HeldKey
  <1>2. Got(c, g) /\ g.c.halted = "no" /\ Fine(g.c)
    <2>1. Got(c, g) /\ g.c.halted = "no"
      BY <1>1, GetGoes
    <2> HIDE DEF g
    <2> QED
      BY <2>1, GotFine
  <1>3. locked => g.it = Null
    BY LockedGet
  <1>4. \/ e = x /\ g.it # Null
        \/ e = g.c /\ g.it = Null
        \/ e = Drop(y, old.it)
        \/ /\ g.it # Null
           /\ \E a \in do_item_alloc(g.c, k, exptime, room) :
                 e = IF a.it = Null THEN do_item_remove(a.c, g.it) ELSE new(a)
        \/ e = Drop(z, old.it)
    BY StoreCases DEF StoreWays
  <1> HIDE DEF k, g, text, exptime, room, new
  <1>5. Got(c, old)
    <2>1. CASE ~locked
      BY <1>2, <2>1
    <2>2. CASE locked
      <3>1. Goes(c, g.c, c.refcount)
        BY <1>2, <1>3, <2>2, ItemsAssumption DEF Got
      <3>2. Got(g.c, do_item_get_nocheck(g.c, k))
        BY <1>1, <1>2, GetGoes
      <3> DEFINE h == do_item_get_nocheck(g.c, k)
      <3> HIDE DEF h
      <3>3. Got(c, h)
        <4>1. Got(g.c, h) /\ g.c.refcount = c.refcount
          BY <1>2, <3>1, <3>2 DEF Goes, h
        <4> QED
          BY <3>1, <4>1 DEF Got, Goes
      <3> QED
        BY <2>2, <3>3 DEF h
    <2> QED
      BY <2>1, <2>2
  <1> HIDE DEF locked, old
  <1>6. Fine(old.c) /\ Goes(old.c, old.c, old.c.refcount)
    BY <1>5, GotFine
  <1>7. CASE e = x /\ g.it # Null
    <2> DEFINE j == g.it
               d == do_item_update(g.c, j)
    <2>1. j \in Items /\ Goes(c, g.c, More(c.refcount, j))
      BY <1>2, <1>7 DEF Got
    <2> HIDE DEF j
    <2>2. Goes(g.c, d, g.c.refcount)
      BY <1>2, <2>1, UpdateGoes
    <2> HIDE DEF d
    <2>3. Goes(c, d, More(c.refcount, j))
      BY <2>1, <2>2 DEF Goes
    <2>4. Goes(c, do_item_remove(d, j), c.refcount)
      BY <2>1, <2>3, TakenBack
    <2> QED
      BY <1>7, <2>4 DEF d, j
  <1>8. CASE e = g.c /\ g.it = Null
    BY <1>2, <1>8, ItemsAssumption DEF Got
  <1>9. CASE e = Drop(y, old.it)
    <2>1. old.it # Null => old.it \in Items
      BY <1>5 DEF Got
    <2>2. old.it # Null => Goes(old.c, do_item_replace(old.c, old.it, i), old.c.refcount)
      BY <1>6, <2>1, ReplaceGoes
    <2>3. Goes(old.c, y, old.c.refcount)
      BY <1>6, <2>2
    <2> HIDE DEF y
    <2> QED
      BY <1>5, <1>9, <2>3, DropGoes
  <1>10. CASE /\ g.it # Null
              /\ \E a \in do_item_alloc(g.c, k, exptime, room) :
                    e = IF a.it = Null THEN do_item_remove(a.c, g.it) ELSE new(a)
    <2>1. PICK a \in do_item_alloc(g.c, k, exptime, room) :
              e = IF a.it = Null THEN do_item_remove(a.c, g.it) ELSE new(a)
      BY <1>10
    <2>2. Got(c, g) /\ g.c.halted = "no" /\ g.it # Null
      BY <1>2, <1>10
    <2>3. /\ a.it = Null => Goes(c, do_item_remove(a.c, g.it), c.refcount)
          /\ a.it # Null => Goes(c, new(a), c.refcount)
      BY <1>1, <2>2, AppendGoes DEF new
    <2> QED
      BY <2>1, <2>3
  <1>11. CASE e = Drop(z, old.it)
    <2>1. old.it # Null => old.it \in Items
      BY <1>5 DEF Got
    <2>2. old.it # Null => Goes(old.c, do_item_replace(old.c, old.it, i), old.c.refcount)
      BY <1>6, <2>1, ReplaceGoes
    <2>3. Goes(old.c, do_item_link(old.c, i), old.c.refcount)
      BY <1>6, LinkGoes
    <2>4. Goes(old.c, z, old.c.refcount)
      BY <2>2, <2>3
    <2> HIDE DEF z
    <2> QED
      BY <1>5, <1>11, <2>4, DropGoes
  <1> QED
    BY <1>4, <1>7, <1>8, <1>9, <1>10, <1>11

----------------------------------------------------------------------------
(* Counting copies *)

\* A set of numbers below a bound, and what one more or one less does to it.
LEMMA Counts ==
    ASSUME NEW S, IsFiniteSet(S), NEW x
    PROVE  /\ Cardinality(S) \in Nat
           /\ x \notin S => Cardinality(S \cup {x}) = Cardinality(S) + 1
           /\ x \in S => Cardinality(S) = Cardinality(S \ {x}) + 1
           /\ x \in S => Cardinality(S) # 0
           /\ IsFiniteSet(S \cup {x}) /\ IsFiniteSet(S \ {x})
  <1>1. Cardinality(S) \in Nat
    BY FS_CardinalityType
  <1>2. x \notin S => Cardinality(S \cup {x}) = Cardinality(S) + 1
    BY FS_AddElement
  <1>3. IsFiniteSet(S \cup {x})
    BY FS_AddElement
  <1>4. IsFiniteSet(S \ {x})
    BY FS_RemoveElement
  <1>5. ASSUME x \in S PROVE Cardinality(S) = Cardinality(S \ {x}) + 1
    <2> DEFINE R == S \ {x}
    <2>1. IsFiniteSet(R) /\ x \notin R /\ R \cup {x} = S
      BY <1>4, <1>5
    <2> HIDE DEF R
    <2>2. Cardinality(R \cup {x}) = Cardinality(R) + 1
      BY <2>1, FS_AddElement
    <2> QED
      BY <2>1, <2>2 DEF R
  <1>6. x \in S => Cardinality(S) # 0
    <2> HAVE x \in S
    <2>1. Cardinality(S \ {x}) \in Nat
      BY <1>4, FS_CardinalityType
    <2> QED
      BY <1>5, <2>1
  <1> QED
    BY <1>1, <1>2, <1>3, <1>4, <1>5, <1>6

\* Places in a sequence are finitely many.
LEMMA PlacesFinite ==
    ASSUME NEW n \in Nat, NEW S, S \subseteq 1 .. n
    PROVE  IsFiniteSet(S)
  <1>1. IsFiniteSet(1 .. n)
    BY FS_Interval
  <1> QED
    BY <1>1, FS_Subset

\* How often an item is in a sequence.
LEMMA CopiesNat ==
    ASSUME NEW s \in Seq(Items), NEW i
    PROVE  Copies(s, i) \in Nat /\ (i \in ToSet(s) => Copies(s, i) # 0)
           /\ (Copies(s, i) # 0 => i \in ToSet(s))
  <1> DEFINE S == {n \in DOMAIN s : s[n] = i}
  <1>1. S \subseteq 1 .. Len(s) /\ Len(s) \in Nat /\ DOMAIN s = 1 .. Len(s)
    OBVIOUS
  <1>2. IsFiniteSet(S)
    <2> HIDE DEF S
    <2> QED
      BY <1>1, PlacesFinite
  <1>3. Cardinality(S) \in Nat
    BY <1>2, FS_CardinalityType
  <1>4. ASSUME i \in ToSet(s) PROVE Cardinality(S) # 0
    <2>1. PICK n \in DOMAIN s : s[n] = i
      BY <1>4 DEF ToSet
    <2>2. n \in S
      BY <2>1
    <2> HIDE DEF S
    <2> QED
      BY <1>2, <2>2, Counts
  <1>5. ASSUME i \notin ToSet(s) PROVE Cardinality(S) = 0
    <2>1. S = {}
      BY <1>5 DEF ToSet
    <2> QED
      BY <2>1, FS_EmptySet
  <1> QED
    BY <1>3, <1>4, <1>5 DEF Copies

\* ... and in one that is longer by an item.
LEMMA CopiesAppend ==
    ASSUME NEW s \in Seq(Items), NEW x \in Items, NEW i
    PROVE  /\ Append(s, x) \in Seq(Items)
           /\ Copies(Append(s, x), i) = Copies(s, i) + (IF x = i THEN 1 ELSE 0)
           /\ ToSet(Append(s, x)) = ToSet(s) \cup {x}
  <1> DEFINE t == Append(s, x)
             l == Len(s)
             l1 == l + 1
             S == {n \in DOMAIN s : s[n] = i}
             T == {n \in DOMAIN t : t[n] = i}
  <1>1. /\ l \in Nat /\ t \in Seq(Items) /\ Len(t) = l1 /\ t[l1] = x
        /\ \A n \in 1 .. l : t[n] = s[n]
        /\ DOMAIN s = 1 .. l /\ DOMAIN t = 1 .. l1 /\ l1 \notin 1 .. l
        /\ 1 .. l1 = (1 .. l) \cup {l1}
    OBVIOUS
  <1> HIDE DEF t, l, l1
  <1>2. IsFiniteSet(S) /\ S \subseteq 1 .. l /\ l1 \notin S
    <2>1. S \subseteq 1 .. l
      BY <1>1
    <2> HIDE DEF S
    <2> QED
      BY <1>1, <2>1, PlacesFinite
  <1>3. CASE x = i
    <2>1. T = S \cup {l1}
      BY <1>1, <1>3
    <2> HIDE DEF S, T
    <2>2. Cardinality(T) = Cardinality(S) + 1
      BY <1>2, <2>1, Counts
    <2>3. Copies(t, i) = Copies(s, i) + 1
      BY <2>2 DEF Copies, S, T
    <2>4. ToSet(t) = ToSet(s) \cup {x}
      BY <1>1 DEF ToSet
    <2> QED
      BY <1>1, <1>3, <2>3, <2>4 DEF t
  <1>4. CASE x # i
    <2>1. T = S
      BY <1>1, <1>4
    <2>2. Copies(t, i) = Copies(s, i)
      BY <2>1 DEF Copies
    <2>3. Copies(s, i) \in Nat
      BY CopiesNat
    <2>4. ToSet(t) = ToSet(s) \cup {x}
      BY <1>1 DEF ToSet
    <2> QED
      BY <1>1, <1>4, <2>2, <2>3, <2>4 DEF t
  <1> QED
    BY <1>3, <1>4

\* The entries of the queue after the first n.
Rest(n) == {m \in 1 .. Len(todelete) : m > n}
\* Those of them that hold i.
RestOf(n, i) == {m \in Rest(n) : todelete[m] = i}

\* The n-th entry is one of the rest before it, and not after it.
LEMMA RestCounts ==
    ASSUME todelete \in Seq(Items), NEW n \in 1 .. Len(todelete), NEW i
    PROVE  /\ Cardinality(RestOf(n - 1, i)) =
                 Cardinality(RestOf(n, i)) + (IF todelete[n] = i THEN 1 ELSE 0)
           /\ Cardinality(RestOf(n, i)) \in Nat
           /\ Rest(n - 1) = Rest(n) \cup {n}
  <1> DEFINE l == Len(todelete)
             R == RestOf(n, i)
  <1>1. l \in Nat /\ n \in 1 .. l
    OBVIOUS
  <1>2. Rest(n - 1) = Rest(n) \cup {n} /\ n \notin Rest(n) /\ Rest(n) \subseteq 1 .. l
    BY <1>1 DEF Rest
  <1>3. R \subseteq 1 .. l /\ n \notin R
    BY <1>2 DEF RestOf
  <1>4. IsFiniteSet(R)
    <2> HIDE DEF R, l
    <2> QED
      BY <1>1, <1>3, PlacesFinite
  <1>5. CASE todelete[n] = i
    <2>1. RestOf(n - 1, i) = R \cup {n}
      BY <1>2, <1>5 DEF RestOf
    <2> HIDE DEF R
    <2>2. Cardinality(R \cup {n}) = Cardinality(R) + 1 /\ Cardinality(R) \in Nat
      BY <1>3, <1>4, Counts
    <2> QED
      BY <1>2, <1>5, <2>1, <2>2 DEF R
  <1>6. CASE todelete[n] # i
    <2>1. RestOf(n - 1, i) = R
      BY <1>2, <1>6 DEF RestOf
    <2>2. Cardinality(R) \in Nat
      BY <1>4, FS_CardinalityType
    <2> QED
      BY <1>2, <1>6, <2>1, <2>2
  <1> QED
    BY <1>5, <1>6

----------------------------------------------------------------------------
(* Entries of the delete queue *)

\* An entry of which the time has come is unlinked, and loses the reference the
\* queue held; another one is kept.
Ended(r, i, q) ==
    /\ Shape(q.c) /\ q.kept = r.kept
    /\ q.c.halted = "no" =>
          /\ r.c.halted = "no" /\ Sound(q.c) /\ q.c.refcount = Less(r.c.refcount, i)
          /\ Queued(q.c) = Queued(r.c) \ {i} /\ q.c.exptime = r.c.exptime
          /\ i \in r.c.deleted

\* What run_entry makes of one that is kept.
Kept(r, i, q) ==
    /\ Shape(q.c) /\ q.kept = Append(r.kept, i)
    /\ q.c.halted = "no" => q.c = r.c /\ i \in r.c.deleted

\* run_entry does the one or the other.
LEMMA EntryGoes ==
    ASSUME NEW r, Fine(r.c), NEW i \in Items
    PROVE  IF item_delete_lock_over(r.c, i) THEN Ended(r, i, run_entry(r, i))
                                            ELSE Kept(r, i, run_entry(r, i))
  <1> DEFINE c == r.c
             marked == i \in c.deleted
             held == c.refcount[i] > 0
             a == Expect(c, marked, "item_delete_lock_over")
             b == Expect(a, held, "run_deferred_deletes")
             d == [b EXCEPT !.deleted = @ \ {i}]
             x == do_item_unlink(d, i)
             e == do_item_remove(x, i)
             over == item_delete_lock_over(c, i)
             q == run_entry(r, i)
  <1>1. q = IF over THEN [c |-> e, kept |-> r.kept] ELSE [c |-> a, kept |-> Append(r.kept, i)]
    BY DEF run_entry
  <1>2. Shape(c) /\ Fine(c)
    BY DEF Fine
  <1>3. Shape(a) /\ (a.halted = "no" => a = c /\ marked)
    <2>1. "item_delete_lock_over" # "no"
      OBVIOUS
    <2> HIDE DEF marked, c
    <2> QED
      BY <1>2, <2>1, Expects
  <1> HIDE DEF a, held
  <1>4. Shape(b) /\ (b.halted = "no" => b = a)
    <2>1. "run_deferred_deletes" # "no"
      OBVIOUS
    <2> HIDE DEF c
    <2> QED
      BY <1>3, <2>1, Expects
  <1> HIDE DEF b
  <1>5. /\ Shape(d) /\ d.deleted = b.deleted \ {i}
        /\ \A f \in Fields \ {"deleted"} : d[f] = b[f]
    BY <1>4 DEF Shape, Fields
  <1> HIDE DEF d, q, c, over
  <1>6. ASSUME ~over PROVE Kept(r, i, q)
    <2>1. q.c = a /\ q.kept = Append(r.kept, i)
      BY <1>1, <1>6
    <2> QED
      BY <1>3, <2>1 DEF Kept, c
  <1>7. d.halted = "no" =>
            /\ c.halted = "no" /\ Sound(d) /\ d.refcount = c.refcount
            /\ Queued(d) = Queued(c) \ {i} /\ d.exptime = c.exptime /\ marked
    <2> HAVE d.halted = "no"
    <2>1. /\ d.deleted = c.deleted \ {i}
          /\ d.free = c.free /\ d.linked = c.linked /\ d.refcount = c.refcount
          /\ d.key = c.key /\ d.time = c.time /\ d.table = c.table /\ d.lru = c.lru
          /\ d.exptime = c.exptime /\ c.halted = "no" /\ marked
      BY <1>3, <1>4, <1>5 DEF Fields
    <2>2. Sound(c)
      BY <1>2, <2>1 DEF Fine
    <2>3. Typed(d) /\ Linked(d) /\ FreeBut(d, {}) /\ Young(d)
      BY <2>1, <2>2 DEF Sound, Typed, Linked, FreeBut, Young
    <2> QED
      BY <2>1, <2>3 DEF Sound, Queued
  <1>8. Fine(d)
    BY <1>5, <1>7 DEF Fine
  <1>9. Goes(d, x, d.refcount)
    BY <1>8, UnlinkGoes
  <1>10. x.halted = "no" => x.exptime = d.exptime
    <2> HAVE x.halted = "no"
    <2>1. d.halted = "no"
      BY <1>9 DEF Goes
    <2> QED
      BY <1>8, <2>1, UnlinkRuns DEF Unlinked
  <1> HIDE DEF x
  <1>11. Fine(x)
    BY <1>9 DEF Goes, Fine
  <1>12. Goes(x, e, Less(x.refcount, i)) /\ (e.halted = "no" => e.exptime = x.exptime)
    BY <1>11, RemoveGoes
  <1> HIDE DEF e
  <1>13. ASSUME over PROVE Ended(r, i, q)
    <2>1. q.c = e /\ q.kept = r.kept
      BY <1>1, <1>13
    <2>2. ASSUME e.halted = "no"
          PROVE  /\ c.halted = "no" /\ Sound(e) /\ e.refcount = Less(c.refcount, i)
                 /\ Queued(e) = Queued(c) \ {i} /\ e.exptime = c.exptime /\ marked
      <3>1. /\ x.halted = "no" /\ Sound(e) /\ e.refcount = Less(x.refcount, i)
            /\ Queued(e) = Queued(x) /\ e.exptime = x.exptime
        BY <1>12, <2>2 DEF Goes
      <3>2. d.halted = "no" /\ x.refcount = d.refcount /\ Queued(x) = Queued(d)
            /\ x.exptime = d.exptime
        BY <1>9, <1>10, <3>1 DEF Goes
      <3> QED
        BY <1>7, <3>1, <3>2
    <2> QED
      BY <1>12, <2>1, <2>2 DEF Ended, Goes, c
  <1> QED
    BY <1>6, <1>13 DEF q, over, c

\* f holds the outcomes of the first `end` entries.
Timing(f, end) ==
    f = [n \in 0 .. end |->
            IF n = 0 THEN {[c |-> cache, kept |-> <<>>]}
            ELSE {run_entry(r, todelete[n]) : r \in f[n - 1]}]

\* Such functions exist, as those of a flush.
LEMMA TimingExists ==
    ASSUME NEW n \in Nat
    PROVE  \E r : Timing(r, n)
  <1> DEFINE T == {m \in 0 .. n : ~\E r : Timing(r, m)}
             step(s, i) == {run_entry(r, todelete[i]) : r \in s}
             start == {[c |-> cache, kept |-> <<>>]}
  <1>1. SUFFICES ASSUME T # {} PROVE FALSE
    <2>1. n \notin T
      BY <1>1
    <2> QED
      BY <2>1
  <1>2. PICK x \in T : \A y \in T : x <= y
    <2>1. T \subseteq Nat
      OBVIOUS
    <2> HIDE DEF T
    <2> QED
      BY <1>1, <2>1, Smallest
  <1>0. \A r, m : Timing(r, m) <=>
            r = [i \in 0 .. m |-> IF i = 0 THEN start ELSE step(r[i - 1], i)]
    BY DEF Timing
  <1> HIDE DEF step, start
  <1>3. x # 0
    <2> DEFINE z == [i \in 0 .. 0 |-> start]
    <2>1. z = [i \in 0 .. 0 |-> IF i = 0 THEN start ELSE step(z[i - 1], i)]
      OBVIOUS
    <2>2. Timing(z, 0)
      BY <1>0, <2>1
    <2> QED
      BY <2>2
  <1>4. x \in 1 .. n /\ x - 1 \in 0 .. n /\ x - 1 \notin T
    BY <1>2, <1>3
  <1>5. PICK r : Timing(r, x - 1)
    BY <1>4
  <1> DEFINE q == [i \in 0 .. x |-> IF i = x THEN step(r[x - 1], x) ELSE r[i]]
             p == [i \in 0 .. x |-> IF i = 0 THEN start ELSE step(q[i - 1], i)]
  <1>6. ASSUME NEW i \in 0 .. x PROVE q[i] = p[i]
    <2>1. CASE i = x
      BY <1>4, <2>1
    <2>2. CASE i = 0
      <3>1. r[0] = start
        BY <1>0, <1>4, <1>5
      <3> QED
        BY <1>4, <2>2, <3>1
    <2>3. CASE i \in 1 .. x - 1
      <3>1. r[i] = step(r[i - 1], i)
        BY <1>0, <1>4, <1>5, <2>3
      <3>2. i - 1 \in 0 .. x /\ i - 1 # x /\ i # x /\ i # 0
        BY <1>4, <2>3
      <3>3. q[i - 1] = r[i - 1] /\ q[i] = r[i]
        BY <3>2
      <3>4. p[i] = step(q[i - 1], i)
        BY <3>2
      <3> QED
        BY <3>1, <3>3, <3>4
    <2> QED
      BY <1>4, <2>1, <2>2, <2>3
  <1>7. q = p
    BY <1>6
  <1>8. Timing(q, x)
    BY <1>0, <1>7
  <1> QED
    BY <1>2, <1>8

----------------------------------------------------------------------------
(* ... and the whole queue *)

\* How many connections hold i.
HeldBy(i) == Cardinality(Holders(i))

\* References and delete marks after n entries.
Timed(r, n) ==
    /\ Shape(r.c) /\ r.kept \in Seq(Items)
    /\ r.c.halted = "no" =>
          /\ Sound(r.c)
          /\ \A i \in Items : r.c.refcount[i] =
                HeldBy(i) + Copies(r.kept, i) + Cardinality(RestOf(n, i))
          /\ ToSet(r.kept) \subseteq Queued(r.c)
          /\ Queued(r.c) \subseteq ToSet(r.kept) \cup {todelete[m] : m \in Rest(n)}
          /\ \A i \in ToSet(r.kept) : ~item_delete_lock_over(r.c, i)

\* One entry more.
LEMMA TimedStep ==
    ASSUME todelete \in Seq(Items), NEW n \in 1 .. Len(todelete), NEW r, Timed(r, n - 1),
           \A i \in Items : HeldBy(i) \in Nat
    PROVE  Timed(run_entry(r, todelete[n]), n)
  <1> DEFINE i == todelete[n]
             q == run_entry(r, i)
             was(j) == Cardinality(RestOf(n - 1, j))
             rest(j) == Cardinality(RestOf(n, j))
             kept(j) == Copies(r.kept, j)
             left(m) == {todelete[x] : x \in Rest(m)}
  <1>1. i \in Items /\ Fine(r.c) /\ r.kept \in Seq(Items)
    BY DEF Timed, Fine
  <1>2. \A j \in Items : /\ was(j) = rest(j) + (IF i = j THEN 1 ELSE 0)
                         /\ rest(j) \in Nat
    BY RestCounts
  <1>3. left(n - 1) = left(n) \cup {i}
    <2>1. Rest(n - 1) = Rest(n) \cup {n}
      BY RestCounts
    <2> QED
      BY <2>1
  <1>4. \A j \in Items : kept(j) \in Nat
    BY <1>1, CopiesNat
  <1>5. r.c.halted = "no" =>
            /\ Sound(r.c)
            /\ \A j \in Items : r.c.refcount[j] = HeldBy(j) + kept(j) + was(j)
            /\ ToSet(r.kept) \subseteq Queued(r.c)
            /\ Queued(r.c) \subseteq ToSet(r.kept) \cup left(n - 1)
            /\ \A j \in ToSet(r.kept) : ~item_delete_lock_over(r.c, j)
    BY DEF Timed
  <1>6. Timed(q, n) <=>
            /\ Shape(q.c) /\ q.kept \in Seq(Items)
            /\ q.c.halted = "no" =>
                  /\ Sound(q.c)
                  /\ \A j \in Items : q.c.refcount[j] = HeldBy(j) + Copies(q.kept, j) + rest(j)
                  /\ ToSet(q.kept) \subseteq Queued(q.c)
                  /\ Queued(q.c) \subseteq ToSet(q.kept) \cup left(n)
                  /\ \A j \in ToSet(q.kept) : ~item_delete_lock_over(q.c, j)
    BY DEF Timed
  <1>7. IF item_delete_lock_over(r.c, i) THEN Ended(r, i, q) ELSE Kept(r, i, q)
    BY <1>1, EntryGoes
  <1> HIDE DEF q, was, rest, kept, left, i
  <1>8. ASSUME item_delete_lock_over(r.c, i), q.c.halted = "no", Ended(r, i, q)
        PROVE  /\ Sound(q.c)
               /\ \A j \in Items : q.c.refcount[j] = HeldBy(j) + Copies(q.kept, j) + rest(j)
               /\ ToSet(q.kept) \subseteq Queued(q.c)
               /\ Queued(q.c) \subseteq ToSet(q.kept) \cup left(n)
               /\ \A j \in ToSet(q.kept) : ~item_delete_lock_over(q.c, j)
    <2>1. /\ r.c.halted = "no" /\ Sound(q.c) /\ q.c.refcount = Less(r.c.refcount, i)
          /\ Queued(q.c) = Queued(r.c) \ {i} /\ q.c.exptime = r.c.exptime
          /\ q.kept = r.kept
      BY <1>8 DEF Ended
    <2>2. i \notin ToSet(r.kept)
      BY <1>5, <1>8, <2>1
    <2>3. \A j \in Items : q.c.refcount[j] = HeldBy(j) + kept(j) + rest(j)
      <3> TAKE j \in Items
      <3> DEFINE h == HeldBy(j)
                 k == kept(j)
                 w == was(j)
                 t == rest(j)
                 m == r.c.refcount[j]
      <3>1. m = h + k + w /\ h \in Nat /\ k \in Nat /\ t \in Nat
            /\ w = t + (IF i = j THEN 1 ELSE 0)
        BY <1>2, <1>4, <1>5, <2>1
      <3>2. r.c.refcount \in [Items -> Nat]
        BY <1>5, <2>1 DEF Sound, Typed
      <3> HIDE DEF h, k, w, t, m
      <3>3. CASE i = j
        <4>1. q.c.refcount[j] = IF m = 0 THEN 0 ELSE m - 1
          BY <1>1, <2>1, <3>2, <3>3 DEF Less, m
        <4>2. (IF m = 0 THEN 0 ELSE m - 1) = h + k + t
          BY <3>1, <3>3
        <4> QED
          BY <4>1, <4>2 DEF h, k, t
      <3>4. CASE i # j
        <4>1. q.c.refcount[j] = m
          BY <1>1, <2>1, <3>2, <3>4 DEF Less, m
        <4>2. m = h + k + t
          BY <3>1, <3>4
        <4> QED
          BY <4>1, <4>2 DEF h, k, t
      <3> QED
        BY <3>3, <3>4
    <2>4. \A j \in Items : q.c.refcount[j] = HeldBy(j) + Copies(q.kept, j) + rest(j)
      BY <2>1, <2>3 DEF kept
    <2>5. ToSet(q.kept) \subseteq Queued(q.c)
      BY <1>5, <2>1, <2>2
    <2>6. Queued(q.c) \subseteq ToSet(q.kept) \cup left(n)
      BY <1>3, <1>5, <2>1
    <2>7. \A j \in ToSet(q.kept) : ~item_delete_lock_over(q.c, j)
      BY <1>5, <2>1 DEF item_delete_lock_over
    <2> QED
      BY <2>1, <2>4, <2>5, <2>6, <2>7
  <1>9. ASSUME ~item_delete_lock_over(r.c, i), q.c.halted = "no", Kept(r, i, q)
        PROVE  /\ Sound(q.c)
               /\ \A j \in Items : q.c.refcount[j] = HeldBy(j) + Copies(q.kept, j) + rest(j)
               /\ ToSet(q.kept) \subseteq Queued(q.c)
               /\ Queued(q.c) \subseteq ToSet(q.kept) \cup left(n)
               /\ \A j \in ToSet(q.kept) : ~item_delete_lock_over(q.c, j)
    <2>1. q.c = r.c /\ i \in r.c.deleted /\ q.kept = Append(r.kept, i) /\ r.c.halted = "no"
      BY <1>9 DEF Kept
    <2>2. /\ \A j \in Items : Copies(q.kept, j) = kept(j) + (IF i = j THEN 1 ELSE 0)
          /\ ToSet(q.kept) = ToSet(r.kept) \cup {i}
      <3> DEFINE s == r.kept
      <3>1. s \in Seq(Items) /\ i \in Items
        BY <1>1
      <3> HIDE DEF s
      <3>2. \A j : Copies(Append(s, i), j) = Copies(s, j) + (IF i = j THEN 1 ELSE 0)
        BY <3>1, CopiesAppend
      <3>3. ToSet(Append(s, i)) = ToSet(s) \cup {i}
        BY <3>1, CopiesAppend
      <3> QED
        BY <2>1, <3>2, <3>3 DEF kept, s
    <2>3. \A j \in Items : r.c.refcount[j] = HeldBy(j) + kept(j) + was(j)
      BY <1>5, <2>1
    <2>4. \A j \in Items : q.c.refcount[j] = HeldBy(j) + Copies(q.kept, j) + rest(j)
      <3> TAKE j \in Items
      <3> DEFINE h == HeldBy(j)
                 k == kept(j)
                 w == was(j)
                 t == rest(j)
                 m == r.c.refcount[j]
                 p == Copies(q.kept, j)
      <3>1. m = h + k + w /\ h \in Nat /\ k \in Nat /\ t \in Nat
            /\ w = t + (IF i = j THEN 1 ELSE 0) /\ p = k + (IF i = j THEN 1 ELSE 0)
        BY <1>2, <1>4, <2>2, <2>3
      <3> HIDE DEF h, k, w, t, m, p
      <3>2. m = h + p + t
        BY <3>1
      <3> QED
        BY <2>1, <3>2 DEF m, h, p, t
    <2>5. i \notin r.c.free
      <3> DEFINE h == HeldBy(i)
                 k == kept(i)
                 w == was(i)
                 t == rest(i)
                 m == r.c.refcount[i]
      <3>1. m = h + k + w /\ h \in Nat /\ k \in Nat /\ t \in Nat /\ w = t + 1
        BY <1>1, <1>2, <1>4, <2>3
      <3> HIDE DEF h, k, w, t, m
      <3>2. m # 0
        BY <3>1
      <3> QED
        BY <1>1, <1>5, <2>1, <3>2 DEF Sound, FreeBut, m
    <2>6. ToSet(q.kept) \subseteq Queued(q.c)
      BY <1>5, <2>1, <2>2, <2>5 DEF Queued
    <2>7. Queued(q.c) \subseteq ToSet(q.kept) \cup left(n)
      BY <1>3, <1>5, <2>1, <2>2
    <2>8. \A j \in ToSet(q.kept) : ~item_delete_lock_over(q.c, j)
      BY <1>5, <1>9, <2>1, <2>2
    <2>9. Sound(q.c)
      BY <1>5, <2>1
    <2> QED
      BY <2>4, <2>6, <2>7, <2>8, <2>9
  <1>10. Shape(q.c) /\ q.kept \in Seq(Items)
    BY <1>1, <1>7, CopiesAppend DEF Ended, Kept
  <1>11. Timed(q, n)
    BY <1>6, <1>7, <1>8, <1>9, <1>10
  <1> QED
    BY <1>11 DEF q, i

\* References and delete marks between two steps.
Counted ==
    /\ \A i \in Items : cache.refcount[i] = HeldBy(i) + Copies(todelete, i)
    /\ Queued(cache) = ToSet(todelete)

\* Before the first entry.
LEMMA TimedStart ==
    ASSUME todelete \in Seq(Items), Fine(cache), cache.halted = "no", Counted,
           \A i \in Items : HeldBy(i) \in Nat
    PROVE  Timed([c |-> cache, kept |-> <<>>], 0)
  <1> DEFINE none == <<>>
             r == [c |-> cache, kept |-> none]
             l == Len(todelete)
  <1>1. r.c = cache /\ r.kept = none /\ none \in Seq(Items)
    OBVIOUS
  <1>2. \A i \in Items : Copies(none, i) = 0
    <2> TAKE i \in Items
    <2>1. {n \in DOMAIN none : none[n] = i} = {}
      OBVIOUS
    <2>2. Cardinality({}) = 0
      BY FS_EmptySet
    <2> QED
      BY <2>1, <2>2 DEF Copies
  <1>3. l \in Nat /\ DOMAIN todelete = 1 .. l /\ Rest(0) = 1 .. l
    BY DEF Rest
  <1>4. \A i \in Items : Cardinality(RestOf(0, i)) = Copies(todelete, i)
    <2> TAKE i \in Items
    <2>1. RestOf(0, i) = {n \in DOMAIN todelete : todelete[n] = i}
      BY <1>3 DEF RestOf
    <2> QED
      BY <2>1 DEF Copies
  <1>5. ToSet(none) = {} /\ ToSet(todelete) = {todelete[m] : m \in Rest(0)}
    <2>1. ToSet(none) = {}
      BY DEF ToSet
    <2>2. ToSet(todelete) = {todelete[m] : m \in Rest(0)}
      BY <1>3 DEF ToSet
    <2> QED
      BY <2>1, <2>2
  <1>6. \A i \in Items : Copies(todelete, i) \in Nat
    BY CopiesNat
  <1> HIDE DEF none, r
  <1>7. \A i \in Items : cache.refcount[i] =
            HeldBy(i) + Copies(none, i) + Cardinality(RestOf(0, i))
    <2> TAKE i \in Items
    <2> DEFINE h == HeldBy(i)
               k == Copies(none, i)
               w == Cardinality(RestOf(0, i))
               m == cache.refcount[i]
    <2>1. m = h + w /\ k = 0 /\ h \in Nat /\ w \in Nat
      BY <1>2, <1>4, <1>6 DEF Counted
    <2> HIDE DEF h, k, w, m
    <2>2. m = h + k + w
      BY <2>1
    <2> QED
      BY <2>2 DEF h, k, w, m
  <1>8. Timed(r, 0)
    BY <1>1, <1>5, <1>7 DEF Timed, Fine, Counted
  <1> QED
    BY <1>8 DEF r, none

\* What the delete timer leaves.
LEMMA TimerGoes ==
    ASSUME todelete \in Seq(Items), Fine(cache), cache.halted = "no", Counted,
           \A i \in Items : HeldBy(i) \in Nat, NEW r \in do_run_deferred_deletes
    PROVE  /\ Shape(r.c) /\ r.kept \in Seq(Items)
           /\ r.c.halted = "no" =>
                 /\ Sound(r.c)
                 /\ \A i \in Items : r.c.refcount[i] = HeldBy(i) + Copies(r.kept, i)
                 /\ Queued(r.c) = ToSet(r.kept)
  <1> DEFINE l == Len(todelete)
             f == CHOOSE f : f = [n \in 0 .. l |->
                      IF n = 0 THEN {[c |-> cache, kept |-> <<>>]}
                      ELSE {run_entry(q, todelete[n]) : q \in f[n - 1]}]
             P(n) == \A q \in f[n] : Timed(q, n)
             T == {n \in 0 .. l : ~P(n)}
  <1>1. r \in f[l]
    BY DEF do_run_deferred_deletes
  <1>2. l \in Nat
    OBVIOUS
  <1>3. Timing(f, l)
    <2>1. \E g : Timing(g, l)
      <3> HIDE DEF l
      <3> QED
        BY <1>2, TimingExists
    <2> QED
      BY <2>1 DEF Timing
  <1> HIDE DEF f
  <1>4. /\ f[0] = {[c |-> cache, kept |-> <<>>]}
        /\ \A n \in 1 .. l : f[n] = {run_entry(q, todelete[n]) : q \in f[n - 1]}
    <2> DEFINE step(s, i) == {run_entry(q, todelete[i]) : q \in s}
               start == {[c |-> cache, kept |-> <<>>]}
    <2> HIDE DEF l
    <2>1. f = [i \in 0 .. l |-> IF i = 0 THEN start ELSE step(f[i - 1], i)]
      BY <1>3 DEF Timing
    <2> HIDE DEF step, start
    <2>2. f[0] = start /\ \A n \in 1 .. l : f[n] = step(f[n - 1], n)
      BY <1>2, <2>1
    <2> QED
      BY <2>2 DEF step, start
  <1>5. P(0)
    BY <1>4, TimedStart
  <1>6. P(l)
    <2> SUFFICES ASSUME T # {} PROVE FALSE
      BY <1>2
    <2>1. PICK x \in T : \A y \in T : x <= y
      <3>1. T \subseteq Nat
        OBVIOUS
      <3> HIDE DEF T
      <3> QED
        BY <3>1, Smallest
    <2>2. x \in 0 .. l /\ ~P(x) /\ \A y \in 0 .. l : ~P(y) => x <= y
      BY <2>1
    <2> HIDE DEF P, T
    <2>3. x \in 1 .. l /\ x - 1 \in 0 .. l
      BY <1>2, <1>5, <2>2
    <2>4. P(x - 1)
      BY <2>2, <2>3
    <2>5. \A q \in f[x - 1] : Timed(run_entry(q, todelete[x]), x)
      <3> TAKE q \in f[x - 1]
      <3>1. Timed(q, x - 1)
        BY <2>4 DEF P
      <3> QED
        BY <2>3, <3>1, TimedStep
    <2>6. P(x)
      BY <1>4, <2>3, <2>5 DEF P
    <2> QED
      BY <2>2, <2>6
  <1>7. Timed(r, l)
    BY <1>1, <1>6
  <1>8. Rest(l) = {}
    BY <1>2 DEF Rest
  <1>9. \A i : Cardinality(RestOf(l, i)) = 0
    BY <1>8, FS_EmptySet DEF RestOf
  <1> HIDE DEF l
  <1>10. ASSUME r.c.halted = "no", NEW i \in Items
         PROVE  r.c.refcount[i] = HeldBy(i) + Copies(r.kept, i)
    <2> DEFINE h == HeldBy(i)
               k == Copies(r.kept, i)
               w == Cardinality(RestOf(l, i))
               m == r.c.refcount[i]
    <2>1. r.kept \in Seq(Items)
      BY <1>7 DEF Timed
    <2>2. m = h + k + w /\ w = 0 /\ h \in Nat /\ k \in Nat
      BY <1>7, <1>9, <1>10, <2>1, CopiesNat DEF Timed
    <2> HIDE DEF h, k, w, m
    <2>3. m = h + k
      BY <2>2
    <2> QED
      BY <2>3 DEF h, k, m
  <1>11. r.c.halted = "no" => Queued(r.c) = ToSet(r.kept)
    BY <1>7, <1>8 DEF Timed
  <1> QED
    BY <1>7, <1>10, <1>11 DEF Timed

----------------------------------------------------------------------------
(* The inductive invariant, and a step of one connection *)

\* The command of a connection: it carries an item exactly from where it holds
\* one to where it gives it back.
ConnOK(p) ==
    /\ p = [at |-> p.at, cmd |-> p.cmd, key |-> p.key, it |-> p.it, arg |-> p.arg]
    /\ p.at \in Place
    /\ p.it \in IF p.at \in {"idle", "flush", "alloc failed"} THEN {Null} ELSE Items
    /\ p.at = "alloc failed" => p.key \in Keys

\* Whether an item is i, as a number.
One(it, i) == IF it = i THEN 1 ELSE 0

\* The cache is sound but for the age of its items, which the clock changes.
IInv ==
    /\ Shape(cache) /\ current_time \in Nat /\ todelete \in Seq(Items)
    /\ conn = [s \in Conns |-> conn[s]]
    /\ \A s \in Conns : ConnOK(conn[s])
    /\ cache.halted = "no" =>
          Typed(cache) /\ Linked(cache) /\ FreeBut(cache, {}) /\ Counted

\* The premise of the theorems: while evictions are on, no linked item is so old that tail
\* repair (items.c:144) would take it from its holders.
NoneOld == cache.halted = "no" => Young(cache)

\* Between two steps the cache of a running server is sound.
LEMMA Sounds ==
    ASSUME IInv, NoneOld
    PROVE  Fine(cache)
  BY DEF IInv, NoneOld, Fine, Sound

\* Connections are finitely many.
LEMMA HeldByNat == \A i : HeldBy(i) \in Nat
  <1> TAKE i
  <1>1. IsFiniteSet(Holders(i))
    <2>1. Holders(i) \in SUBSET Conns
      BY DEF Holders
    <2> QED
      BY <2>1, CacheAssumption, FS_Subset
  <1> QED
    BY <1>1, FS_CardinalityType DEF HeldBy

\* One connection goes on: who holds an item changes by what it holds.
LEMMA HolderStep ==
    ASSUME conn = [s \in Conns |-> conn[s]], NEW s \in Conns, NEW p,
           conn' = [conn EXCEPT ![s] = p], NEW i
    PROVE  HeldBy(i)' + One(conn[s].it, i) = HeldBy(i) + One(p.it, i) /\ HeldBy(i)' \in Nat
  <1> DEFINE H == {t \in Conns : conn[t].it = i}
             G == {t \in Conns : conn'[t].it = i}
             R == {t \in Conns : t # s /\ conn[t].it = i}
  <1>1. \A t \in Conns : conn'[t] = IF t = s THEN p ELSE conn[t]
    OBVIOUS
  <1>2. IsFiniteSet(R) /\ s \notin R
    <2>1. R \in SUBSET Conns
      OBVIOUS
    <2> QED
      BY <2>1, CacheAssumption, FS_Subset
  <1>3. H = IF conn[s].it = i THEN R \cup {s} ELSE R
    OBVIOUS
  <1>4. G = IF p.it = i THEN R \cup {s} ELSE R
    BY <1>1
  <1> HIDE DEF H, G, R
  <1> DEFINE r == Cardinality(R)
             r1 == Cardinality(R \cup {s})
             h == Cardinality(H)
             g == Cardinality(G)
  <1>5. r \in Nat /\ r1 = r + 1
    BY <1>2, Counts
  <1>6. /\ h = IF conn[s].it = i THEN r1 ELSE r
        /\ g = IF p.it = i THEN r1 ELSE r
    BY <1>3, <1>4
  <1> HIDE DEF r, r1, h, g
  <1>7. g + One(conn[s].it, i) = h + One(p.it, i) /\ g \in Nat
    BY <1>5, <1>6 DEF One
  <1>8. HeldBy(i) = h
    BY DEF HeldBy, Holders, h, H
  <1>9. HeldBy(i)' = g
    BY DEF HeldBy, Holders, g, G
  <1> QED
    BY <1>7, <1>8, <1>9

\* ... and the references with it.
LEMMA ConnStep ==
    ASSUME IInv, Fine(cache), cache.halted = "no", NEW s \in Conns, NEW p, ConnOK(p),
           conn' = [conn EXCEPT ![s] = p], todelete' = todelete, current_time' \in Nat,
           NEW refs, Goes(cache, cache', refs),
           \A i \in Items : refs[i] + One(conn[s].it, i) = cache.refcount[i] + One(p.it, i),
           \A i \in Items : refs[i] \in Nat
    PROVE  IInv'
  <1>1. Shape(cache)' /\ (current_time \in Nat)' /\ (todelete \in Seq(Items))'
    BY DEF IInv, Goes, Shape
  <1>2. (conn = [t \in Conns |-> conn[t]])' /\ \A t \in Conns : ConnOK(conn[t])'
    <2>1. conn = [t \in Conns |-> conn[t]] /\ \A t \in Conns : ConnOK(conn[t])
      BY DEF IInv
    <2>2. conn' = [t \in Conns |-> conn'[t]]
      BY <2>1
    <2>3. \A t \in Conns : conn'[t] = IF t = s THEN p ELSE conn[t]
      BY <2>1
    <2> QED
      BY <2>1, <2>2, <2>3 DEF ConnOK
  <1>3. ASSUME cache'.halted = "no"
        PROVE  Typed(cache)' /\ Linked(cache)' /\ FreeBut(cache, {})' /\ Counted'
    <2>1. Sound(cache') /\ cache'.refcount = refs /\ Queued(cache') = Queued(cache)
      BY <1>3 DEF Goes
    <2>2. Typed(cache)' /\ Linked(cache)' /\ FreeBut(cache, {})'
      BY <2>1 DEF Sound, Typed, Linked, FreeBut
    <2>3. Counted
      BY DEF IInv
    <2>4. Queued(cache)' = ToSet(todelete)'
      BY <2>1, <2>3 DEF Counted, Queued
    <2>5. ASSUME NEW i \in Items
          PROVE  cache'.refcount[i] = HeldBy(i)' + Copies(todelete, i)'
      <3> DEFINE h == HeldBy(i)
                 g == HeldBy(i)'
                 k == Copies(todelete, i)
                 m == cache.refcount[i]
                 n == refs[i]
                 a == One(conn[s].it, i)
                 b == One(p.it, i)
      <3>1. g + a = h + b
        BY HolderStep DEF IInv
      <3>2. m = h + k /\ n + a = m + b
        BY <2>3 DEF Counted
      <3>3. h \in Nat /\ k \in Nat /\ n \in Nat /\ a \in Nat /\ b \in Nat /\ g \in Nat
        <4>1. g \in Nat
          BY HolderStep DEF IInv
        <4>2. k \in Nat
          BY CopiesNat DEF IInv
        <4>3. a \in Nat /\ b \in Nat
          BY DEF One
        <4> QED
          BY <4>1, <4>2, <4>3, HeldByNat
      <3> HIDE DEF h, g, k, m, n, a, b
      <3>4. n = g + k
        BY <3>1, <3>2, <3>3
      <3> QED
        BY <2>1, <3>4 DEF n, g, k
    <2> QED
      BY <2>2, <2>4, <2>5 DEF Counted
  <1> QED
    BY <1>1, <1>2, <1>3 DEF IInv

----------------------------------------------------------------------------
(* From place to place *)

\* Where a connection holds an item.
Holding == {"update", "remove", "unlink", "nread", "delta", "defer"}

\* Queue and clock stay as they are.
Frame == todelete' = todelete /\ current_time' = current_time

\* The state of a running server, and the connection that goes on.
LEMMA Facts ==
    ASSUME IInv, NoneOld, cache.halted = "no", NEW s \in Conns
    PROVE  /\ Fine(cache) /\ Shape(cache) /\ Sound(cache) /\ current_time \in Nat
           /\ cache.refcount \in [Items -> Nat]
           /\ ConnOK(conn[s])
           /\ conn[s].at \in Holding =>
                 conn[s].it \in Items /\ cache.refcount[conn[s].it] # 0
           /\ conn[s].at \notin Holding => conn[s].it = Null /\ conn[s].it \notin Items
  <1>1. Fine(cache)
    BY Sounds
  <1>2. Sound(cache) /\ cache.refcount \in [Items -> Nat] /\ Shape(cache)
    BY <1>1 DEF Fine, Sound, Typed
  <1>3. ConnOK(conn[s]) /\ current_time \in Nat
    BY DEF IInv
  <1>4. ASSUME conn[s].at \in Holding
        PROVE  conn[s].it \in Items /\ cache.refcount[conn[s].it] # 0
    <2> DEFINE i == conn[s].it
               h == HeldBy(i)
               k == Copies(todelete, i)
    <2>1. i \in Items
      BY <1>3, <1>4 DEF ConnOK, Holding
    <2>2. h # 0 /\ h \in Nat
      <3>1. IsFiniteSet(Holders(i)) /\ s \in Holders(i)
        <4>1. Holders(i) \in SUBSET Conns /\ s \in Holders(i)
          BY DEF Holders
        <4> QED
          BY <4>1, CacheAssumption, FS_Subset
      <3> QED
        BY <3>1, Counts DEF HeldBy
    <2>3. k \in Nat
      BY CopiesNat DEF IInv
    <2>4. cache.refcount[i] = h + k
      BY <2>1 DEF IInv, Counted
    <2> HIDE DEF h, k
    <2> QED
      BY <2>1, <2>2, <2>3, <2>4
  <1>5. conn[s].at \notin Holding => conn[s].it = Null /\ conn[s].it \notin Items
    BY <1>3, ItemsAssumption DEF ConnOK, Holding, Place
  <1> QED
    BY <1>1, <1>2, <1>3, <1>4, <1>5

\* The next step of a command, with the item it has.
LEMMA StepGoes ==
    ASSUME IInv, NoneOld, cache.halted = "no", NEW s \in Conns, conn[s].at \in Holding,
           NEW at \in Holding, Step(s, at), Frame, Goes(cache, cache', cache.refcount)
    PROVE  IInv'
  <1> DEFINE q == conn[s]
             p == [q EXCEPT !.at = at]
  <1>1. /\ Fine(cache) /\ current_time \in Nat /\ ConnOK(q) /\ q.it \in Items
        /\ cache.refcount \in [Items -> Nat]
    BY Facts
  <1>2. conn' = [conn EXCEPT ![s] = p]
    BY DEF Step
  <1> HIDE DEF q
  <1>3. ConnOK(p) /\ p.it = q.it
    <2> DEFINE a == q.at
               c == q.cmd
               k == q.key
               i == q.it
               r == q.arg
    <2>0. q = [at |-> a, cmd |-> c, key |-> k, it |-> i, arg |-> r]
      BY <1>1 DEF ConnOK
    <2> HIDE DEF a, c, k, i, r
    <2>3. p = [at |-> at, cmd |-> c, key |-> k, it |-> i, arg |-> r]
      BY <2>0
    <2>1. p = [at |-> at, cmd |-> q.cmd, key |-> q.key, it |-> q.it, arg |-> q.arg]
      BY <2>3 DEF c, k, i, r
    <2> HIDE DEF p
    <2>2. p.at = at /\ p.cmd = q.cmd /\ p.key = q.key /\ p.it = q.it /\ p.arg = q.arg
      BY <2>1
    <2> QED
      BY <1>1, <2>1, <2>2 DEF ConnOK, Holding, Place
  <1>4. \A i \in Items : /\ cache.refcount[i] \in Nat
                         /\ cache.refcount[i] + One(q.it, i) = cache.refcount[i] + One(p.it, i)
    BY <1>1, <1>3
  <1> HIDE DEF p
  <1>5. todelete' = todelete /\ current_time' \in Nat
    BY <1>1 DEF Frame
  <1> QED
    BY <1>1, <1>2, <1>3, <1>4, <1>5, ConnStep DEF q

\* The end of a command that gave its item back.
LEMMA DoneGoes ==
    ASSUME IInv, NoneOld, cache.halted = "no", NEW s \in Conns, conn[s].at \in Holding,
           Done(s), Frame, Goes(cache, cache', Less(cache.refcount, conn[s].it))
    PROVE  IInv'
  <1> DEFINE j == conn[s].it
             refs == Less(cache.refcount, j)
  <1>1. /\ Fine(cache) /\ current_time \in Nat /\ j \in Items /\ cache.refcount[j] # 0
        /\ cache.refcount \in [Items -> Nat]
    BY Facts
  <1>2. conn' = [conn EXCEPT ![s] = Idle]
    BY DEF Done
  <1>3. ConnOK(Idle) /\ Idle.it = Null
    BY DEF ConnOK, Idle, Place
  <1>4. \A i \in Items : /\ refs[i] \in Nat
                         /\ refs[i] + One(j, i) = cache.refcount[i] + One(Null, i)
    <2> TAKE i \in Items
    <2>1. One(Null, i) = 0
      BY ItemsAssumption DEF One
    <2>2. CASE i = j
      <3> DEFINE m == cache.refcount[j]
      <3>1. refs[i] = m - 1 /\ m \in Nat /\ m # 0 /\ cache.refcount[i] = m
        BY <1>1, <2>2 DEF Less
      <3>2. One(j, i) = 1
        BY <2>2 DEF One
      <3> HIDE DEF m, refs
      <3> QED
        BY <2>1, <3>1, <3>2
    <2>3. CASE i # j
      <3>1. refs[i] = cache.refcount[i] /\ cache.refcount[i] \in Nat
        BY <1>1, <2>3 DEF Less
      <3>2. One(j, i) = 0
        BY <2>3 DEF One
      <3> HIDE DEF refs
      <3> QED
        BY <2>1, <3>1, <3>2
    <2> QED
      BY <2>2, <2>3
  <1>5. todelete' = todelete /\ current_time' \in Nat /\ Goes(cache, cache', refs)
    BY <1>1 DEF Frame
  <1> HIDE DEF refs, j
  <1>6. \A i \in Items : refs[i] + One(conn[s].it, i) = cache.refcount[i] + One(Idle.it, i)
    BY <1>3, <1>4 DEF j
  <1>7. \A i \in Items : refs[i] \in Nat
    BY <1>4
  <1>8. Fine(cache) /\ ConnOK(Idle)
    BY <1>1, <1>3
  <1> QED
    BY <1>2, <1>5, <1>6, <1>7, <1>8, ConnStep

\* A connection without an item goes on without one.
LEMMA NoneGoes ==
    ASSUME IInv, NoneOld, cache.halted = "no", NEW s \in Conns, conn[s].at \notin Holding,
           NEW p, ConnOK(p), p.it = Null, conn' = [conn EXCEPT ![s] = p],
           todelete' = todelete, current_time' \in Nat, Goes(cache, cache', cache.refcount)
    PROVE  IInv'
  <1>1. /\ Fine(cache) /\ conn[s].it = Null /\ cache.refcount \in [Items -> Nat]
    BY Facts
  <1>2. \A i \in Items : /\ cache.refcount[i] \in Nat
                         /\ cache.refcount[i] + One(conn[s].it, i)
                            = cache.refcount[i] + One(p.it, i)
    BY <1>1
  <1> QED
    BY <1>1, <1>2, ConnStep

\* A connection takes an item.
LEMMA TakesGoes ==
    ASSUME IInv, NoneOld, cache.halted = "no", NEW s \in Conns, conn[s].at \notin Holding,
           NEW at \in Holding, NEW cmd, NEW k, NEW j \in Items, Goto(s, at, cmd, k, j),
           Frame, Goes(cache, cache', More(cache.refcount, j))
    PROVE  IInv'
  <1> DEFINE p == [at |-> at, cmd |-> cmd, key |-> k, it |-> j, arg |-> 0]
             refs == More(cache.refcount, j)
  <1>1. /\ Fine(cache) /\ current_time \in Nat /\ conn[s].it = Null
        /\ cache.refcount \in [Items -> Nat]
    BY Facts
  <1>2. conn' = [conn EXCEPT ![s] = p]
    BY DEF Goto
  <1>3. ConnOK(p) /\ p.it = j
    BY DEF ConnOK, Holding, Place
  <1> HIDE DEF p
  <1>4. \A i \in Items : /\ refs[i] \in Nat
                         /\ refs[i] + One(Null, i) = cache.refcount[i] + One(j, i)
    <2> TAKE i \in Items
    <2>1. One(Null, i) = 0
      BY ItemsAssumption DEF One
    <2>2. refs[i] = cache.refcount[i] + One(j, i) /\ cache.refcount[i] \in Nat
      <3>1. CASE i = j
        BY <1>1, <3>1 DEF More, One
      <3>2. CASE i # j
        <4>1. refs[i] = cache.refcount[i] /\ One(j, i) = 0 /\ cache.refcount[i] \in Nat
          BY <1>1, <3>2 DEF More, One
        <4> HIDE DEF refs
        <4> QED
          BY <4>1
      <3> QED
        BY <3>1, <3>2
    <2>3. One(j, i) \in Nat
      BY DEF One
    <2> HIDE DEF refs
    <2> QED
      BY <2>1, <2>2, <2>3
  <1>5. todelete' = todelete /\ current_time' \in Nat /\ Goes(cache, cache', refs)
    BY <1>1 DEF Frame
  <1> HIDE DEF refs
  <1>6. \A i \in Items : refs[i] + One(conn[s].it, i) = cache.refcount[i] + One(p.it, i)
    BY <1>1, <1>3, <1>4
  <1>7. \A i \in Items : refs[i] \in Nat
    BY <1>4
  <1>8. Fine(cache) /\ ConnOK(p)
    BY <1>1, <1>3
  <1> QED
    BY <1>2, <1>5, <1>6, <1>7, <1>8, ConnStep

----------------------------------------------------------------------------
(* The steps of the commands *)

\* The commands' steps say it so.
LEMMA Framed == UNCHANGED <<defer, clock>> => Frame
  BY DEF defer, clock, Frame

\* A connection without a command holds nothing.
LEMMA IdleOK == ConnOK(Idle) /\ Idle.it = Null
  BY DEF ConnOK, Idle, Place

\* A lookup, which ends the command or gives it an item.
LEMMA LookupGoes ==
    ASSUME IInv, NoneOld, cache.halted = "no", NEW s \in Conns, conn[s].at \notin Holding,
           NEW cmd, NEW k \in Keys, NEW next \in Holding, Lookup(s, cmd, k, next), Frame
    PROVE  IInv'
  <1> DEFINE g == do_item_get_notedeleted(cache, k)
  <1>1. Fine(cache) /\ current_time \in Nat
    BY Facts
  <1>2. Got(cache, g)
    BY <1>1, GetGoes
  <1>3. /\ cache' = g.c
        /\ \/ g.it = Null /\ Done(s)
           \/ g.it # Null /\ Goto(s, next, cmd, k, g.it)
    BY DEF Lookup, Cached
  <1> HIDE DEF g
  <1>4. CASE g.it = Null
    <2>1. Goes(cache, cache', cache.refcount)
      BY <1>2, <1>3, <1>4, ItemsAssumption DEF Got
    <2>2. conn' = [conn EXCEPT ![s] = Idle] /\ todelete' = todelete /\ current_time' \in Nat
      BY <1>1, <1>3, <1>4 DEF Done, Frame
    <2>3. ConnOK(Idle) /\ Idle.it = Null
      BY IdleOK
    <2> QED
      BY <2>1, <2>2, <2>3, NoneGoes
  <1>5. CASE g.it # Null
    <2> DEFINE j == g.it
    <2>1. j \in Items /\ Goes(cache, cache', More(cache.refcount, j))
      BY <1>2, <1>3, <1>5 DEF Got
    <2>2. Goto(s, next, cmd, k, j)
      BY <1>3, <1>5
    <2> HIDE DEF j
    <2> QED
      BY <2>1, <2>2, TakesGoes
  <1> QED
    BY <1>4, <1>5

\* delete, and a set without memory: the unlink ...
LEMMA UnlinkStep ==
    ASSUME IInv, NoneOld, NEW s \in Conns, item_unlink(s)
    PROVE  IInv'
  <1>1. /\ cache.halted = "no" /\ conn[s].at = "unlink"
        /\ cache' = do_item_unlink(cache, conn[s].it) /\ Step(s, "remove") /\ Frame
    BY Framed DEF item_unlink, At, Cached
  <1>2. conn[s].at \in Holding /\ "remove" \in Holding
    BY <1>1 DEF Holding
  <1>3. conn[s].it \in Items /\ Fine(cache)
    BY <1>1, <1>2, Facts
  <1>4. Goes(cache, cache', cache.refcount)
    BY <1>1, <1>3, UnlinkGoes
  <1> QED
    BY <1>1, <1>2, <1>4, StepGoes

\* ... and the reference is given back; so after every answer.
LEMMA RemoveStep ==
    ASSUME IInv, NoneOld, NEW s \in Conns, item_remove(s)
    PROVE  IInv'
  <1>1. /\ cache.halted = "no" /\ conn[s].at \in {"remove", "update"}
        /\ cache' = do_item_remove(cache, conn[s].it) /\ Done(s) /\ Frame
    BY Framed DEF item_remove, At, Cached
  <1>2. conn[s].at \in Holding
    BY <1>1 DEF Holding
  <1>3. conn[s].it \in Items /\ Fine(cache)
    BY <1>1, <1>2, Facts
  <1>4. Goes(cache, cache', Less(cache.refcount, conn[s].it))
    BY <1>1, <1>3, RemoveGoes
  <1> QED
    BY <1>1, <1>2, <1>4, DoneGoes

\* get: the move to the head.
LEMMA UpdateStep ==
    ASSUME IInv, NoneOld, NEW s \in Conns, item_update(s)
    PROVE  IInv'
  <1>1. /\ cache.halted = "no" /\ conn[s].at = "update"
        /\ cache' = do_item_update(cache, conn[s].it) /\ Step(s, "remove") /\ Frame
    BY Framed DEF item_update, At, Cached
  <1>2. conn[s].at \in Holding /\ "remove" \in Holding
    BY <1>1 DEF Holding
  <1>3. conn[s].it \in Items /\ Fine(cache) /\ current_time \in Nat
    BY <1>1, <1>2, Facts
  <1>4. Goes(cache, cache', cache.refcount)
    BY <1>1, <1>3, UpdateGoes
  <1> QED
    BY <1>1, <1>2, <1>4, StepGoes

\* A set without memory looks the old item up.
LEMMA AllocFailedStep ==
    ASSUME IInv, NoneOld, NEW s \in Conns, alloc_failed(s)
    PROVE  IInv'
  <1>1. /\ cache.halted = "no" /\ conn[s].at = "alloc failed"
        /\ Lookup(s, conn[s].cmd, conn[s].key, "unlink") /\ Frame
    BY Framed DEF alloc_failed, At
  <1>2. conn[s].at \notin Holding /\ "unlink" \in Holding
    BY <1>1 DEF Holding
  <1>3. conn[s].key \in Keys
    BY <1>1 DEF IInv, ConnOK
  <1> QED
    BY <1>1, <1>2, <1>3, LookupGoes

\* The data of a storage command is there.
LEMMA NreadStep ==
    ASSUME IInv, NoneOld, NEW s \in Conns, complete_nread(s)
    PROVE  IInv'
  <1>1. /\ cache.halted = "no" /\ conn[s].at = "nread" /\ Step(s, "remove") /\ Frame
        /\ \/ \E c \in do_store_item(cache, conn[s].it, conn[s].cmd) : cache' = c
           \/ cache' = cache
    BY Framed DEF complete_nread, At, Cached
  <1>2. conn[s].at \in Holding /\ "remove" \in Holding
    BY <1>1 DEF Holding
  <1>3. /\ conn[s].it \in Items /\ cache.refcount[conn[s].it] # 0
        /\ Fine(cache) /\ current_time \in Nat
    BY <1>1, <1>2, Facts
  <1>4. Goes(cache, cache', cache.refcount)
    <2>1. CASE cache' = cache
      BY <1>3, <2>1 DEF Goes, Fine
    <2>2. CASE cache' \in do_store_item(cache, conn[s].it, conn[s].cmd)
      BY <1>1, <1>3, <2>2, StoreGoes
    <2> QED
      BY <1>1, <2>1, <2>2
  <1> QED
    BY <1>1, <1>2, <1>4, StepGoes

\* incr and decr.
LEMMA DeltaStep ==
    ASSUME IInv, NoneOld, NEW s \in Conns, add_delta(s)
    PROVE  IInv'
  <1>1. /\ cache.halted = "no" /\ conn[s].at = "delta" /\ Step(s, "remove") /\ Frame
        /\ cache' \in do_add_delta(cache, conn[s].it, conn[s].cmd)
    BY Framed DEF add_delta, At, Cached
  <1>2. conn[s].at \in Holding /\ "remove" \in Holding
    BY <1>1 DEF Holding
  <1>3. /\ conn[s].it \in Items /\ cache.refcount[conn[s].it] # 0
        /\ Fine(cache) /\ current_time \in Nat
    BY <1>1, <1>2, Facts
  <1>4. Goes(cache, cache', cache.refcount)
    BY <1>1, <1>3, DeltaGoes
  <1> QED
    BY <1>1, <1>2, <1>4, StepGoes

\* flush_all takes the newest items out.
LEMMA FlushStep ==
    ASSUME IInv, NoneOld, NEW s \in Conns, item_flush_expired(s)
    PROVE  IInv'
  <1>1. /\ cache.halted = "no" /\ conn[s].at = "flush" /\ Done(s) /\ Frame
        /\ cache' = do_item_flush_expired(cache)
    BY Framed DEF item_flush_expired, At
  <1>2. conn[s].at \notin Holding
    BY <1>1 DEF Holding
  <1>3. Fine(cache) /\ current_time \in Nat
    BY <1>1, Facts
  <1>4. Goes(cache, cache', cache.refcount)
    BY <1>1, <1>3, FlushGoes
  <1>5. conn' = [conn EXCEPT ![s] = Idle] /\ todelete' = todelete /\ current_time' \in Nat
    BY <1>1, <1>3 DEF Done, Frame
  <1>6. ConnOK(Idle) /\ Idle.it = Null
    BY IdleOK
  <1> QED
    BY <1>1, <1>2, <1>4, <1>5, <1>6, NoneGoes

\* get, delete, incr and decr begin with a lookup.
LEMMA AskStep ==
    ASSUME IInv, NoneOld, NEW s \in Conns, NEW k \in Keys,
           \/ process_get_command(s, k) \/ process_delete_command(s, k)
           \/ \E cmd \in Arithmetic : process_arithmetic_command(s, cmd, k)
    PROVE  IInv'
  <1>1. /\ cache.halted = "no" /\ conn[s].at = "idle" /\ Frame
        /\ \E cmd, next : next \in Holding /\ Lookup(s, cmd, k, next)
    BY Framed DEF process_get_command, process_delete_command, process_arithmetic_command,
                  Asks, At, Holding
  <1>2. conn[s].at \notin Holding
    BY <1>1 DEF Holding
  <1> QED
    BY <1>1, <1>2, LookupGoes

----------------------------------------------------------------------------
(* Storage commands, deferred deletes, the clock *)

\* A storage command allocates its item.
LEMMA StoreStep ==
    ASSUME IInv, NoneOld, NEW s \in Conns, NEW k \in Keys, NEW cmd, NEW v, NEW exptime,
           NEW id, process_update_command(s, cmd, k, v, exptime, id)
    PROVE  IInv'
  <1> DEFINE t == realtime(exptime)
             text == digits(v)
             room == Len(text)
             new(a) == [a.c EXCEPT !.data[a.it] = text, !.cas_id[a.it] = id]
  <1>1. /\ cache.halted = "no" /\ conn[s].at = "idle" /\ Frame
        /\ \E a \in do_item_alloc(cache, k, t, room) :
              \/ a.it # Null /\ cache' = new(a) /\ Goto(s, "nread", cmd, k, a.it)
              \/ /\ a.it = Null /\ cache' = a.c
                 /\ Goto(s, "alloc failed", cmd, k, Null) \/ Done(s)
    BY Framed DEF process_update_command, Asks, At, Cached
  <1>2. conn[s].at \notin Holding /\ "nread" \in Holding
    BY <1>1 DEF Holding
  <1> HIDE DEF t, text, room, new
  <1>3. PICK a \in do_item_alloc(cache, k, t, room) :
              \/ a.it # Null /\ cache' = new(a) /\ Goto(s, "nread", cmd, k, a.it)
              \/ /\ a.it = Null /\ cache' = a.c
                 /\ Goto(s, "alloc failed", cmd, k, Null) \/ Done(s)
    BY <1>1
  <1>4. Fine(cache) /\ current_time \in Nat
    BY <1>1, Facts
  <1>5. Got(cache, a)
    BY <1>1, <1>4, AllocGoes
  <1>6. CASE a.it # Null
    <2> DEFINE j == a.it
               d == a.c
    <2>1. j \in Items /\ Goes(cache, d, More(cache.refcount, j))
      BY <1>5, <1>6 DEF Got
    <2>2. cache' = [d EXCEPT !.data[j] = text, !.cas_id[j] = id]
          /\ Goto(s, "nread", cmd, k, j)
      BY <1>3, <1>6 DEF new
    <2> HIDE DEF j, d
    <2>3. Same(d, cache')
      <3>1. Shape(d)
        BY <2>1 DEF Goes
      <3> QED
        BY <2>2, <3>1, SameDataCas
    <2>4. Goes(cache, cache', More(cache.refcount, j))
      BY <2>1, <2>3, SameGoes
    <2> QED
      BY <1>1, <1>2, <2>1, <2>2, <2>4, TakesGoes
  <1>7. CASE a.it = Null
    <2> DEFINE p == [at |-> "alloc failed", cmd |-> cmd, key |-> k, it |-> Null, arg |-> 0]
    <2>1. Goes(cache, cache', cache.refcount)
      BY <1>3, <1>5, <1>7, ItemsAssumption DEF Got
    <2>2. todelete' = todelete /\ current_time' \in Nat
      BY <1>1, <1>4 DEF Frame
    <2>3. ConnOK(Idle) /\ Idle.it = Null
      BY IdleOK
    <2>4. ConnOK(p) /\ p.it = Null
      BY DEF ConnOK, Place
    <2>5. conn' = [conn EXCEPT ![s] = p] \/ conn' = [conn EXCEPT ![s] = Idle]
      BY <1>3, <1>7 DEF Goto, Done
    <2> HIDE DEF p
    <2> QED
      BY <1>1, <1>2, <2>1, <2>2, <2>3, <2>4, <2>5, NoneGoes
  <1> QED
    BY <1>6, <1>7

\* flush_all sets oldest_live.
LEMMA FlushAllStep ==
    ASSUME IInv, NoneOld, NEW s \in Conns, NEW delay, flush_all(s, delay)
    PROVE  IInv'
  <1> DEFINE p == [Idle EXCEPT !.at = "flush", !.cmd = "flush_all", !.arg = delay]
  <1>1. /\ cache.halted = "no" /\ conn[s].at = "idle" /\ todelete' = todelete /\ cache' = cache
        /\ current_time' \in current_time .. current_time + 1
        /\ conn' = [conn EXCEPT ![s] = p]
    BY DEF flush_all, Asks, At, defer
  <1>2. conn[s].at \notin Holding
    BY <1>1 DEF Holding
  <1>3. Fine(cache) /\ current_time \in Nat
    BY <1>1, Facts
  <1>4. p = [at |-> "flush", cmd |-> "flush_all", key |-> Null, it |-> Null, arg |-> delay]
    <2> DEFINE q == Idle
               i == "idle"
               n == "none"
               z == 0
               a == "flush"
               c == "flush_all"
    <2>1. q = [at |-> i, cmd |-> n, key |-> Null, it |-> Null, arg |-> z]
      BY DEF Idle
    <2>2. p = [q EXCEPT !.at = a, !.cmd = c, !.arg = delay]
      OBVIOUS
    <2> HIDE DEF p, q, i, n, z, a, c
    <2>3. p = [at |-> a, cmd |-> c, key |-> Null, it |-> Null, arg |-> delay]
      BY <2>1, <2>2
    <2> QED
      BY <2>3 DEF a, c
  <1>5. ConnOK(p) /\ p.it = Null
    BY <1>4 DEF ConnOK, Place
  <1> HIDE DEF p
  <1>6. Goes(cache, cache', cache.refcount)
    BY <1>1, <1>3 DEF Goes, Fine
  <1>7. current_time' \in Nat
    BY <1>1, <1>3
  <1> QED
    BY <1>1, <1>2, <1>5, <1>6, <1>7, NoneGoes

\* A reference passes from the connection to the queue, and the item is marked.
LEMMA DeferStep ==
    ASSUME IInv, NoneOld, NEW s \in Conns, NEW delay, defer_delete(s, delay)
    PROVE  IInv'
  <1> DEFINE i == conn[s].it
             t == realtime(delay)
             more == Append(todelete, i)
  <1>1. /\ cache.halted = "no" /\ conn[s].at = "defer" /\ current_time' = current_time
        /\ \/ /\ cache' = [cache EXCEPT !.exptime[i] = t, !.deleted = @ \cup {i}]
              /\ todelete' = more /\ Done(s)
           \/ /\ cache' = [cache EXCEPT !.halted = "cache_lock"]
              /\ conn' = conn /\ todelete' = todelete
    BY DEF defer_delete, At, Cached, clock, defer
  <1>2. conn[s].at \in Holding
    BY <1>1 DEF Holding
  <1>3. /\ i \in Items /\ cache.refcount[i] # 0 /\ current_time \in Nat
        /\ Shape(cache) /\ Sound(cache)
    BY <1>1, <1>2, Facts
  <1>4. /\ conn = [z \in Conns |-> conn[z]] /\ \A z \in Conns : ConnOK(conn[z])
        /\ todelete \in Seq(Items) /\ Counted
    BY <1>1 DEF IInv
  <1>5. CASE /\ cache' = [cache EXCEPT !.halted = "cache_lock"]
             /\ conn' = conn /\ todelete' = todelete
    <2>1. Shape(cache') /\ cache'.halted # "no"
      <3> DEFINE name == "cache_lock"
      <3>1. cache' = [cache EXCEPT !.halted = name] /\ name # "no"
        BY <1>5
      <3> HIDE DEF name
      <3> QED
        BY <1>3, <3>1 DEF Shape, Fields
    <2>2. Shape(cache)'
      BY <2>1 DEF Shape
    <2> QED
      BY <1>1, <1>3, <1>4, <1>5, <2>1, <2>2 DEF IInv, ConnOK
  <1>6. CASE /\ cache' = [cache EXCEPT !.exptime[i] = t, !.deleted = @ \cup {i}]
             /\ todelete' = more /\ Done(s)
    <2>1. /\ more \in Seq(Items) /\ ToSet(more) = ToSet(todelete) \cup {i}
          /\ \A j : Copies(more, j) = Copies(todelete, j) + One(i, j)
      BY <1>3, <1>4, CopiesAppend DEF One
    <2>2. conn' = [conn EXCEPT ![s] = Idle]
      BY <1>6 DEF Done
    <2>3. ConnOK(Idle) /\ Idle.it = Null
      BY IdleOK
    <2>4. \A j \in Items : HeldBy(j)' + One(i, j) = HeldBy(j) + One(Null, j)
                           /\ HeldBy(j)' \in Nat
      BY <1>4, <2>2, <2>3, HolderStep
    <2> HIDE DEF i, t, more
    <2>5. /\ Shape(cache') /\ cache'.deleted = cache.deleted \cup {i}
          /\ cache'.free = cache.free /\ cache'.linked = cache.linked
          /\ cache'.refcount = cache.refcount /\ cache'.key = cache.key
          /\ cache'.time = cache.time /\ cache'.table = cache.table /\ cache'.lru = cache.lru
      BY <1>3, <1>6 DEF Shape, Fields
    <2>6. Shape(cache)' /\ Typed(cache)' /\ Linked(cache)' /\ FreeBut(cache, {})'
      BY <1>3, <2>5 DEF Shape, Sound, Typed, Linked, FreeBut
    <2>7. \A j \in Items : cache'.refcount[j] = HeldBy(j)' + Copies(todelete, j)'
      <3> TAKE j \in Items
      <3> DEFINE h == HeldBy(j)
                 g == HeldBy(j)'
                 k == Copies(todelete, j)
                 l == Copies(more, j)
                 m == cache.refcount[j]
                 a == One(i, j)
                 b == One(Null, j)
      <3>1. g + a = h + b /\ l = k + a /\ m = h + k /\ b = 0
        BY <1>4, <2>1, <2>4, ItemsAssumption DEF Counted, One
      <3>2. h \in Nat /\ g \in Nat /\ k \in Nat /\ l \in Nat /\ a \in Nat
        <4>1. a \in Nat
          BY DEF One
        <4>2. k \in Nat /\ l \in Nat
          BY <1>4, <2>1, CopiesNat
        <4> QED
          BY <2>4, <4>1, <4>2, HeldByNat
      <3> HIDE DEF h, g, k, l, m, a, b
      <3>3. m = g + l
        BY <3>1, <3>2
      <3> QED
        BY <1>6, <2>5, <3>3 DEF m, g, l
    <2>8. Queued(cache)' = ToSet(todelete)'
      <3>1. i \notin cache.free
        BY <1>3 DEF Sound, FreeBut, i
      <3> QED
        BY <1>4, <1>6, <2>1, <2>5, <3>1 DEF Counted, Queued
    <2>9. (conn = [z \in Conns |-> conn[z]])' /\ \A z \in Conns : ConnOK(conn[z])'
      <3>1. \A z \in Conns : conn'[z] = IF z = s THEN Idle ELSE conn[z]
        BY <1>4, <2>2
      <3>2. conn' = [z \in Conns |-> conn'[z]]
        BY <1>4, <2>2
      <3> QED
        BY <1>4, <2>3, <3>1, <3>2 DEF ConnOK
    <2>10. todelete' \in Seq(Items) /\ current_time' \in Nat
      BY <1>1, <1>3, <1>6, <2>1
    <2> QED
      BY <2>6, <2>7, <2>8, <2>9, <2>10 DEF IInv, Counted
  <1> QED
    BY <1>1, <1>5, <1>6

\* The delete timer.
LEMMA TimerStep ==
    ASSUME IInv, NoneOld, delete_handler
    PROVE  IInv'
  <1>1. /\ cache.halted = "no" /\ conn' = conn /\ current_time' = current_time
        /\ \E r \in do_run_deferred_deletes : cache' = r.c /\ todelete' = r.kept
    BY DEF delete_handler, Cached, clock
  <1>2. PICK r \in do_run_deferred_deletes : cache' = r.c /\ todelete' = r.kept
    BY <1>1
  <1>3. /\ Fine(cache) /\ todelete \in Seq(Items) /\ Counted /\ current_time \in Nat
        /\ conn = [z \in Conns |-> conn[z]] /\ \A z \in Conns : ConnOK(conn[z])
    BY <1>1, Sounds DEF IInv
  <1>4. /\ Shape(r.c) /\ r.kept \in Seq(Items)
        /\ r.c.halted = "no" =>
              /\ Sound(r.c)
              /\ \A i \in Items : r.c.refcount[i] = HeldBy(i) + Copies(r.kept, i)
              /\ Queued(r.c) = ToSet(r.kept)
    BY <1>1, <1>3, HeldByNat, TimerGoes
  <1>5. \A i : HeldBy(i)' = HeldBy(i)
    BY <1>1 DEF HeldBy, Holders
  <1>6. Shape(cache)'
    BY <1>2, <1>4 DEF Shape
  <1>7. cache'.halted = "no" =>
            Typed(cache)' /\ Linked(cache)' /\ FreeBut(cache, {})' /\ Counted'
    <2> HAVE cache'.halted = "no"
    <2>1. Sound(cache')
      BY <1>2, <1>4
    <2>2. Typed(cache)' /\ Linked(cache)' /\ FreeBut(cache, {})'
      BY <2>1 DEF Sound, Typed, Linked, FreeBut
    <2>3. \A i \in Items : cache'.refcount[i] = HeldBy(i)' + Copies(todelete, i)'
      BY <1>2, <1>4, <1>5
    <2>4. Queued(cache)' = ToSet(todelete)'
      BY <1>2, <1>4 DEF Queued
    <2> QED
      BY <2>2, <2>3, <2>4 DEF Counted
  <1>8. todelete' \in Seq(Items) /\ current_time' \in Nat
    BY <1>1, <1>2, <1>3, <1>4
  <1> QED
    BY <1>1, <1>3, <1>6, <1>7, <1>8 DEF IInv, ConnOK

\* A step that leaves the cache, the connections and the queue.
LEMMA StillStep ==
    ASSUME IInv, cache' = cache, conn' = conn, todelete' = todelete, current_time' \in Nat
    PROVE  IInv'
  <1>1. \A i : HeldBy(i)' = HeldBy(i)
    BY DEF HeldBy, Holders
  <1>2. cache.halted = "no" => Counted'
    BY <1>1 DEF IInv, Counted, Queued
  <1> QED
    BY <1>2 DEF IInv, ConnOK, Shape, Typed, Linked, FreeBut

\* Every step keeps the invariant.
LEMMA Steps ==
    ASSUME IInv, NoneOld, [Next]_vars
    PROVE  IInv'
  <1>0. current_time \in Nat
    BY DEF IInv
  <1>1. CASE \E s \in Conns :
                \/ item_unlink(s) \/ item_remove(s) \/ item_update(s)
                \/ alloc_failed(s) \/ complete_nread(s) \/ add_delta(s)
                \/ item_flush_expired(s)
    BY <1>1, UnlinkStep, RemoveStep, UpdateStep, AllocFailedStep, NreadStep, DeltaStep,
       FlushStep
  <1>2. CASE \E s \in Conns, k \in Keys :
                \/ process_get_command(s, k) \/ process_delete_command(s, k)
                \/ \E cmd \in Arithmetic : process_arithmetic_command(s, cmd, k)
    BY <1>2, AskStep
  <1>3. CASE \E s \in Conns, k \in Keys, cmd \in Storage, v \in Values, e \in Exptimes,
                u \in 0 .. cache.last_cas : process_update_command(s, cmd, k, v, e, u)
    BY <1>3, StoreStep
  <1>4. CASE \E s \in Conns, d \in Delays : defer_delete(s, d)
    BY <1>4, DeferStep
  <1>5. CASE \E s \in Conns, d \in FlushDelays : flush_all(s, d)
    BY <1>5, FlushAllStep
  <1>6. CASE delete_handler
    BY <1>6, TimerStep
  <1>7. CASE clock_handler \/ Halted \/ UNCHANGED vars
    <2>1. /\ cache' = cache /\ conn' = conn /\ todelete' = todelete
          /\ current_time' = current_time + 1 \/ current_time' = current_time
      BY <1>7 DEF clock_handler, Halted, vars, defer, clock
    <2>2. current_time' \in Nat
      BY <1>0, <2>1
    <2> QED
      BY <2>1, <2>2, StillStep
  <1>8. Next \/ UNCHANGED vars
    OBVIOUS
  <1> QED
    BY <1>1, <1>2, <1>3, <1>4, <1>5, <1>6, <1>7, <1>8 DEF Next

\* It holds at first.
LEMMA Starts == Init => IInv
  <1> HAVE Init
  <1>1. /\ cache = InitCache /\ conn = [s \in Conns |-> Idle] /\ todelete = <<>>
        /\ current_time = StartTime
    BY DEF Init
  <1> DEFINE zero == 0
             none == <<>>
             no == "no"
             empty == {}
             c == InitCache
  <1>2. c = [free |-> Items, linked |-> empty, deleted |-> empty,
             refcount |-> [i \in Items |-> zero], key |-> [i \in Items |-> Null],
             data |-> [i \in Items |-> none], time |-> [i \in Items |-> zero],
             exptime |-> [i \in Items |-> zero], cas_id |-> [i \in Items |-> zero],
             table |-> [k \in Keys |-> Null], lru |-> none, last_cas |-> zero,
             halted |-> no]
    BY DEF InitCache
  <1>3. none \in Seq(Items) /\ Len(none) = 0 /\ zero \in Nat /\ no = "no"
    OBVIOUS
  <1>4. ToSet(none) = {} /\ \A i : Copies(none, i) = 0
    <2>1. DOMAIN none = {}
      OBVIOUS
    <2>2. ToSet(none) = {}
      BY <2>1 DEF ToSet
    <2>3. \A i : {n \in DOMAIN none : none[n] = i} = {}
      BY <2>1
    <2> QED
      BY <2>2, <2>3, FS_EmptySet DEF Copies
  <1> HIDE DEF zero, none, no, empty, c
  <1>5. /\ c.free = Items /\ c.linked = empty /\ c.deleted = empty
        /\ c.refcount = [i \in Items |-> zero] /\ c.key = [i \in Items |-> Null]
        /\ c.time = [i \in Items |-> zero] /\ c.table = [k \in Keys |-> Null]
        /\ c.lru = none /\ Shape(c)
    BY <1>2 DEF Shape, Fields
  <1>6. Typed(c) /\ Linked(c) /\ FreeBut(c, {}) /\ Queued(c) = {}
    <2>1. Lists(none, {})
      BY <1>3 DEF Lists
    <2> QED
      BY <1>3, <1>5, <2>1 DEF Typed, Linked, FreeBut, Queued, empty, zero
  <1>7. cache = c
    BY <1>1 DEF c
  <1>8. \A i : HeldBy(i) = IF i = Null THEN Cardinality(Conns) ELSE 0
    <2> TAKE i
    <2>1. \A s \in Conns : conn[s].it = Null
      BY <1>1 DEF Idle
    <2>2. Holders(i) = IF i = Null THEN Conns ELSE {}
      BY <2>1 DEF Holders
    <2> QED
      BY <2>2, FS_EmptySet DEF HeldBy
  <1>9. Counted
    <2>1. \A i \in Items : cache.refcount[i] = HeldBy(i) + Copies(todelete, i)
      <3> TAKE i \in Items
      <3>1. HeldBy(i) = 0
        BY <1>8, ItemsAssumption
      <3>2. Copies(todelete, i) = 0
        BY <1>1, <1>4 DEF none
      <3>3. cache.refcount[i] = 0
        BY <1>5, <1>7 DEF zero
      <3> QED
        BY <3>1, <3>2, <3>3
    <2>2. Queued(cache) = ToSet(todelete)
      BY <1>1, <1>4, <1>6, <1>7 DEF none
    <2> QED
      BY <2>1, <2>2 DEF Counted
  <1>10. conn = [s \in Conns |-> conn[s]] /\ \A s \in Conns : ConnOK(conn[s])
    BY <1>1, IdleOK
  <1>11. todelete \in Seq(Items) /\ current_time \in Nat
    BY <1>1, <1>3, CacheAssumption DEF none
  <1> QED
    BY <1>5, <1>6, <1>7, <1>9, <1>10, <1>11 DEF IInv

\* It holds always, if no item is old.
LEMMA Always == Spec /\ []NoneOld => []IInv
  <1>1. Init => IInv
    BY Starts
  <1>2. IInv /\ NoneOld /\ [Next]_vars => IInv'
    BY Steps
  <1> QED
    BY <1>1, <1>2, PTL DEF Spec

\* A list without repetition has each of its items once.
LEMMA ListsCopies ==
    ASSUME NEW seq, NEW S, Lists(seq, S), NEW i
    PROVE  Copies(seq, i) = IF i \in S THEN 1 ELSE 0
  <1> DEFINE P == {n \in DOMAIN seq : seq[n] = i}
  <1>1. DOMAIN seq = 1 .. Len(seq)
    BY DEF Lists
  <1>2. CASE i \in S
    <2>1. PICK n \in 1 .. Len(seq) : seq[n] = i
      BY <1>2 DEF Lists
    <2>2. P = {n}
      BY <1>1, <2>1 DEF Lists
    <2> QED
      BY <1>2, <2>2, FS_Singleton DEF Copies
  <1>3. CASE i \notin S
    <2>1. P = {}
      BY <1>1, <1>3 DEF Lists
    <2> QED
      BY <1>3, <2>1, FS_EmptySet DEF Copies
  <1> QED
    BY <1>2, <1>3

\* Flags, hash table and LRU list agree (do_item_link, do_item_unlink): an item is in the
\* table under its key and once on the list, or in neither.
THEOREM AlwaysLinkedExactly == Spec /\ []NoneOld => []LinkedExactly
  <1>1. IInv => LinkedExactly
    <2> SUFFICES ASSUME IInv, Running, NEW i \in Items
                 PROVE  /\ (i \in cache.linked) = (Copies(cache.lru, i) = 1)
                        /\ (i \notin cache.linked) = (Copies(cache.lru, i) = 0)
                        /\ {k \in Keys : cache.table[k] = i} =
                               IF i \in cache.linked THEN {cache.key[i]} ELSE {}
      BY DEF LinkedExactly
    <2>1. Typed(cache) /\ Linked(cache) /\ FreeBut(cache, {})
      BY DEF IInv, Running
    <2>2. Copies(cache.lru, i) = IF i \in cache.linked THEN 1 ELSE 0
      BY <2>1, ListsCopies DEF Linked
    <2>3. i # Null
      BY ItemsAssumption
    <2>4. {k \in Keys : cache.table[k] = i} = IF i \in cache.linked THEN {cache.key[i]} ELSE {}
      <3>1. CASE i \in cache.linked
        <4>1. i \notin cache.free /\ cache.key[i] \in Keys /\ cache.table[cache.key[i]] = i
          BY <2>1, <3>1 DEF Linked
        <4> QED
          BY <2>1, <2>3, <3>1, <4>1 DEF Linked
      <3>2. CASE i \notin cache.linked
        BY <2>1, <2>3, <3>2 DEF Linked
      <3> QED
        BY <3>1, <3>2
    <2> QED
      BY <2>2, <2>4
  <1> QED
    BY <1>1, Always, PTL

\* The reference count of an item is the number of connections and queue entries that will
\* use it again; without any it is linked or free: no item is freed under its user, and none
\* leaks (do_item_remove, do_store_item, do_run_deferred_deletes).
THEOREM AlwaysRefcountExact == Spec /\ []NoneOld => []RefcountExact
  <1>1. IInv => RefcountExact
    BY DEF IInv, RefcountExact, Running, Counted, HeldBy, FreeBut
  <1> QED
    BY <1>1, Always, PTL

\* The items marked ITEM_DELETED, and not free, are those of the delete queue.
THEOREM AlwaysMarked ==
    Spec /\ []NoneOld => [](Running => cache.deleted \ cache.free = ToSet(todelete))
  <1>1. IInv => (Running => cache.deleted \ cache.free = ToSet(todelete))
    BY DEF IInv, Running, Counted, Queued
  <1> QED
    BY <1>1, Always, PTL

\* With -M (evict_to_free off) there is no tail repair, and nothing has to be assumed.
THEOREM WithoutEviction ==
    ASSUME ~EvictToFree
    PROVE  Spec => [](LinkedExactly /\ RefcountExact)
  <1>1. NoneOld
    BY DEF NoneOld, Young
  <1>2. Spec /\ []NoneOld => []LinkedExactly
    BY AlwaysLinkedExactly
  <1>3. Spec /\ []NoneOld => []RefcountExact
    BY AlwaysRefcountExact
  <1> QED
    BY <1>1, <1>2, <1>3, PTL

----------------------------------------------------------------------------
(* What lookups may see: a cache in which only a link gives a key a value *)

\* The types, also when an assertion has failed: an item is in the table under its key
\* only, and one that is marked deleted has a time at which that ends.
Tabled(c) ==
    /\ Shape(c) /\ Typed(c)
    /\ c.exptime \in [Items -> Int] /\ c.last_cas \in Nat
    /\ c.data = [i \in Items |-> c.data[i]] /\ c.cas_id = [i \in Items |-> c.cas_id[i]]
    /\ \A k \in Keys : c.table[k] # Null => c.table[k] \in c.linked /\ c.key[c.table[k]] = k
    /\ \A i \in c.deleted : c.exptime[i] # 0

\* No free chunk is linked, and the list is exact.
Trim(c) == c.free \cap c.linked = {} /\ Lists(c.lru, c.linked)

\* From c to d, the item of k is gone or as it was.
Leaves(c, d, k) ==
    LET i == d.table[k]
    IN i # Null => /\ c.table[k] = i
                   /\ d.data[i] = c.data[i] /\ d.cas_id[i] = c.cas_id[i]
                   /\ d.exptime[i] = c.exptime[i] /\ (i \in d.deleted <=> i \in c.deleted)
                   /\ flushed(c, i) => flushed(d, i)

\* ... or has a cas id that nothing had.
Fresh(c, d, k) ==
    d.table[k] # Null => d.cas_id[d.table[k]] \in c.last_cas + 1 .. d.last_cas

\* What functions of items.c do, in a server that may have stopped: only the key h, if it
\* is one, may get a value, and only the chunk new, if it is one, another key.
Does(c, d, h, new) ==
    /\ Tabled(d) /\ d.last_cas >= c.last_cas
    /\ \A k \in Keys : Leaves(c, d, k) \/ (k = h /\ Fresh(c, d, k))
    /\ \A i \in Items : d.key[i] \in {c.key[i], Null} \/ i = new

\* Nothing done.
LEMMA DoesNothing ==
    ASSUME NEW c, Tabled(c), NEW h
    PROVE  Does(c, c, h, Null)
  BY DEF Does, Tabled, Leaves

\* One after the other.
LEMMA DoesThen ==
    ASSUME NEW b, NEW c, NEW d, NEW g, NEW h, NEW k, g \in {Null, k}, h \in {Null, k},
           NEW x, NEW y, NEW z, x \in {Null, z}, y \in {Null, z},
           Tabled(b), Does(b, c, g, x), Does(c, d, h, y)
    PROVE  Does(b, d, k, z)
  <1>1. b.last_cas \in Nat /\ c.last_cas \in Nat /\ d.last_cas \in Nat
        /\ b.last_cas <= c.last_cas /\ c.last_cas <= d.last_cas
    BY DEF Does, Tabled
  <1>2. Null \notin Keys
    BY ItemsAssumption
  <1>3. ASSUME NEW j \in Keys PROVE Leaves(b, d, j) \/ (j = k /\ Fresh(b, d, j))
    <2>1. CASE Leaves(b, c, j) /\ Leaves(c, d, j)
      BY <2>1 DEF Leaves
    <2>2. CASE j = k /\ Fresh(c, d, j)
      BY <1>1, <2>2 DEF Fresh
    <2>3. CASE j = k /\ Fresh(b, c, j) /\ Leaves(c, d, j)
      BY <1>1, <2>3 DEF Fresh, Leaves
    <2> QED
      BY <1>2, <2>1, <2>2, <2>3 DEF Does
  <1>4. \A j \in Items : d.key[j] \in {b.key[j], Null} \/ j = z
    BY ItemsAssumption DEF Does
  <1> QED
    BY <1>1, <1>3, <1>4 DEF Does

\* What lookups do not look at.
Aside == {"refcount", "lru", "halted"}

\* Other references, another order, or a failed assertion.
LEMMA DoesAside ==
    ASSUME NEW c, Tabled(c), NEW d, Shape(d), \A f \in Fields \ Aside : d[f] = c[f],
           d.refcount \in [Items -> Nat], NEW h
    PROVE  /\ Tabled(d) /\ Does(c, d, h, Null)
           /\ d.lru = c.lru /\ Trim(c) => Trim(d)
  <1>1. /\ d.free = c.free /\ d.linked = c.linked /\ d.deleted = c.deleted
        /\ d.key = c.key /\ d.data = c.data /\ d.time = c.time /\ d.exptime = c.exptime
        /\ d.cas_id = c.cas_id /\ d.table = c.table /\ d.last_cas = c.last_cas
    BY DEF Fields, Aside
  <1>2. Tabled(d)
    BY <1>1 DEF Tabled, Typed
  <1>3. \A k \in Keys : Leaves(c, d, k)
    BY <1>1 DEF Leaves, flushed
  <1>4. d.last_cas >= c.last_cas
    BY <1>1 DEF Tabled
  <1> QED
    BY <1>1, <1>2, <1>3, <1>4 DEF Does, Trim

\* An assertion.
LEMMA ExpectDoes ==
    ASSUME NEW c, Tabled(c), NEW holds, NEW name, name # "no", NEW e, e = Expect(c, holds, name)
    PROVE  /\ Does(c, e, Null, Null) /\ (Trim(c) => Trim(e)) /\ Shape(e)
           /\ (e.halted = "no" => e = c /\ holds) /\ \A f \in Fields \ {"halted"} : e[f] = c[f]
  <1>1. Shape(c)
    BY DEF Tabled
  <1>2. Shape(e) /\ (e.halted = "no" => e = c /\ holds)
    BY <1>1, Expects
  <1>3. \A f \in Fields \ {"halted"} : e[f] = c[f]
    BY <1>1 DEF Expect, Shape, Fields
  <1>4. e.refcount \in [Items -> Nat] /\ e.lru = c.lru /\ \A f \in Fields \ Aside : e[f] = c[f]
    BY <1>3 DEF Tabled, Typed, Fields, Aside
  <1>5. Trim(c) => Trim(e)
    BY <1>2, <1>4, DoesAside
  <1>6. Does(c, e, Null, Null)
    BY <1>2, <1>4, DoesAside
  <1> QED
    BY <1>2, <1>3, <1>5, <1>6

\* item_free of a chunk that is out of the table.
LEMMA FreeDoes ==
    ASSUME NEW c, Tabled(c), NEW i \in Items, i \notin c.linked
    PROVE  Does(c, item_free(c, i), Null, Null) /\ (Trim(c) => Trim(item_free(c, i)))
  <1> DEFINE ends == {c.lru[n] : n \in DOMAIN c.lru \cap {1, Len(c.lru)}}
             holds == i \notin c.linked \cup ends /\ c.refcount[i] = 0
             d == Expect(c, holds, "item_free")
             e == item_free(c, i)
             none == <<>>
  <1>1. e = [d EXCEPT !.free = @ \cup {i}, !.key[i] = Null, !.data[i] = none,
                      !.time[i] = 0, !.cas_id[i] = 0]
    BY DEF item_free
  <1>2. Does(c, d, Null, Null) /\ (Trim(c) => Trim(d)) /\ \A f \in Fields \ {"halted"} : d[f] = c[f]
    <2>1. "item_free" # "no"
      OBVIOUS
    <2> HIDE DEF holds
    <2> QED
      BY <2>1, ExpectDoes
  <1> HIDE DEF d, e, none
  <1>3. Tabled(d) /\ d.linked = c.linked
    BY <1>2 DEF Does, Fields
  <1>4. /\ Shape(e) /\ e.halted = d.halted
        /\ e.free = d.free \cup {i} /\ e.linked = d.linked /\ e.deleted = d.deleted
        /\ e.refcount = d.refcount /\ e.key = [d.key EXCEPT ![i] = Null]
        /\ e.time = [d.time EXCEPT ![i] = 0] /\ e.exptime = d.exptime
        /\ e.table = d.table /\ e.lru = d.lru /\ e.last_cas = d.last_cas
        /\ e.data = [d.data EXCEPT ![i] = none] /\ e.cas_id = [d.cas_id EXCEPT ![i] = 0]
    BY <1>1, <1>3 DEF Tabled, Shape, Fields
  <1>5. \A j \in Items \ {i} : /\ e.key[j] = d.key[j] /\ e.data[j] = d.data[j]
                               /\ e.time[j] = d.time[j] /\ e.cas_id[j] = d.cas_id[j]
    BY <1>3, <1>4 DEF Tabled, Typed
  <1>6. \A j \in d.linked : j \in Items \ {i}
    BY <1>3 DEF Tabled, Typed
  <1>7. Tabled(e)
    <2>1. Typed(e)
      BY <1>3, <1>4 DEF Tabled, Typed
    <2>2. e.data = [j \in Items |-> e.data[j]] /\ e.cas_id = [j \in Items |-> e.cas_id[j]]
      BY <1>3, <1>4 DEF Tabled
    <2>3. \A k \in Keys : e.table[k] # Null => e.table[k] \in e.linked /\ e.key[e.table[k]] = k
      BY <1>3, <1>4, <1>5, <1>6 DEF Tabled
    <2> QED
      BY <1>3, <1>4, <2>1, <2>2, <2>3 DEF Tabled
  <1>8. Trim(d) => Trim(e)
    BY <1>3, <1>4 DEF Trim
  <1>9. \A k \in Keys : Leaves(d, e, k)
    BY <1>3, <1>4, <1>5, <1>6 DEF Tabled, Leaves, flushed
  <1>10. Does(d, e, Null, Null)
    BY <1>3, <1>4, <1>7, <1>9 DEF Does, Tabled
  <1>11. Does(c, e, Null, Null)
    BY <1>2, <1>10, DoesThen
  <1> QED
    BY <1>2, <1>8, <1>11 DEF e

\* do_item_unlink.
LEMMA UnlinkDoes ==
    ASSUME NEW c, Tabled(c), NEW i
    PROVE  /\ Does(c, do_item_unlink(c, i), Null, Null) /\ (Trim(c) => Trim(do_item_unlink(c, i)))
           /\ i \notin do_item_unlink(c, i).linked
           /\ do_item_unlink(c, i).deleted = c.deleted
           /\ \A j \in Items : do_item_unlink(c, i).key[j] \in {c.key[j], Null}
  <1> DEFINE e == do_item_unlink(c, i)
  <1>1. CASE i \notin c.linked
    <2>1. e = c
      BY <1>1 DEF do_item_unlink
    <2> QED
      BY <1>1, <2>1, DoesNothing
  <1>2. CASE i \in c.linked
    <2> DEFINE k == c.key[i]
               holds == c.table[k] # Null
               a == Expect(c, holds, "assoc_delete")
               x == [a EXCEPT !.linked = @ \ {i}, !.table[k] = Null]
               b == unlink_q(x, i)
    <2>1. e = IF c.refcount[i] = 0 THEN item_free(b, i) ELSE b
      BY <1>2 DEF do_item_unlink
    <2>0. i \in Items
      BY <1>2 DEF Tabled, Typed
    <2>2. Does(c, a, Null, Null) /\ (Trim(c) => Trim(a)) /\ \A f \in Fields \ {"halted"} : a[f] = c[f]
      <3>1. "assoc_delete" # "no"
        OBVIOUS
      <3> HIDE DEF holds
      <3> QED
        BY <3>1, ExpectDoes
    <2> HIDE DEF a, holds
    <2>3. Tabled(a) /\ Shape(a) /\ a.key = c.key /\ a.linked = c.linked /\ a.deleted = c.deleted
      BY <2>2 DEF Does, Tabled, Fields
    <2>4. /\ Shape(x) /\ x.linked = a.linked \ {i} /\ x.table = [a.table EXCEPT ![k] = Null]
          /\ \A f \in Fields \ {"linked", "table"} : x[f] = a[f]
      BY <2>3 DEF Shape, Fields
    <2> HIDE DEF x, k
    <2>5. /\ Shape(b) /\ \A f \in Fields \ {"lru"} : b[f] = x[f]
          /\ \A S : Lists(x.lru, S) /\ i \in S => Lists(b.lru, S \ {i})
      BY <2>4, UnlinksQ
    <2> HIDE DEF b, e
    <2>6. /\ b.linked = a.linked \ {i} /\ b.table = [a.table EXCEPT ![k] = Null]
          /\ b.free = a.free /\ b.deleted = a.deleted /\ b.refcount = a.refcount
          /\ b.key = a.key /\ b.data = a.data /\ b.time = a.time /\ b.exptime = a.exptime
          /\ b.cas_id = a.cas_id /\ b.last_cas = a.last_cas /\ b.halted = a.halted
      BY <2>4, <2>5 DEF Fields
    <2>7. Trim(a) => Trim(b)
      <3> HAVE Trim(a)
      <3>1. x.lru = a.lru
        BY <2>4 DEF Fields
      <3>2. Lists(b.lru, a.linked \ {i})
        BY <1>2, <2>3, <2>5, <3>1 DEF Trim
      <3> QED
        BY <2>6, <3>2 DEF Trim
    <2>8. \A j \in Keys : b.table[j] # Null => b.table[j] = a.table[j] /\ j # k
      BY <2>3, <2>6 DEF Tabled, Typed
    <2>9. \A j \in Keys : b.table[j] # Null =>
              b.table[j] \in b.linked /\ b.key[b.table[j]] = j
      <3> SUFFICES ASSUME NEW j \in Keys, b.table[j] # Null
                   PROVE  b.table[j] \in b.linked /\ b.key[b.table[j]] = j
        OBVIOUS
      <3>1. a.table[j] \in a.linked /\ a.key[a.table[j]] = j /\ b.table[j] = a.table[j] /\ j # k
        BY <2>3, <2>8 DEF Tabled
      <3> QED
        BY <2>3, <2>6, <3>1 DEF k
    <2>10. Tabled(b)
      <3>1. b.table \in [Keys -> Items \cup {Null}]
        BY <2>3, <2>6 DEF Tabled, Typed
      <3>2. Typed(b)
        BY <2>3, <2>6, <3>1 DEF Tabled, Typed
      <3> QED
        BY <2>3, <2>5, <2>6, <2>9, <3>2 DEF Tabled
    <2>11. \A j \in Keys : Leaves(a, b, j)
      BY <2>6, <2>8 DEF Leaves, flushed
    <2>12. Does(a, b, Null, Null)
      BY <2>3, <2>6, <2>10, <2>11 DEF Does, Tabled
    <2>13. i \notin b.linked
      BY <2>6
    <2>14. Does(c, b, Null, Null)
      BY <2>2, <2>12, DoesThen
    <2>15. /\ Does(b, item_free(b, i), Null, Null) /\ (Trim(b) => Trim(item_free(b, i)))
           /\ Freed(b, i, item_free(b, i))
      BY <2>0, <2>5, <2>10, <2>13, FreeDoes, Frees
    <2>16. Does(c, item_free(b, i), Null, Null)
      BY <2>14, <2>15, DoesThen
    <2>17. item_free(b, i).linked = b.linked /\ item_free(b, i).deleted = b.deleted
      BY <2>15 DEF Freed
    <2>18. \A j \in Items : item_free(b, i).key[j] \in {b.key[j], Null}
      BY <2>0, <2>10, <2>15 DEF Freed, Tabled, Typed
    <2> QED
      BY <2>1, <2>2, <2>3, <2>6, <2>7, <2>13, <2>14, <2>15, <2>16, <2>17, <2>18 DEF e
  <1> QED
    BY <1>1, <1>2

\* do_item_remove.
LEMMA RemoveDoes ==
    ASSUME NEW c, Tabled(c), NEW i \in Items
    PROVE  Does(c, do_item_remove(c, i), Null, Null)
  <1> DEFINE out == i \notin c.free
             a == Expect(c, out, "do_item_remove")
             n == IF c.refcount[i] = 0 THEN 0 ELSE c.refcount[i] - 1
             held == i \notin c.deleted \/ n # 0
             x == [a EXCEPT !.refcount[i] = n]
             name == "do_item_remove deleted"
             b == Expect(x, held, name)
             e == do_item_remove(c, i)
  <1>1. e = IF n = 0 /\ i \notin c.linked THEN item_free(b, i) ELSE b
    BY DEF do_item_remove
  <1>2. Does(c, a, Null, Null) /\ Shape(a) /\ \A f \in Fields \ {"halted"} : a[f] = c[f]
    <2>1. "do_item_remove" # "no"
      OBVIOUS
    <2> HIDE DEF out
    <2> QED
      BY <2>1, ExpectDoes
  <1>3. n \in Nat
    <2>1. c.refcount[i] \in Nat
      BY DEF Tabled, Typed
    <2> QED
      BY <2>1
  <1> HIDE DEF a, n, held
  <1>4. Tabled(a) /\ a.linked = c.linked
    BY <1>2 DEF Does, Fields
  <1>5. /\ Shape(x) /\ x.refcount = [a.refcount EXCEPT ![i] = n]
        /\ \A f \in Fields \ {"refcount"} : x[f] = a[f]
    BY <1>2 DEF Shape, Fields
  <1> HIDE DEF x
  <1>6. Does(a, x, Null, Null) /\ x.linked = c.linked
    <2>1. x.refcount \in [Items -> Nat]
      BY <1>3, <1>4, <1>5 DEF Tabled, Typed
    <2>2. x.lru = a.lru /\ x.halted = a.halted /\ x.linked = a.linked
          /\ \A f \in Fields \ Aside : x[f] = a[f]
      BY <1>5 DEF Fields, Aside
    <2> QED
      BY <1>4, <1>5, <2>1, <2>2, DoesAside
  <1>7. Does(x, b, Null, Null) /\ \A f \in Fields \ {"halted"} : b[f] = x[f]
    <2>1. name # "no"
      OBVIOUS
    <2>2. Tabled(x)
      BY <1>6 DEF Does
    <2> HIDE DEF name
    <2> QED
      BY <2>1, <2>2, ExpectDoes
  <1> HIDE DEF b, e
  <1>8. Does(c, b, Null, Null)
    <2>1. Does(c, x, Null, Null)
      BY <1>2, <1>6, DoesThen
    <2> QED
      BY <1>7, <2>1, DoesThen
  <1>9. i \notin c.linked => Does(b, item_free(b, i), Null, Null)
    <2>1. Tabled(b) /\ b.linked = c.linked
      BY <1>6, <1>7 DEF Does, Fields
    <2> QED
      BY <2>1, FreeDoes
  <1>10. i \notin c.linked => Does(c, item_free(b, i), Null, Null)
    BY <1>8, <1>9, DoesThen
  <1> QED
    BY <1>1, <1>8, <1>10 DEF e

\* A lookup holds what it returns.
LEMMA HoldDoes ==
    ASSUME NEW c, Tabled(c), NEW i \in Items
    PROVE  /\ Does(c, Hold(c, i), Null, Null) /\ (Trim(c) => Trim(Hold(c, i)))
           /\ \A f \in Fields \ {"refcount"} : Hold(c, i)[f] = c[f]
  <1> DEFINE e == Hold(c, i)
             n == c.refcount[i] + 1
  <1>1. e = [c EXCEPT !.refcount[i] = n]
    BY DEF Hold, Tabled, Shape, Fields
  <1>2. n \in Nat
    BY DEF Tabled, Typed
  <1> HIDE DEF n, e
  <1>3. /\ Shape(e) /\ e.refcount = [c.refcount EXCEPT ![i] = n]
        /\ \A f \in Fields \ {"refcount"} : e[f] = c[f]
    BY <1>1 DEF Tabled, Shape, Fields
  <1>4. e.refcount \in [Items -> Nat]
    BY <1>2, <1>3 DEF Tabled, Typed
  <1>5. e.lru = c.lru /\ e.halted = c.halted /\ \A f \in Fields \ Aside : e[f] = c[f]
    BY <1>3 DEF Fields, Aside
  <1>6. Does(c, e, Null, Null) /\ (Trim(c) => Trim(e))
    BY <1>3, <1>4, <1>5, DoesAside
  <1> QED
    BY <1>3, <1>6 DEF e

\* do_item_update of an item that no flush has made invisible.
LEMMA UpdateDoes ==
    ASSUME current_time \in Nat, NEW c, Tabled(c), NEW i \in Items
    PROVE  LET e == do_item_update(c, i)
           IN /\ Tabled(e) /\ e.table = c.table /\ e.key = c.key
              /\ ~flushed(c, i) => Does(c, e, Null, Null)
  <1> DEFINE out == i \notin c.free
             a == Expect(c, out, "do_item_update")
             b == unlink_q(a, i)
             x == [b EXCEPT !.time[i] = current_time]
             e == do_item_update(c, i)
  <1>1. CASE ~long_unused(c, i)
    <2>1. e = c
      BY <1>1 DEF do_item_update
    <2> QED
      BY <2>1, DoesNothing
  <1>2. CASE long_unused(c, i)
    <2>1. e = IF i \in c.linked THEN link_q(x, i) ELSE a
      BY <1>2 DEF do_item_update
    <2>2. Does(c, a, Null, Null) /\ Shape(a) /\ \A f \in Fields \ {"halted"} : a[f] = c[f]
      <3>1. "do_item_update" # "no"
        OBVIOUS
      <3> HIDE DEF out
      <3> QED
        BY <3>1, ExpectDoes
    <2> HIDE DEF a
    <2>3. CASE i \notin c.linked
      BY <2>1, <2>2, <2>3 DEF Does, Fields
    <2>4. CASE i \in c.linked
      <3>1. /\ Shape(b) /\ \A f \in Fields \ {"lru"} : b[f] = a[f]
        BY <2>2, UnlinksQ
      <3> HIDE DEF b
      <3>2. /\ Shape(x) /\ x.time = [b.time EXCEPT ![i] = current_time]
            /\ \A f \in Fields \ {"time"} : x[f] = b[f]
        BY <3>1 DEF Shape, Fields
      <3> HIDE DEF x, e
      <3>3. Shape(e) /\ (\A f \in Fields \ {"lru"} : e[f] = x[f]) /\ e.lru = <<i>> \o x.lru
        <4>1. e = link_q(x, i)
          BY <2>1, <2>4
        <4> QED
          BY <3>2, <4>1, LinksQ
      <3>4. /\ e.linked = a.linked /\ e.time = [a.time EXCEPT ![i] = current_time]
            /\ e.table = a.table /\ e.free = a.free /\ e.deleted = a.deleted
            /\ e.refcount = a.refcount /\ e.key = a.key /\ e.data = a.data
            /\ e.exptime = a.exptime /\ e.cas_id = a.cas_id /\ e.last_cas = a.last_cas
            /\ e.halted = a.halted /\ e.lru = <<i>> \o b.lru
        BY <3>1, <3>2, <3>3 DEF Fields
      <3>5. Tabled(a) /\ a.linked = c.linked /\ a.time = c.time
        BY <2>2 DEF Does, Fields
      <3>6. Tabled(e)
        BY <3>3, <3>4, <3>5 DEF Tabled, Typed
      <3>8. \A j \in Items \ {i} : e.time[j] = a.time[j]
        BY <3>4, <3>5 DEF Tabled, Typed
      <3>7. e.table = c.table /\ e.key = c.key
        BY <2>2, <3>4 DEF Fields
      <3>9. flushed(a, i) <=> flushed(c, i)
        BY <3>5 DEF flushed
      <3>10. ~flushed(c, i) => \A k \in Keys : Leaves(a, e, k)
        <4> SUFFICES ASSUME ~flushed(c, i), NEW k \in Keys, e.table[k] # Null
                     PROVE  Leaves(a, e, k)
          BY DEF Leaves
        <4>1. e.table[k] \in Items
          BY <3>6 DEF Tabled, Typed
        <4>2. flushed(a, e.table[k]) => flushed(e, e.table[k])
          BY <3>8, <3>9, <4>1 DEF flushed
        <4> QED
          BY <3>4, <4>2 DEF Leaves
      <3>11. ~flushed(c, i) => Does(a, e, Null, Null)
        BY <3>4, <3>6, <3>10 DEF Does, Tabled
      <3>12. ~flushed(c, i) => Does(c, e, Null, Null)
        BY <2>2, <3>11, DoesThen
      <3> QED
        BY <3>6, <3>7, <3>12 DEF e
    <2> QED
      BY <2>3, <2>4
  <1> QED
    BY <1>1, <1>2

\* do_item_link gives the item's key a value, and a new cas id with it.
LEMMA LinkDoes ==
    ASSUME current_time \in Nat, NEW c, Tabled(c), NEW i \in Items
    PROVE  Does(c, do_item_link(c, i), c.key[i], Null)
  <1> DEFINE k == c.key[i]
             out == i \notin c.linked \cup c.free
             none == c.table[k] = Null
             a == Expect(c, out, "do_item_link")
             b == Expect(a, none, "assoc_insert")
             cas == c.last_cas + 1
             old == b.last_cas + 1
             x == [b EXCEPT !.linked = @ \cup {i}, !.time[i] = current_time,
                            !.table[k] = i, !.last_cas = old, !.cas_id[i] = cas]
             e == do_item_link(c, i)
  <1>1. e = link_q(x, i)
    BY DEF do_item_link
  <1>2. Does(c, a, Null, Null) /\ \A f \in Fields \ {"halted"} : a[f] = c[f]
    <2>1. "do_item_link" # "no"
      OBVIOUS
    <2> HIDE DEF out
    <2> QED
      BY <2>1, ExpectDoes
  <1> HIDE DEF a, out, none
  <1>3. Does(a, b, Null, Null) /\ Shape(b) /\ \A f \in Fields \ {"halted"} : b[f] = a[f]
    <2>1. "assoc_insert" # "no"
      OBVIOUS
    <2>2. Tabled(a)
      BY <1>2 DEF Does
    <2> QED
      BY <2>1, <2>2, ExpectDoes
  <1>4. Does(c, b, Null, Null)
    BY <1>2, <1>3, DoesThen
  <1> HIDE DEF b
  <1>5. Tabled(b) /\ b.key = c.key /\ b.last_cas = c.last_cas
    BY <1>2, <1>3, <1>4 DEF Does, Fields
  <1>6. cas = b.last_cas + 1 /\ old = b.last_cas + 1
    BY <1>5
  <1> HIDE DEF cas, old
  <1>7. /\ Shape(x) /\ x.linked = b.linked \cup {i} /\ x.time = [b.time EXCEPT ![i] = current_time]
        /\ x.table = [b.table EXCEPT ![k] = i]
        /\ x.cas_id = [b.cas_id EXCEPT ![i] = cas] /\ x.last_cas = old
        /\ x.free = b.free /\ x.deleted = b.deleted /\ x.refcount = b.refcount
        /\ x.key = b.key /\ x.lru = b.lru /\ x.halted = b.halted
        /\ x.data = b.data /\ x.exptime = b.exptime
    BY <1>3 DEF Shape, Fields
  <1> HIDE DEF x, e
  <1>8. Shape(e) /\ (\A f \in Fields \ {"lru"} : e[f] = x[f]) /\ e.lru = <<i>> \o x.lru
    BY <1>1, <1>7, LinksQ
  <1>9. /\ e.linked = b.linked \cup {i} /\ e.time = [b.time EXCEPT ![i] = current_time]
        /\ e.table = [b.table EXCEPT ![k] = i]
        /\ e.cas_id = [b.cas_id EXCEPT ![i] = cas] /\ e.last_cas = old
        /\ e.free = b.free /\ e.deleted = b.deleted /\ e.refcount = b.refcount
        /\ e.key = b.key /\ e.halted = b.halted /\ e.data = b.data /\ e.exptime = b.exptime
        /\ e.lru = <<i>> \o b.lru
    BY <1>7, <1>8 DEF Fields
  <1>10. b.last_cas \in Nat /\ e.last_cas = b.last_cas + 1 /\ cas = e.last_cas
    BY <1>5, <1>6, <1>9 DEF Tabled
  <1>11. \A j \in Keys : e.table[j] = IF j = k THEN i ELSE b.table[j]
    BY <1>5, <1>9 DEF Tabled, Typed
  <1>12. Tabled(e)
    <2>1. e.table \in [Keys -> Items \cup {Null}]
      <3>1. b.table \in [Keys -> Items \cup {Null}]
        BY <1>5 DEF Tabled, Typed
      <3> HIDE DEF k
      <3> QED
        BY <1>9, <3>1
    <2>2. Typed(e)
      BY <1>5, <1>9, <2>1 DEF Tabled, Typed
    <2>3. \A j \in Keys : e.table[j] # Null => e.table[j] \in e.linked /\ e.key[e.table[j]] = j
      BY <1>5, <1>9, <1>11 DEF Tabled, k
    <2>4. e.cas_id = [j \in Items |-> e.cas_id[j]]
      BY <1>5, <1>9 DEF Tabled
    <2>5. e.last_cas \in Nat
      BY <1>10
    <2> QED
      BY <1>5, <1>8, <1>9, <2>2, <2>3, <2>4, <2>5 DEF Tabled
  <1>13. \A j \in Items \ {i} : e.time[j] = b.time[j] /\ e.cas_id[j] = b.cas_id[j]
    BY <1>5, <1>9 DEF Tabled, Typed
  <1>14. ASSUME NEW j \in Keys PROVE Leaves(b, e, j) \/ (j = k /\ Fresh(b, e, j))
    <2>1. CASE j = k
      <3>1. e.table[j] = i /\ e.cas_id[i] = cas
        BY <1>5, <1>9, <1>11, <2>1 DEF Tabled
      <3> QED
        BY <1>10, <2>1, <3>1 DEF Fresh
    <2>2. CASE j # k /\ b.table[j] = i
      BY <1>5, <2>2, ItemsAssumption DEF Tabled, k
    <2>3. CASE j # k /\ b.table[j] # i
      <3>1. e.table[j] = b.table[j]
        BY <1>11, <2>3
      <3>2. e.table[j] # Null => e.table[j] \in Items \ {i}
        BY <1>5, <2>3, <3>1 DEF Tabled, Typed
      <3> QED
        BY <1>9, <1>13, <3>1, <3>2 DEF Leaves, flushed
    <2> QED
      BY <2>1, <2>2, <2>3
  <1>16. Does(b, e, k, Null)
    BY <1>9, <1>10, <1>12, <1>14 DEF Does
  <1> QED
    BY <1>4, <1>16, DoesThen DEF e, k

\* do_item_replace.
LEMMA ReplaceDoes ==
    ASSUME current_time \in Nat, NEW c, Tabled(c), NEW i, NEW new \in Items
    PROVE  Does(c, do_item_replace(c, i, new), c.key[new], Null)
  <1> DEFINE out == i \notin c.free
             a == Expect(c, out, "do_item_replace")
             b == do_item_unlink(a, i)
             e == do_item_link(b, new)
  <1>1. e = do_item_replace(c, i, new)
    BY DEF do_item_replace
  <1>2. Does(c, a, Null, Null) /\ \A f \in Fields \ {"halted"} : a[f] = c[f]
    <2>1. "do_item_replace" # "no"
      OBVIOUS
    <2> HIDE DEF out
    <2> QED
      BY <2>1, ExpectDoes
  <1> HIDE DEF a
  <1>3. Tabled(a) /\ a.key = c.key
    BY <1>2 DEF Does, Fields
  <1>4. Does(a, b, Null, Null) /\ b.key[new] \in {a.key[new], Null}
    BY <1>3, UnlinkDoes
  <1>5. Tabled(b)
    BY <1>4 DEF Does
  <1>6. Does(c, b, Null, Null)
    BY <1>2, <1>4, DoesThen
  <1> HIDE DEF b
  <1>7. Does(b, e, b.key[new], Null)
    BY <1>5, LinkDoes
  <1> HIDE DEF e
  <1>8. Does(c, e, c.key[new], Null)
    BY <1>3, <1>4, <1>6, <1>7, DoesThen
  <1> QED
    BY <1>1, <1>8

----------------------------------------------------------------------------
(* ... and what lookups, allocation and the commands do to it *)

\* What a lookup of k returns: none, or the table's item, which it holds.
Finds(c, g, k) ==
    /\ Does(c, g.c, Null, Null) /\ \A j \in Items : g.c.key[j] \in {c.key[j], Null}
    /\ g.it = Null \/ (g.it \in Items /\ g.it # Null /\ g.it = c.table[k] /\ g.c = Hold(c, g.it))

\* Both lookups; the one that looks at flags and times returns what is visible.
LEMMA GetDoes ==
    ASSUME NEW c, Tabled(c), NEW k \in Keys
    PROVE  /\ Finds(c, do_item_get_notedeleted(c, k), k)
           /\ Finds(c, do_item_get_nocheck(c, k), k)
           /\ do_item_get_notedeleted(c, k).it # Null => Visible(c, k)
  <1> DEFINE i == c.table[k]
             g == do_item_get_notedeleted(c, k)
             n == do_item_get_nocheck(c, k)
  <1>1. i \in Items \cup {Null} /\ Null \notin Items
    BY ItemsAssumption DEF Tabled, Typed
  <1>2. Does(c, c, Null, Null)
    BY DoesNothing
  <1>3. i # Null => Does(c, Hold(c, i), Null, Null) /\ Hold(c, i).key = c.key
    BY <1>1, HoldDoes DEF Fields
  <1>4. /\ Does(c, do_item_unlink(c, i), Null, Null)
        /\ \A j \in Items : do_item_unlink(c, i).key[j] \in {c.key[j], Null}
    BY UnlinkDoes
  <1> HIDE DEF i
  <1>5. Visible(c, k) => i # Null
    BY DEF Visible, i
  <1>6. n.it = i /\ n.c = IF i = Null THEN c ELSE Hold(c, i)
    BY DEF do_item_get_nocheck, i
  <1>7. /\ g.it = IF Visible(c, k) THEN i ELSE Null
        /\ g.c = IF Visible(c, k) THEN Hold(c, i)
                 ELSE IF i = Null \/ delete_locked(c, k) THEN c ELSE do_item_unlink(c, i)
    BY DEF do_item_get_notedeleted, i
  <1> HIDE DEF g, n
  <1>8. Finds(c, n, k)
    BY <1>1, <1>2, <1>3, <1>6 DEF Finds, i
  <1>9. Finds(c, g, k) /\ (g.it # Null => Visible(c, k))
    BY <1>1, <1>2, <1>3, <1>4, <1>5, <1>7 DEF Finds, i
  <1> QED
    BY <1>8, <1>9 DEF g, n

\* The search for a victim returns one of those it searches for.
LEMMA LastIn ==
    ASSUME NEW c, NEW items, LastOf(c, items) # Null, Lists(c.lru, c.linked)
    PROVE  LastOf(c, items) \in items
  BY LastLinked

\* What room is made.
LEMMA ReclaimDoes ==
    ASSUME NEW c, Tabled(c), Trim(c)
    PROVE  Does(c, reclaim(c), Null, Null) /\ Trim(reclaim(c)) /\ Tabled(reclaim(c))
  <1> DEFINE d == evict(c)
             e == tail_repair(d)
  <1>1. Does(c, d, Null, Null) /\ Trim(d)
    <2> DEFINE i == LastOf(c, {j \in Items : c.refcount[j] = 0})
    <2>1. d = IF i = Null THEN c ELSE do_item_unlink(c, i)
      BY DEF evict
    <2> HIDE DEF d, i
    <2> QED
      BY <2>1, UnlinkDoes, DoesNothing
  <1>2. Tabled(d)
    BY <1>1 DEF Does
  <1> HIDE DEF d
  <1>3. Does(d, e, Null, Null) /\ Trim(e)
    <2> DEFINE items == {j \in Items : /\ d.refcount[j] # 0
                                       /\ d.time[j] + RepairAge < current_time}
               i == LastOf(d, items)
               zero == 0
               b == [d EXCEPT !.refcount[i] = zero]
    <2>1. e = IF i = Null THEN d ELSE do_item_unlink(b, i)
      BY DEF tail_repair
    <2>2. i # Null => i \in items
      <3> HIDE DEF items
      <3> QED
        BY <1>1, LastIn DEF Trim
    <2>3. i # Null => i \in Items
      BY <2>2
    <2>4. zero \in Nat
      OBVIOUS
    <2> HIDE DEF i, e, zero
    <2>5. CASE i = Null
      BY <1>1, <1>2, <2>1, <2>5, DoesNothing
    <2>6. CASE i # Null
      <3>1. /\ Shape(b) /\ b.refcount = [d.refcount EXCEPT ![i] = zero]
            /\ \A f \in Fields \ {"refcount"} : b[f] = d[f]
        BY <1>2 DEF Tabled, Shape, Fields
      <3> HIDE DEF b
      <3>2. b.refcount \in [Items -> Nat]
        <4>1. d.refcount \in [Items -> Nat]
          BY <1>2 DEF Tabled, Typed
        <4> HIDE DEF items
        <4> QED
          BY <2>4, <3>1, <4>1
      <3>3. b.lru = d.lru /\ b.halted = d.halted /\ \A f \in Fields \ Aside : b[f] = d[f]
        BY <3>1 DEF Fields, Aside
      <3>4. Does(d, b, Null, Null) /\ Trim(b) /\ Tabled(b)
        BY <1>1, <1>2, <3>1, <3>2, <3>3, DoesAside
      <3>5. Does(b, e, Null, Null) /\ Trim(e)
        BY <2>1, <2>6, <3>4, UnlinkDoes
      <3> QED
        BY <1>2, <3>4, <3>5, DoesThen
    <2> QED
      BY <2>5, <2>6
  <1>4. Tabled(e)
    BY <1>3 DEF Does
  <1>5. Does(c, e, Null, Null)
    BY <1>1, <1>3, DoesThen
  <1>6. reclaim(c) \in {c, d, e}
    BY DEF reclaim, d
  <1> HIDE DEF e
  <1>7. Does(c, c, Null, Null)
    BY DoesNothing
  <1> QED
    BY <1>1, <1>2, <1>3, <1>4, <1>5, <1>6, <1>7

\* A free chunk gets a new header.
LEMMA NewDoes ==
    ASSUME NEW c, Tabled(c), Trim(c), NEW i \in c.free, NEW k \in Keys \cup {Null},
           NEW exptime \in Int
    PROVE  LET e == new_item(c, i, k, exptime)
           IN /\ Does(c, e, Null, i) /\ e.key[i] = k /\ i \in Items
              /\ e.linked = c.linked /\ i \notin c.linked
              /\ \A j \in Items \ {i} : e.key[j] = c.key[j]
  <1> DEFINE e == new_item(c, i, k, exptime)
             one == 1
  <1>1. i \in Items /\ i \notin c.linked
    BY DEF Tabled, Typed, Trim
  <1>2. e = [c EXCEPT !.free = @ \ {i}, !.deleted = @ \ {i}, !.refcount[i] = one,
                      !.key[i] = k, !.exptime[i] = exptime]
    BY DEF new_item
  <1>3. one \in Nat
    OBVIOUS
  <1> HIDE DEF one, e
  <1>4. /\ Shape(e) /\ e.free = c.free \ {i} /\ e.deleted = c.deleted \ {i}
        /\ e.refcount = [c.refcount EXCEPT ![i] = one] /\ e.key = [c.key EXCEPT ![i] = k]
        /\ e.exptime = [c.exptime EXCEPT ![i] = exptime]
        /\ e.linked = c.linked /\ e.table = c.table /\ e.time = c.time /\ e.lru = c.lru
        /\ e.data = c.data /\ e.cas_id = c.cas_id /\ e.last_cas = c.last_cas
        /\ e.halted = c.halted
    BY <1>2 DEF Tabled, Shape, Fields
  <1>5. \A j \in Items \ {i} : e.key[j] = c.key[j] /\ e.exptime[j] = c.exptime[j]
    BY <1>4 DEF Tabled, Typed
  <1>6. \A j \in c.linked : j \in Items \ {i}
    BY <1>1 DEF Tabled, Typed
  <1>7. Tabled(e)
    <2>1. e.key \in [Items -> Keys \cup {Null}]
      BY <1>4 DEF Tabled, Typed
    <2>2. e.refcount \in [Items -> Nat] /\ e.exptime \in [Items -> Int]
      BY <1>3, <1>4 DEF Tabled, Typed
    <2>3. Typed(e)
      BY <1>4, <2>1, <2>2 DEF Tabled, Typed
    <2>4. \A j \in Keys : e.table[j] # Null => e.table[j] \in e.linked /\ e.key[e.table[j]] = j
      BY <1>4, <1>5, <1>6 DEF Tabled
    <2>5. \A j \in e.deleted : e.exptime[j] # 0
      BY <1>4, <1>5 DEF Tabled, Typed
    <2> QED
      BY <1>4, <2>2, <2>3, <2>4, <2>5 DEF Tabled
  <1>8. \A j \in Keys : Leaves(c, e, j)
    <2> SUFFICES ASSUME NEW j \in Keys, e.table[j] # Null PROVE Leaves(c, e, j)
      BY DEF Leaves
    <2>1. e.table[j] \in Items \ {i} /\ c.table[j] = e.table[j]
      BY <1>4, <1>6 DEF Tabled
    <2> QED
      BY <1>4, <1>5, <2>1 DEF Leaves, flushed
  <1>9. Does(c, e, Null, i)
    BY <1>4, <1>7, <1>8 DEF Does, Tabled
  <1>10. e.key[i] = k
    BY <1>1, <1>4 DEF Tabled, Typed
  <1> QED
    BY <1>1, <1>4, <1>5, <1>9, <1>10 DEF e

\* The chunks do_item_alloc may return, and Null.
Spare(c) == {Null} \cup reclaim(c).free

\* What do_item_alloc returns: none, or a chunk that is not linked.
LEMMA AllocDoes ==
    ASSUME NEW c, Tabled(c), Trim(c), NEW k \in Keys \cup {Null}, NEW exptime \in Int,
           NEW room, NEW a \in do_item_alloc(c, k, exptime, room)
    PROVE  /\ Does(c, a.c, Null, a.it) /\ a.it \in Spare(c)
           /\ a.it = Null \/ (a.it \in Items /\ a.it \notin a.c.linked /\ a.c.key[a.it] = k)
  <1> DEFINE d == reclaim(c)
  <1>1. Does(c, d, Null, Null) /\ Trim(d) /\ Tabled(d)
    BY ReclaimDoes
  <1>2. Does(c, c, Null, Null) /\ Spare(c) = {Null} \cup d.free
    BY DoesNothing DEF Spare
  <1> HIDE DEF d
  <1>3. CASE a = [it |-> Null, c |-> c] \/ a = [it |-> Null, c |-> d]
    <2>1. a.it = Null /\ (a.c = c \/ a.c = d)
      BY <1>3
    <2> QED
      BY <1>1, <1>2, <2>1
  <1>4. ASSUME NEW i \in d.free, a = [it |-> i, c |-> new_item(d, i, k, exptime)]
        PROVE  /\ Does(c, a.c, Null, a.it) /\ a.it \in d.free
               /\ a.it \in Items /\ a.it \notin a.c.linked /\ a.c.key[a.it] = k
    <2>1. a.it = i /\ a.c = new_item(d, i, k, exptime)
      BY <1>4
    <2>2. Does(d, a.c, Null, i) /\ a.c.key[i] = k /\ i \in Items /\ i \notin a.c.linked
      BY <1>1, <1>4, <2>1, NewDoes
    <2>3. Does(c, a.c, Null, i)
      BY <1>1, <2>2, DoesThen
    <2> QED
      BY <2>1, <2>2, <2>3
  <1>5. \/ a = [it |-> Null, c |-> c] \/ a = [it |-> Null, c |-> d]
        \/ \E i \in d.free : a = [it |-> i, c |-> new_item(d, i, k, exptime)]
    BY DEF do_item_alloc, d
  <1> QED
    BY <1>2, <1>3, <1>4, <1>5

\* d is c with other data and another cas id of i.
Writes(c, d, i) ==
    /\ Shape(d) /\ \A f \in Fields \ {"data", "cas_id", "last_cas"} : d[f] = c[f]
    /\ d.data = [c.data EXCEPT ![i] = d.data[i]]
    /\ d.cas_id = [c.cas_id EXCEPT ![i] = d.cas_id[i]]

\* Data is written to an item that is not linked, or with a new cas id.
LEMMA WriteDoes ==
    ASSUME NEW c, Tabled(c), NEW i \in Items, NEW d, Writes(c, d, i),
           \/ i \notin c.linked /\ d.last_cas = c.last_cas
           \/ d.last_cas = c.last_cas + 1 /\ d.cas_id[i] = d.last_cas
    PROVE  Does(c, d, c.key[i], Null) /\ (i \notin c.linked => Does(c, d, Null, Null)) /\ d.key = c.key
  <1>1. /\ d.free = c.free /\ d.linked = c.linked /\ d.deleted = c.deleted
        /\ d.refcount = c.refcount /\ d.key = c.key /\ d.time = c.time /\ d.exptime = c.exptime
        /\ d.table = c.table /\ d.lru = c.lru /\ d.halted = c.halted /\ Shape(d)
    BY DEF Writes, Fields
  <1>2. d.last_cas \in Nat /\ d.last_cas >= c.last_cas
    BY DEF Tabled
  <1>3. Tabled(d)
    <2>1. d.data = [j \in Items |-> d.data[j]] /\ d.cas_id = [j \in Items |-> d.cas_id[j]]
      BY DEF Tabled, Writes
    <2> QED
      BY <1>1, <1>2, <2>1 DEF Tabled, Typed
  <1>4. \A j \in Items \ {i} : d.data[j] = c.data[j] /\ d.cas_id[j] = c.cas_id[j]
    BY DEF Tabled, Writes
  <1>5. ASSUME NEW k \in Keys
        PROVE  Leaves(c, d, k) \/ (k = c.key[i] /\ Fresh(c, d, k) /\ i \in c.linked)
    <2>1. CASE c.table[k] # i
      <3>1. c.table[k] # Null => c.table[k] \in Items \ {i}
        BY <2>1 DEF Tabled, Typed
      <3> QED
        BY <1>1, <1>4, <3>1 DEF Leaves, flushed
    <2>2. CASE c.table[k] = i
      <3>1. i \in c.linked /\ c.key[i] = k
        BY <2>2, ItemsAssumption DEF Tabled
      <3>2. d.last_cas = c.last_cas + 1 /\ d.cas_id[i] = d.last_cas /\ c.last_cas \in Nat
        BY <3>1 DEF Tabled
      <3>3. Fresh(c, d, k)
        BY <1>1, <2>2, <3>2 DEF Fresh
      <3> QED
        BY <3>1, <3>3
    <2> QED
      BY <2>1, <2>2
  <1> QED
    BY <1>1, <1>2, <1>3, <1>5 DEF Does

\* do_add_delta gives a new cas id with the new value.
LEMMA DeltaDoes ==
    ASSUME current_time \in Nat, NEW c, Tabled(c), Trim(c), NEW i \in Items, NEW cmd,
           NEW e \in do_add_delta(c, i, cmd)
    PROVE  \E z \in Spare(c) : Does(c, e, c.key[i], z)
  <1> DEFINE v == number(c.data[i])
             text == digits(result(v, cmd))
             pad == [n \in 1 .. Len(c.data[i]) - Len(text) |-> Blank]
             both == text \o pad
             next == c.last_cas + 1
             same == [c EXCEPT !.last_cas = @ + 1, !.cas_id[i] = c.last_cas + 1,
                               !.data[i] = text \o pad]
             new(a) == do_item_remove(do_item_replace(
                           [a.c EXCEPT !.data[a.it] = text], i, a.it), a.it)
             key == c.key[i]
             exptime == c.exptime[i]
             room == Len(text)
  <1>1. \/ e = c \/ e = same
        \/ \E a \in do_item_alloc(c, key, exptime, room) :
              e = IF a.it = Null THEN a.c ELSE new(a)
    BY DEF do_add_delta
  <1>2. Does(c, c, key, Null) /\ Shape(c) /\ key \in Keys \cup {Null} /\ exptime \in Int
    BY DoesNothing DEF Tabled, Typed
  <1>3. Does(c, same, key, Null)
    <2>1. same = [c EXCEPT !.last_cas = next, !.cas_id[i] = next, !.data[i] = both]
      BY <1>2 DEF Shape, Fields
    <2> DEFINE d == [c EXCEPT !.last_cas = next, !.cas_id[i] = next, !.data[i] = both]
    <2> HIDE DEF same, both
    <2>2. d.last_cas = c.last_cas + 1 /\ d.cas_id[i] = d.last_cas
      BY <1>2 DEF Tabled, Shape, Fields
    <2> HIDE DEF next
    <2>3. Writes(c, d, i)
      BY DEF Tabled, Writes, Shape, Fields
    <2> HIDE DEF d
    <2>4. Does(c, d, key, Null)
      BY <2>2, <2>3, WriteDoes
    <2> QED
      BY <2>1, <2>4 DEF d
  <1> HIDE DEF text, key, exptime, room, same
  <1>4. ASSUME NEW a \in do_item_alloc(c, key, exptime, room)
        PROVE  a.it \in Spare(c) /\ Does(c, IF a.it = Null THEN a.c ELSE new(a), key, a.it)
    <2> DEFINE j == a.it
               b == [a.c EXCEPT !.data[j] = text]
               d == do_item_replace(b, i, j)
    <2>1. /\ Does(c, a.c, Null, j) /\ j \in Spare(c)
          /\ j = Null \/ (j \in Items /\ j \notin a.c.linked /\ a.c.key[j] = key)
      BY <1>2, AllocDoes
    <2>2. Tabled(a.c)
      BY <2>1 DEF Does
    <2>3. CASE j = Null
      <3>1. Does(c, a.c, key, j)
        BY <1>2, <2>1, DoesThen
      <3> QED
        BY <2>1, <2>3, <3>1
    <2>4. CASE j # Null
      <3>1. new(a) = do_item_remove(d, j)
        OBVIOUS
      <3> HIDE DEF j
      <3>2. Writes(a.c, b, j) /\ b.last_cas = a.c.last_cas
        BY <2>1, <2>2, <2>4 DEF Tabled, Writes, Shape, Fields
      <3> HIDE DEF b
      <3>3. Does(a.c, b, Null, Null) /\ b.key[j] = key
        BY <2>1, <2>2, <2>4, <3>2, WriteDoes
      <3>4. Tabled(b)
        BY <3>3 DEF Does
      <3>5. Does(b, d, key, Null)
        BY <2>1, <2>4, <3>3, <3>4, ReplaceDoes
      <3> HIDE DEF d, new
      <3>6. Tabled(d)
        BY <3>5 DEF Does
      <3>7. Does(d, do_item_remove(d, j), Null, Null)
        BY <2>1, <2>4, <3>6, RemoveDoes
      <3>8. Does(a.c, d, key, Null)
        BY <2>2, <3>3, <3>5, DoesThen
      <3>9. Does(a.c, do_item_remove(d, j), key, Null)
        BY <2>2, <3>7, <3>8, DoesThen
      <3>10. Does(c, do_item_remove(d, j), key, j)
        BY <2>1, <3>9, DoesThen
      <3> QED
        BY <2>1, <2>4, <3>1, <3>10 DEF j
    <2> QED
      BY <2>3, <2>4
  <1> HIDE DEF new
  <1>5. Null \in Spare(c)
    BY DEF Spare
  <1> QED
    BY <1>1, <1>2, <1>3, <1>4, <1>5 DEF key

\* The reference of a lookup is given back.
LEMMA DropDoes ==
    ASSUME NEW c, Tabled(c), NEW k, NEW d, NEW z, Does(c, d, k, z), NEW it \in Items \cup {Null}
    PROVE  Does(c, Drop(d, it), k, z)
  <1>1. Tabled(d)
    BY DEF Does
  <1>2. it # Null => Does(d, do_item_remove(d, it), Null, Null)
    BY <1>1, RemoveDoes
  <1>3. it # Null => Does(c, do_item_remove(d, it), k, z)
    BY <1>2, DoesThen
  <1> QED
    BY <1>3 DEF Drop

\* append and prepend.
LEMMA AppendDoes ==
    ASSUME current_time \in Nat, NEW c, Tabled(c), Trim(c), NEW i \in Items,
           NEW k \in Keys, NEW exptime \in Int, NEW room, NEW text,
           NEW a \in do_item_alloc(c, k, exptime, room)
    PROVE  Does(c, IF a.it = Null THEN do_item_remove(a.c, i)
                   ELSE do_item_remove(do_item_remove(do_item_replace(
                            [a.c EXCEPT !.data[a.it] = text], i, a.it), i), a.it), k, a.it)
  <1> DEFINE j == a.it
             b == [a.c EXCEPT !.data[j] = text]
             d == do_item_replace(b, i, j)
             e == do_item_remove(d, i)
  <1>1. /\ Does(c, a.c, Null, j)
        /\ j = Null \/ (j \in Items /\ j \notin a.c.linked /\ a.c.key[j] = k)
    BY AllocDoes
  <1>2. Tabled(a.c)
    BY <1>1 DEF Does
  <1>3. CASE j = Null
    <2>1. Does(a.c, do_item_remove(a.c, i), Null, Null)
      BY <1>2, RemoveDoes
    <2>2. Does(c, do_item_remove(a.c, i), k, j)
      BY <1>1, <2>1, DoesThen
    <2> QED
      BY <1>3, <2>2
  <1>4. CASE j # Null
    <2> HIDE DEF j
    <2>1. Writes(a.c, b, j) /\ b.last_cas = a.c.last_cas
      BY <1>1, <1>2, <1>4 DEF Tabled, Writes, Shape, Fields
    <2> HIDE DEF b
    <2>2. Does(a.c, b, Null, Null) /\ b.key[j] = k
      BY <1>1, <1>2, <1>4, <2>1, WriteDoes
    <2>3. Tabled(b)
      BY <2>2 DEF Does
    <2>4. Does(b, d, k, Null)
      BY <1>1, <1>4, <2>2, <2>3, ReplaceDoes
    <2> HIDE DEF d
    <2>5. Does(c, b, Null, j)
      BY <1>1, <2>2, DoesThen
    <2>6. Does(c, d, k, j)
      BY <2>4, <2>5, DoesThen
    <2>7. Tabled(d)
      BY <2>4 DEF Does
    <2>8. Does(d, e, Null, Null)
      BY <2>7, RemoveDoes
    <2> HIDE DEF e
    <2>9. Tabled(e) /\ Does(c, e, k, j)
      <3>1. Tabled(e)
        BY <2>8 DEF Does
      <3> QED
        BY <2>6, <2>8, <3>1, DoesThen
    <2>10. Does(e, do_item_remove(e, j), Null, Null)
      BY <1>1, <1>4, <2>9, RemoveDoes
    <2>11. Does(c, do_item_remove(e, j), k, j)
      BY <2>9, <2>10, DoesThen
    <2> QED
      BY <1>4, <2>11 DEF e, d, b, j
  <1> QED
    BY <1>3, <1>4

\* do_store_item gives its item's key a value, or takes the old one.
LEMMA StoreDoes ==
    ASSUME current_time \in Nat, NEW c, Tabled(c), Trim(c), NEW i \in Items, c.key[i] \in Keys,
           NEW cmd, NEW e \in do_store_item(c, i, cmd)
    PROVE  \E new \in Spare(do_item_get_notedeleted(c, c.key[i]).c) : Does(c, e, c.key[i], new)
  <1> DEFINE k == c.key[i]
             locked == delete_locked(c, k)
             g == do_item_get_notedeleted(c, k)
             old == IF locked THEN do_item_get_nocheck(g.c, k) ELSE g
             text == joined(c, cmd, i, g.it)
             exptime == c.exptime[g.it]
             room == Len(text)
             new(a) == do_item_remove(do_item_remove(do_item_replace(
                           [a.c EXCEPT !.data[a.it] = text], g.it, a.it), g.it), a.it)
             x == do_item_remove(do_item_update(g.c, g.it), g.it)
             y == IF old.it # Null /\ c.cas_id[i] = old.c.cas_id[old.it]
                  THEN do_item_replace(old.c, old.it, i) ELSE old.c
             z == IF old.it # Null THEN do_item_replace(old.c, old.it, i)
                                   ELSE do_item_link(old.c, i)
             some(a) == IF a.it = Null THEN do_item_remove(a.c, g.it) ELSE new(a)
  <1> SUFFICES \E n \in Spare(g.c) : Does(c, e, k, n)
    OBVIOUS
  <1>1. \/ e = x /\ g.it # Null
        \/ e = g.c /\ g.it = Null
        \/ e = Drop(y, old.it)
        \/ /\ g.it # Null
           /\ \E a \in do_item_alloc(g.c, k, exptime, room) : e = some(a)
        \/ e = Drop(z, old.it)
    BY StoreCases DEF StoreWays
  <1>2. Finds(c, g, k) /\ (g.it # Null => Visible(c, k))
    BY GetDoes
  <1>3. locked => g.it = Null /\ g.c = c
    BY LockedGet
  <1> HIDE DEF g, text, exptime, room, new
  <1>4. Finds(c, old, k)
    <2>1. CASE ~locked
      BY <1>2, <2>1
    <2>2. CASE locked
      <3>1. Finds(c, do_item_get_nocheck(c, k), k)
        BY GetDoes
      <3>2. old = do_item_get_nocheck(c, k)
        BY <1>3, <2>2
      <3> HIDE DEF old, locked, k
      <3> QED
        BY <3>1, <3>2
    <2> QED
      BY <2>1, <2>2
  <1> HIDE DEF locked, old, k
  <1>5. k \in Keys
    BY DEF k
  <1>6. /\ Does(c, old.c, Null, Null) /\ old.c.key[i] \in {k, Null} /\ old.it \in Items \cup {Null}
        /\ Tabled(old.c)
    BY <1>4 DEF Finds, Does, k
  <1>7. ASSUME NEW d, \/ d = old.c \/ d = do_item_link(old.c, i)
                      \/ d = do_item_replace(old.c, old.it, i)
        PROVE  Does(c, Drop(d, old.it), k, Null)
    <2>1. Does(old.c, old.c, Null, Null)
      BY <1>6, DoesNothing
    <2>2. /\ Does(old.c, do_item_link(old.c, i), old.c.key[i], Null)
          /\ Does(old.c, do_item_replace(old.c, old.it, i), old.c.key[i], Null)
      BY <1>6, LinkDoes, ReplaceDoes
    <2>3. Does(c, d, k, Null)
      <3>1. CASE d = old.c
        BY <1>6, <2>1, <3>1, DoesThen
      <3>2. CASE d # old.c
        <4>1. Does(old.c, d, old.c.key[i], Null)
          BY <1>7, <2>2, <3>2
        <4> QED
          BY <1>6, <4>1, DoesThen
      <3> QED
        BY <3>1, <3>2
    <2> QED
      BY <1>6, <2>3, DropDoes
  <1>8. Null \in Spare(g.c)
    BY DEF Spare
  <1>9. CASE e = Drop(y, old.it)
    <2>1. y = old.c \/ y = do_item_replace(old.c, old.it, i)
      OBVIOUS
    <2> HIDE DEF y
    <2> QED
      BY <1>7, <1>8, <1>9, <2>1
  <1>10. CASE e = Drop(z, old.it)
    <2>1. z = do_item_link(old.c, i) \/ z = do_item_replace(old.c, old.it, i)
      OBVIOUS
    <2> HIDE DEF z
    <2> QED
      BY <1>7, <1>8, <1>10, <2>1
  <1>11. CASE e = g.c /\ g.it = Null
    <2>1. Does(g.c, g.c, Null, Null) /\ Does(c, g.c, Null, Null)
      BY <1>2, DoesNothing DEF Finds, Does
    <2> QED
      BY <1>8, <1>11, <2>1, DoesThen
  <1>12. CASE g.it # Null /\ (e = x \/ \E a \in do_item_alloc(g.c, k, exptime, room) : e = some(a))
    <2> DEFINE j == g.it
               b == g.c
    <2>1. j \in Items /\ j = c.table[k] /\ b = Hold(c, j) /\ Does(c, b, Null, Null) /\ Visible(c, k)
      BY <1>2, <1>12 DEF Finds
    <2>2. Tabled(b) /\ Trim(b) /\ b.time = c.time
      <3>1. Trim(Hold(c, j)) /\ \A f \in Fields \ {"refcount"} : Hold(c, j)[f] = c[f]
        BY <2>1, HoldDoes
      <3> QED
        BY <2>1, <3>1 DEF Does, Fields
    <2>3. ~flushed(b, j)
      BY <2>1, <2>2 DEF Visible, flushed
    <2>4. exptime \in Int
      BY <2>1 DEF Tabled, exptime
    <2> HIDE DEF j, b
    <2>5. CASE e = x
      <3> DEFINE d == do_item_update(b, j)
      <3>1. Does(b, d, Null, Null)
        BY <2>1, <2>2, <2>3, UpdateDoes
      <3>2. e = do_item_remove(d, j)
        BY <2>5 DEF b, j
      <3> HIDE DEF d
      <3>3. Tabled(d) /\ Does(c, d, k, Null)
        <4>1. Tabled(d)
          BY <3>1 DEF Does
        <4> QED
          BY <2>1, <3>1, <4>1, DoesThen
      <3>4. Does(d, do_item_remove(d, j), Null, Null)
        BY <2>1, <3>3, RemoveDoes
      <3> QED
        BY <1>8, <3>2, <3>3, <3>4, DoesThen DEF b
    <2>6. ASSUME NEW a \in do_item_alloc(b, k, exptime, room), e = some(a)
          PROVE  a.it \in Spare(b) /\ Does(c, e, k, a.it)
      <3>1. a.it \in Spare(b)
        BY <1>5, <2>2, <2>4, AllocDoes
      <3>2. Does(b, some(a), k, a.it)
        BY <1>5, <2>1, <2>2, <2>4, <2>6, AppendDoes DEF new, j
      <3> QED
        BY <2>1, <2>6, <3>1, <3>2, DoesThen
    <2> QED
      BY <1>12, <2>5, <2>6 DEF b
  <1> QED
    BY <1>1, <1>9, <1>10, <1>11, <1>12

\* A delete lock is respected by add, and what needs a value finds none.
LEMMA LockedStore ==
    ASSUME NEW c, NEW i, delete_locked(c, c.key[i]), NEW cmd \in Storage \ {"set", "cas"},
           NEW e \in do_store_item(c, i, cmd)
    PROVE  e = c
  <1> DEFINE k == c.key[i]
             locked == delete_locked(c, k)
             g == do_item_get_notedeleted(c, k)
  <1>1. g.it = Null /\ g.c = c
    BY LockedGet
  <1>2. refused(g, locked, cmd)
    BY <1>1 DEF refused, Storage
  <1>3. do_store_item(c, i, cmd) = {g.c}
    BY <1>1, <1>2 DEF do_store_item
  <1> QED
    BY <1>1, <1>3

\* The unlinks of a flush.
LEMMA FlushDoes ==
    ASSUME NEW c, Tabled(c), Trim(c)
    PROVE  Does(c, do_item_flush_expired(c), Null, Null)
  <1> DEFINE old == {n \in DOMAIN c.lru : c.time[c.lru[n]] < oldest_live}
             first == CHOOSE n \in old : \A m \in old : n <= m
             end == IF old = {} THEN Len(c.lru) ELSE first - 1
             f == CHOOSE f : f = [n \in 0 .. end |->
                      IF n = 0 THEN c ELSE do_item_unlink(f[n - 1], c.lru[n])]
  <1>1. CASE oldest_live = 0
    <2>1. do_item_flush_expired(c) = c
      BY <1>1 DEF do_item_flush_expired
    <2> QED
      BY <2>1, DoesNothing
  <1>2. CASE oldest_live # 0
    <2>1. do_item_flush_expired(c) = f[end]
      BY <1>2 DEF do_item_flush_expired
    <2>2. Len(c.lru) \in Nat /\ DOMAIN c.lru = 1 .. Len(c.lru)
      BY DEF Trim, Lists
    <2>3. end \in Nat
      <3>1. CASE old = {}
        BY <2>2, <3>1
      <3>2. CASE old # {}
        <4>1. old \subseteq Nat
          BY <2>2
        <4>2. first \in old
          <5> HIDE DEF old
          <5>1. \E n \in old : \A m \in old : n <= m
            BY <3>2, <4>1, Smallest
          <5> QED
            BY <5>1
        <4>3. first \in 1 .. Len(c.lru)
          BY <2>2, <4>2
        <4> HIDE DEF first, old
        <4> QED
          BY <2>2, <3>2, <4>3
      <3> QED
        BY <3>1, <3>2
    <2> HIDE DEF end
    <2>4. Flushing(f, c, end)
      BY <2>3, FlushingExists DEF Flushing
    <2> HIDE DEF f
    <2> DEFINE P(n) == Does(c, f[n], Null, Null)
               T == {n \in 0 .. end : ~P(n)}
    <2>5. P(0)
      <3>1. f[0] = c
        BY <2>3, <2>4 DEF Flushing
      <3> QED
        BY <3>1, DoesNothing
    <2>6. P(end)
      <3> SUFFICES ASSUME T # {} PROVE FALSE
        BY <2>3
      <3>1. PICK x \in T : \A y \in T : x <= y
        <4>1. T \subseteq Nat
          OBVIOUS
        <4> HIDE DEF T
        <4> QED
          BY <4>1, Smallest
      <3>2. x \in 0 .. end /\ ~P(x) /\ \A y \in 0 .. end : ~P(y) => x <= y
        BY <3>1
      <3> HIDE DEF P, T
      <3>3. x \in 1 .. end /\ x - 1 \in 0 .. end
        BY <2>3, <2>5, <3>2
      <3>4. P(x - 1)
        BY <3>2, <3>3
      <3>5. f[x] = do_item_unlink(f[x - 1], c.lru[x])
        BY <2>4, <3>3 DEF Flushing
      <3>6. Tabled(f[x - 1]) /\ Does(c, f[x - 1], Null, Null)
        BY <3>4 DEF P, Does
      <3>7. Does(f[x - 1], f[x], Null, Null)
        BY <3>5, <3>6, UnlinkDoes
      <3>8. P(x)
        BY <3>6, <3>7, DoesThen DEF P
      <3> QED
        BY <3>2, <3>8
    <2> QED
      BY <2>1, <2>6
  <1> QED
    BY <1>1, <1>2

\* One entry of the delete queue.
LEMMA EntryDoes ==
    ASSUME NEW r, Tabled(r.c), r.kept \in Seq(Items), NEW i \in Items
    PROVE  Does(r.c, run_entry(r, i).c, Null, Null) /\ run_entry(r, i).kept \in Seq(Items)
  <1> DEFINE c == r.c
             marked == i \in c.deleted
             a == Expect(c, marked, "item_delete_lock_over")
             counted == c.refcount[i] > 0
             b == Expect(a, counted, "run_deferred_deletes")
             d == [b EXCEPT !.deleted = @ \ {i}]
             u == do_item_unlink(d, i)
             e == do_item_remove(u, i)
             over == item_delete_lock_over(c, i)
             q == run_entry(r, i)
  <1>1. /\ q.c = IF over THEN e ELSE a
        /\ q.kept = IF over THEN r.kept ELSE Append(r.kept, i)
    BY DEF run_entry
  <1>2. Does(c, a, Null, Null) /\ Tabled(a)
    <2>1. "item_delete_lock_over" # "no"
      OBVIOUS
    <2> HIDE DEF marked, c
    <2>2. Tabled(c)
      BY DEF c
    <2>3. Does(c, a, Null, Null)
      BY <2>1, <2>2, ExpectDoes
    <2> QED
      BY <2>3 DEF Does
  <1>3. Tabled(c) /\ Append(r.kept, i) \in Seq(Items)
    OBVIOUS
  <1> HIDE DEF a, counted
  <1>4. Does(a, b, Null, Null) /\ Tabled(b)
    <2>1. "run_deferred_deletes" # "no"
      OBVIOUS
    <2>2. Does(a, b, Null, Null)
      BY <1>2, <2>1, ExpectDoes
    <2> QED
      BY <2>2 DEF Does
  <1> HIDE DEF b
  <1>5. Does(b, u, Null, Null)
    <2>1. /\ Shape(d) /\ d.deleted = b.deleted \ {i} /\ d.time = b.time
          /\ \A f \in Fields \ {"deleted"} : d[f] = b[f]
      BY <1>4 DEF Tabled, Shape, Fields
    <2> HIDE DEF d
    <2>2. /\ d.free = b.free /\ d.linked = b.linked
          /\ d.refcount = b.refcount /\ d.key = b.key /\ d.data = b.data /\ d.exptime = b.exptime
          /\ d.cas_id = b.cas_id /\ d.table = b.table /\ d.last_cas = b.last_cas
      BY <2>1 DEF Fields
    <2>3. Tabled(d)
      BY <1>4, <2>1, <2>2 DEF Tabled, Typed
    <2>4. Does(d, u, Null, Null) /\ i \notin u.linked
      BY <2>3, UnlinkDoes
    <2> HIDE DEF u
    <2>5. /\ Tabled(u) /\ u.last_cas >= d.last_cas /\ \A k \in Keys : Leaves(d, u, k)
          /\ \A j \in Items : u.key[j] \in {d.key[j], Null}
      BY <2>4, ItemsAssumption DEF Does
    <2>6. \A k \in Keys : Leaves(b, u, k)
      <3> SUFFICES ASSUME NEW k \in Keys, u.table[k] # Null PROVE Leaves(b, u, k)
        BY DEF Leaves
      <3>1. u.table[k] # i
        BY <2>4, <2>5 DEF Tabled
      <3> QED
        BY <2>1, <2>2, <2>5, <3>1 DEF Leaves, flushed
    <2> QED
      BY <2>2, <2>5, <2>6 DEF Does
  <1> HIDE DEF u
  <1>6. Does(u, e, Null, Null)
    <2>1. Tabled(u)
      BY <1>5 DEF Does
    <2> QED
      BY <2>1, RemoveDoes
  <1> HIDE DEF e, q, over
  <1>7. Does(c, e, Null, Null)
    <2>1. Does(c, b, Null, Null)
      BY <1>2, <1>3, <1>4, DoesThen
    <2>2. Does(c, u, Null, Null)
      BY <1>3, <1>5, <2>1, DoesThen
    <2> QED
      BY <1>3, <1>6, <2>2, DoesThen
  <1> QED
    BY <1>1, <1>2, <1>3, <1>7 DEF q, c

\* The whole queue.
LEMMA TimerDoes ==
    ASSUME todelete \in Seq(Items), Tabled(cache), NEW r \in do_run_deferred_deletes
    PROVE  Does(cache, r.c, Null, Null)
  <1> DEFINE l == Len(todelete)
             f == CHOOSE f : f = [n \in 0 .. l |->
                      IF n = 0 THEN {[c |-> cache, kept |-> <<>>]}
                      ELSE {run_entry(q, todelete[n]) : q \in f[n - 1]}]
             P(n) == \A q \in f[n] : Does(cache, q.c, Null, Null) /\ q.kept \in Seq(Items)
             T == {n \in 0 .. l : ~P(n)}
  <1>1. r \in f[l]
    BY DEF do_run_deferred_deletes
  <1>2. l \in Nat /\ \A n \in 1 .. l : todelete[n] \in Items
    OBVIOUS
  <1>3. Timing(f, l)
    <2>1. \E g : Timing(g, l)
      <3> HIDE DEF l
      <3> QED
        BY <1>2, TimingExists
    <2> QED
      BY <2>1 DEF Timing
  <1> HIDE DEF f
  <1>4. /\ f[0] = {[c |-> cache, kept |-> <<>>]}
        /\ \A n \in 1 .. l : f[n] = {run_entry(q, todelete[n]) : q \in f[n - 1]}
    <2> DEFINE step(s, i) == {run_entry(q, todelete[i]) : q \in s}
               start == {[c |-> cache, kept |-> <<>>]}
    <2> HIDE DEF l
    <2>1. f = [i \in 0 .. l |-> IF i = 0 THEN start ELSE step(f[i - 1], i)]
      BY <1>3 DEF Timing
    <2> HIDE DEF step, start
    <2>2. f[0] = start /\ \A n \in 1 .. l : f[n] = step(f[n - 1], n)
      BY <1>2, <2>1
    <2> QED
      BY <2>2 DEF step, start
  <1>5. P(0)
    <2> TAKE q \in f[0]
    <2>1. q.c = cache /\ q.kept = <<>>
      BY <1>4
    <2> QED
      BY <2>1, DoesNothing
  <1>6. P(l)
    <2> SUFFICES ASSUME T # {} PROVE FALSE
      BY <1>2
    <2>1. PICK x \in T : \A y \in T : x <= y
      <3>1. T \subseteq Nat
        OBVIOUS
      <3> HIDE DEF T
      <3> QED
        BY <3>1, Smallest
    <2>2. x \in 0 .. l /\ ~P(x) /\ \A y \in 0 .. l : ~P(y) => x <= y
      BY <2>1
    <2> HIDE DEF P, T
    <2>3. x \in 1 .. l /\ x - 1 \in 0 .. l
      BY <1>2, <1>5, <2>2
    <2>4. P(x - 1)
      BY <2>2, <2>3
    <2>5. ASSUME NEW q \in f[x - 1]
          PROVE  LET n == run_entry(q, todelete[x])
                 IN Does(cache, n.c, Null, Null) /\ n.kept \in Seq(Items)
      <3> DEFINE i == todelete[x]
                 n == run_entry(q, i)
      <3>1. Does(cache, q.c, Null, Null) /\ q.kept \in Seq(Items) /\ i \in Items
        BY <1>2, <2>3, <2>4 DEF P
      <3> HIDE DEF i
      <3>2. Tabled(q.c)
        BY <3>1 DEF Does
      <3>3. Does(q.c, n.c, Null, Null) /\ n.kept \in Seq(Items)
        BY <3>1, <3>2, EntryDoes
      <3> HIDE DEF n
      <3>4. Does(cache, n.c, Null, Null)
        BY <3>1, <3>3, DoesThen
      <3> QED
        BY <3>3, <3>4 DEF n, i
    <2>6. P(x)
      BY <1>4, <2>3, <2>5 DEF P
    <2> QED
      BY <2>2, <2>6
  <1> QED
    BY <1>1, <1>6

----------------------------------------------------------------------------
(* What the steps of the commands do to the cache *)

\* No command is left with this chunk: it is not one, or has no references.
Unheld(new) == new \in Items => cache.refcount[new] = 0

\* What do_item_alloc returns had no references.
LEMMA SpareUnheld ==
    ASSUME IInv, NoneOld, cache.halted = "no", NEW new
    PROVE  /\ new \in Spare(cache) => Unheld(new)
           /\ \A k \in Keys :
                 new \in Spare(do_item_get_notedeleted(cache, k).c) => Unheld(new)
  <1>1. /\ Fine(cache) /\ current_time \in Nat /\ Null \notin Items
        /\ cache.refcount \in [Items -> Nat]
    <2>1. Fine(cache)
      BY Sounds
    <2> QED
      BY <2>1, ItemsAssumption DEF IInv, Typed
  <1>2. ASSUME NEW c, Fine(c), c.halted = "no", new \in Spare(c), new \in Items
        PROVE  c.refcount[new] = 0
    <2>1. Goes(c, reclaim(c), c.refcount) /\ reclaim(c).halted = "no"
      BY <1>1, <1>2, Reclaims
    <2>2. new \in reclaim(c).free
      BY <1>1, <1>2 DEF Spare
    <2> QED
      BY <1>2, <2>1, <2>2 DEF Goes, Sound, FreeBut
  <1>3. new \in Spare(cache) => Unheld(new)
    BY <1>1, <1>2 DEF Unheld
  <1>4. ASSUME NEW k \in Keys, new \in Spare(do_item_get_notedeleted(cache, k).c), new \in Items
        PROVE  cache.refcount[new] = 0
    <2> DEFINE g == do_item_get_notedeleted(cache, k)
    <2>1. Got(cache, g) /\ g.c.halted = "no"
      BY <1>1, GetGoes
    <2> HIDE DEF g
    <2>2. Fine(g.c)
      BY <2>1 DEF Got, Goes, Fine
    <2>3. g.c.refcount[new] = 0
      BY <1>2, <1>4, <2>1, <2>2 DEF g
    <2>4. g.c.refcount[new] = cache.refcount[new] \/ g.c.refcount[new] = cache.refcount[new] + 1
      BY <1>1, <1>4, <2>1 DEF Got, Goes, More
    <2> QED
      BY <1>1, <1>4, <2>3, <2>4
  <1> QED
    BY <1>3, <1>4 DEF Unheld

\* What the steps start from.
LEMMA Ready ==
    ASSUME IInv, NoneOld, cache.halted = "no", NEW s \in Conns
    PROVE  /\ Trim(cache)
           /\ conn[s].at \in Holding =>
                 /\ conn[s].it \in Items /\ conn[s].it \notin cache.free
                 /\ cache.key[conn[s].it] \in Keys
  <1>1. Fine(cache) /\ Sound(cache)
    BY Facts
  <1>2. conn[s].at \in Holding =>
            conn[s].it \in Items /\ cache.refcount[conn[s].it] # 0
    BY Facts
  <1>3. conn[s].at \in Holding =>
            conn[s].it \notin cache.free /\ cache.key[conn[s].it] \in Keys
    BY <1>1, <1>2, HeldKey
  <1> QED
    BY <1>1, <1>2, <1>3 DEF Sound, Linked, Trim

\* While the clock stands: a step that may give h a value and change the key of new.
Acts(h, new) == UNCHANGED clock /\ Does(cache, cache', h, new) /\ Unheld(new)

\* A lookup, which may take out what is not visible any more.
LEMMA LookupActs ==
    ASSUME Tabled(cache), UNCHANGED clock, NEW s, NEW cmd, NEW k \in Keys, NEW next,
           Lookup(s, cmd, k, next)
    PROVE  Acts(Null, Null)
  <1>1. Does(cache, do_item_get_notedeleted(cache, k).c, Null, Null)
    BY GetDoes DEF Finds
  <1>2. cache' = do_item_get_notedeleted(cache, k).c
    BY DEF Lookup, Cached
  <1> QED
    BY <1>1, <1>2, ItemsAssumption DEF Acts, Unheld

\* The steps that begin with one.
LEMMA AskActs ==
    ASSUME IInv, Tabled(cache), NEW s \in Conns,
           \/ alloc_failed(s)
           \/ \E k \in Keys :
                 \/ process_get_command(s, k) \/ process_delete_command(s, k)
                 \/ \E cmd \in Arithmetic : process_arithmetic_command(s, cmd, k)
    PROVE  Acts(Null, Null)
  <1>1. UNCHANGED clock
    BY DEF alloc_failed, process_get_command, process_delete_command, process_arithmetic_command
  <1>2. CASE alloc_failed(s)
    <2>1. conn[s].at = "alloc failed" /\ Lookup(s, conn[s].cmd, conn[s].key, "unlink")
      BY <1>2 DEF alloc_failed, At
    <2>2. conn[s].key \in Keys
      BY <2>1 DEF IInv, ConnOK
    <2> QED
      BY <1>1, <2>1, <2>2, LookupActs
  <1>3. ASSUME NEW k \in Keys,
                 \/ process_get_command(s, k) \/ process_delete_command(s, k)
                 \/ \E cmd \in Arithmetic : process_arithmetic_command(s, cmd, k)
        PROVE  Acts(Null, Null)
    <2>1. \E cmd, next : Lookup(s, cmd, k, next)
      BY <1>3 DEF process_get_command, process_delete_command, process_arithmetic_command
    <2> QED
      BY <1>1, <2>1, LookupActs
  <1> QED
    BY <1>2, <1>3

\* item_unlink and item_remove.
LEMMA EndActs ==
    ASSUME IInv, NoneOld, Tabled(cache), NEW s \in Conns, item_unlink(s) \/ item_remove(s)
    PROVE  Acts(Null, Null)
  <1> DEFINE i == conn[s].it
  <1>1. /\ cache.halted = "no" /\ UNCHANGED clock
        /\ conn[s].at \in {"unlink", "remove", "update"}
        /\ cache' \in {do_item_unlink(cache, i), do_item_remove(cache, i)}
    BY DEF item_unlink, item_remove, At, Cached
  <1>2. i \in Items
    BY <1>1, Ready DEF Holding
  <1> HIDE DEF i
  <1> QED
    BY <1>1, <1>2, UnlinkDoes, RemoveDoes, ItemsAssumption DEF Acts, Unheld

\* A storage command gets an item that nobody sees yet.
LEMMA UpdateActs ==
    ASSUME IInv, NoneOld, Tabled(cache), NEW s \in Conns, NEW k \in Keys,
           NEW cmd, NEW v, NEW exptime \in Int, NEW id \in 0 .. cache.last_cas,
           process_update_command(s, cmd, k, v, exptime, id)
    PROVE  /\ \E new : Acts(Null, new)
           /\ \/ \E i \in Items : Goto(s, "nread", cmd, k, i) /\ cache'.key[i] = k
              \/ Goto(s, "alloc failed", cmd, k, Null)
              \/ Done(s)
  <1> DEFINE t == realtime(exptime)
             text == digits(v)
             room == Len(text)
  <1>1. /\ cache.halted = "no" /\ UNCHANGED clock
        /\ \E a \in do_item_alloc(cache, k, t, room) :
              \/ /\ a.it # Null
                 /\ cache' = [a.c EXCEPT !.data[a.it] = text, !.cas_id[a.it] = id]
                 /\ Goto(s, "nread", cmd, k, a.it)
              \/ /\ a.it = Null /\ cache' = a.c
                 /\ Goto(s, "alloc failed", cmd, k, Null) \/ Done(s)
    BY DEF process_update_command, Asks, At, Cached
  <1>2. Trim(cache) /\ t \in Int /\ k \in Keys \cup {Null}
    <2>1. t \in Int
      BY DEF IInv, realtime
    <2>2. cache.halted = "no"
      BY <1>1
    <2> HIDE DEF t
    <2> QED
      BY <2>1, <2>2, Ready
  <1> HIDE DEF t, text, room
  <1>3. PICK a \in do_item_alloc(cache, k, t, room) :
              \/ /\ a.it # Null
                 /\ cache' = [a.c EXCEPT !.data[a.it] = text, !.cas_id[a.it] = id]
                 /\ Goto(s, "nread", cmd, k, a.it)
              \/ /\ a.it = Null /\ cache' = a.c
                 /\ Goto(s, "alloc failed", cmd, k, Null) \/ Done(s)
    BY <1>1
  <1>4. /\ Does(cache, a.c, Null, a.it) /\ a.it \in Spare(cache)
        /\ a.it = Null \/ (a.it \in Items /\ a.it \notin a.c.linked /\ a.c.key[a.it] = k)
    BY <1>2, AllocDoes
  <1>5. Does(cache, cache', Null, a.it) /\ (a.it # Null => cache'.key[a.it] = k)
    <2>1. CASE a.it = Null
      BY <1>3, <1>4, <2>1
    <2>2. CASE a.it # Null
      <3> DEFINE i == a.it
                 d == [a.c EXCEPT !.data[i] = text, !.cas_id[i] = id]
      <3>1. Tabled(a.c) /\ Shape(a.c) /\ i \in Items /\ i \notin a.c.linked /\ a.c.key[i] = k
        BY <1>4, <2>2 DEF Does, Tabled
      <3>2. cache' = d
        BY <1>3, <2>2
      <3> HIDE DEF i
      <3>3. /\ Shape(d) /\ d.data = [a.c.data EXCEPT ![i] = text]
            /\ d.cas_id = [a.c.cas_id EXCEPT ![i] = id]
            /\ \A f \in Fields \ {"data", "cas_id"} : d[f] = a.c[f]
        BY <3>1 DEF Shape, Fields
      <3> HIDE DEF d
      <3>4. Writes(a.c, d, i) /\ d.last_cas = a.c.last_cas
        BY <3>1, <3>3 DEF Writes, Tabled, Fields
      <3>5. Does(a.c, d, Null, Null) /\ d.key = a.c.key
        BY <3>1, <3>4, WriteDoes
      <3>6. Does(cache, d, Null, a.it)
        BY <1>4, <3>5, DoesThen
      <3> QED
        BY <2>2, <3>1, <3>2, <3>5, <3>6 DEF i
    <2> QED
      BY <2>1, <2>2
  <1>6. Unheld(a.it)
    BY <1>1, <1>4, SpareUnheld
  <1>7. \E new : Acts(Null, new)
    BY <1>1, <1>5, <1>6 DEF Acts
  <1> QED
    BY <1>3, <1>4, <1>5, <1>7

\* The item the connection has a value for.
Written(s) == cache.key[conn[s].it]

\* The data is stored under the item's key; incr and decr write a number under it.
LEMMA WriteActs ==
    ASSUME IInv, NoneOld, Tabled(cache), NEW s \in Conns, complete_nread(s) \/ add_delta(s)
    PROVE  \E new : Acts(Written(s), new)
  <1> DEFINE i == conn[s].it
             k == cache.key[i]
             g == do_item_get_notedeleted(cache, k)
  <1>1. /\ cache.halted = "no" /\ UNCHANGED clock
        /\ conn[s].at \in {"nread", "delta"}
        /\ \/ cache' \in do_store_item(cache, i, conn[s].cmd)
           \/ cache' = cache
           \/ cache' \in do_add_delta(cache, i, conn[s].cmd)
    BY DEF complete_nread, add_delta, At, Cached
  <1>2. i \in Items /\ k \in Keys /\ Trim(cache) /\ current_time \in Nat
    BY <1>1, Ready DEF Holding, IInv
  <1>3. Unheld(Null) /\ \A new \in Spare(cache) \cup Spare(g.c) : Unheld(new)
    BY <1>1, <1>2, SpareUnheld, ItemsAssumption DEF Unheld
  <1>4. \E new \in {Null} \cup Spare(cache) \cup Spare(g.c) : Does(cache, cache', k, new)
    <2>1. CASE cache' \in do_store_item(cache, i, conn[s].cmd)
      <3> HIDE DEF i
      <3>1. \E new \in Spare(g.c) : Does(cache, cache', k, new)
        BY <1>2, <2>1, StoreDoes
      <3> QED
        BY <3>1
    <2>2. CASE cache' = cache
      <3>1. Does(cache, cache', k, Null)
        BY <2>2, DoesNothing
      <3> QED
        BY <3>1
    <2>3. CASE cache' \in do_add_delta(cache, i, conn[s].cmd)
      <3> HIDE DEF i
      <3>1. \E new \in Spare(cache) : Does(cache, cache', k, new)
        BY <1>2, <2>3, DeltaDoes
      <3> QED
        BY <3>1
    <2> QED
      BY <1>1, <2>1, <2>2, <2>3
  <1> HIDE DEF g
  <1> QED
    BY <1>1, <1>3, <1>4 DEF Acts, Written

\* The delete timer, and the walk of flush_all.
LEMMA SweepActs ==
    ASSUME IInv, NoneOld, Tabled(cache), delete_handler \/ \E s \in Conns : item_flush_expired(s)
    PROVE  Acts(Null, Null)
  <1>1. CASE delete_handler
    <2>1. UNCHANGED clock /\ \E r \in do_run_deferred_deletes : cache' = r.c
      BY <1>1 DEF delete_handler, Cached
    <2>2. Does(cache, cache', Null, Null)
      BY <2>1, TimerDoes DEF IInv
    <2> QED
      BY <2>1, <2>2, ItemsAssumption DEF Acts, Unheld
  <1>2. CASE \E s \in Conns : item_flush_expired(s)
    <2>1. /\ cache.halted = "no" /\ cache' = do_item_flush_expired(cache) /\ UNCHANGED clock
          /\ \E s \in Conns : TRUE
      BY <1>2 DEF item_flush_expired, At
    <2>2. Trim(cache)
      BY <2>1, Ready
    <2>3. Does(cache, cache', Null, Null)
      BY <2>1, <2>2, FlushDoes
    <2> QED
      BY <2>1, <2>3, ItemsAssumption DEF Acts, Unheld
  <1> QED
    BY <1>1, <1>2

\* A deferred delete: the item is locked, or the server stops.
LEMMA DeferActs ==
    ASSUME IInv, NoneOld, Tabled(cache), NEW s \in Conns, NEW delay \in Nat \ {0},
           defer_delete(s, delay)
    PROVE  \/ Acts(Null, Null)
           \/ /\ UNCHANGED clock /\ Tabled(cache')
              /\ \E i \in Items :
                    /\ cache'.exptime[i] > current_time /\ cache'.deleted = cache.deleted \cup {i}
                    /\ \A j \in Items \ {i} : cache'.exptime[j] = cache.exptime[j]
              /\ \A f \in Fields \ {"exptime", "deleted"} : cache'[f] = cache[f]
  <1> DEFINE i == conn[s].it
             t == realtime(delay)
             name == "cache_lock"
  <1>1. /\ cache.halted = "no" /\ conn[s].at = "defer" /\ UNCHANGED clock
        /\ \/ cache' = [cache EXCEPT !.exptime[i] = t, !.deleted = @ \cup {i}]
           \/ cache' = [cache EXCEPT !.halted = name]
    BY DEF defer_delete, At, Cached
  <1>2. i \in Items
    BY <1>1, Ready DEF Holding
  <1>3. Shape(cache) /\ cache.refcount \in [Items -> Nat]
    BY DEF Tabled, Typed
  <1>4. t \in Nat /\ t > current_time /\ t # 0
    BY DEF IInv, realtime
  <1> HIDE DEF i, t, name
  <1>5. CASE cache' = [cache EXCEPT !.halted = name]
    <2> DEFINE d == [cache EXCEPT !.halted = name]
    <2>1. Shape(d) /\ \A f \in Fields \ {"halted"} : d[f] = cache[f]
      BY <1>3 DEF Shape, Fields, name
    <2> HIDE DEF d
    <2>2. d.refcount \in [Items -> Nat] /\ \A f \in Fields \ Aside : d[f] = cache[f]
      BY <1>3, <2>1 DEF Fields, Aside
    <2>3. Does(cache, d, Null, Null)
      BY <2>1, <2>2, DoesAside
    <2> QED
      BY <1>1, <1>5, <2>3, ItemsAssumption DEF d, Acts, Unheld
  <1>6. CASE cache' = [cache EXCEPT !.exptime[i] = t, !.deleted = @ \cup {i}]
    <2> DEFINE d == [cache EXCEPT !.exptime[i] = t, !.deleted = @ \cup {i}]
    <2>1. /\ Shape(d) /\ d.exptime = [cache.exptime EXCEPT ![i] = t]
          /\ d.deleted = cache.deleted \cup {i}
          /\ \A f \in Fields \ {"exptime", "deleted"} : d[f] = cache[f]
      BY <1>3 DEF Shape, Fields
    <2> HIDE DEF d
    <2>2. /\ d.free = cache.free /\ d.linked = cache.linked /\ d.refcount = cache.refcount
          /\ d.key = cache.key /\ d.data = cache.data /\ d.time = cache.time
          /\ d.cas_id = cache.cas_id /\ d.table = cache.table /\ d.lru = cache.lru
          /\ d.last_cas = cache.last_cas
      BY <2>1 DEF Fields
    <2>3. \A j \in Items : d.exptime[j] = IF j = i THEN t ELSE cache.exptime[j]
      BY <1>2, <2>1 DEF Tabled
    <2>4. Tabled(d)
      <3>1. d.exptime \in [Items -> Int]
        BY <1>2, <1>4, <2>1 DEF Tabled
      <3>2. \A j \in d.deleted : j \in Items /\ d.exptime[j] # 0
        BY <1>2, <1>4, <2>1, <2>3 DEF Tabled, Typed
      <3> QED
        BY <2>1, <2>2, <3>1, <3>2 DEF Tabled, Typed
    <2>5. cache' = d
      BY <1>6 DEF d
    <2> QED
      BY <1>1, <1>2, <1>4, <2>1, <2>3, <2>4, <2>5
  <1> QED
    BY <1>1, <1>5, <1>6

\* get: the item moves to the head; a flushed one may become visible.
LEMMA MoveActs ==
    ASSUME IInv, NoneOld, Tabled(cache), NEW s \in Conns, item_update(s)
    PROVE  /\ UNCHANGED clock /\ Tabled(cache')
           /\ cache'.table = cache.table /\ cache'.key = cache.key
           /\ oldest_live = 0 => Acts(Null, Null)
  <1> DEFINE i == conn[s].it
             e == do_item_update(cache, i)
  <1>1. /\ cache.halted = "no" /\ UNCHANGED clock /\ conn[s].at = "update" /\ cache' = e
    BY DEF item_update, At, Cached
  <1>2. i \in Items /\ current_time \in Nat
    BY <1>1, Ready DEF Holding, IInv
  <1>3. oldest_live = 0 => ~flushed(cache, i)
    BY DEF flushed
  <1> HIDE DEF i
  <1>4. /\ Tabled(e) /\ e.table = cache.table /\ e.key = cache.key
        /\ ~flushed(cache, i) => Does(cache, e, Null, Null)
    BY <1>2, UpdateDoes
  <1> QED
    BY <1>1, <1>3, <1>4, ItemsAssumption DEF Acts, Unheld

----------------------------------------------------------------------------
(* ... and what they do to the connections *)

\* No connection comes to this place.
Keeps(at) == \A t \in Conns : conn'[t].at = at => conn'[t] = conn[t]

\* How a connection goes on.
LEMMA KeepsOn ==
    ASSUME IInv, NEW s \in Conns, NEW at
    PROVE  /\ at # "idle" /\ Done(s) => Keeps(at)
           /\ \A to : at # to /\ Step(s, to) => Keeps(at)
           /\ \A to, cmd, k, i : at # to /\ Goto(s, to, cmd, k, i) => Keeps(at)
  <1>1. conn = [t \in Conns |-> conn[t]] /\ ConnOK(conn[s])
    BY DEF IInv
  <1>2. ASSUME NEW p, conn' = [conn EXCEPT ![s] = p], at # p.at PROVE Keeps(at)
    <2>1. \A t \in Conns : conn'[t] = IF t = s THEN p ELSE conn[t]
      BY <1>1, <1>2
    <2> QED
      BY <1>2, <2>1 DEF Keeps
  <1>3. at # "idle" /\ Done(s) => Keeps(at)
    <2> DEFINE p == Idle
    <2>1. p.at = "idle"
      BY DEF Idle
    <2>2. Done(s) => conn' = [conn EXCEPT ![s] = p]
      BY DEF Done
    <2> HIDE DEF p
    <2> QED
      BY <1>2, <2>1, <2>2
  <1>4. ASSUME NEW to, at # to, Step(s, to) PROVE Keeps(at)
    <2> DEFINE p == [conn[s] EXCEPT !.at = to]
    <2>1. conn' = [conn EXCEPT ![s] = p]
      BY <1>1, <1>4 DEF Step
    <2>2. p.at = to
      BY <1>1 DEF ConnOK
    <2> HIDE DEF p
    <2> QED
      BY <1>2, <1>4, <2>1, <2>2
  <1>5. ASSUME NEW to, NEW cmd, NEW k, NEW i, at # to, Goto(s, to, cmd, k, i) PROVE Keeps(at)
    <2> DEFINE p == [at |-> to, cmd |-> cmd, key |-> k, it |-> i, arg |-> 0]
    <2>1. conn' = [conn EXCEPT ![s] = p]
      BY <1>5 DEF Goto
    <2>2. p.at = to
      OBVIOUS
    <2> HIDE DEF p
    <2> QED
      BY <1>2, <1>5, <2>1, <2>2
  <1> QED
    BY <1>3, <1>4, <1>5

\* A lookup, which ends the command or leads it on.
LEMMA LookupKeeps ==
    ASSUME IInv, NEW s \in Conns, NEW at, at # "idle", NEW to, at # to,
           NEW cmd, NEW k, Lookup(s, cmd, k, to)
    PROVE  Keeps(at)
  <1>1. Done(s) \/ \E i : Goto(s, to, cmd, k, i)
    BY DEF Lookup
  <1> QED
    BY <1>1, KeepsOn

\* The steps that lead to places of no interest here.
LEMMA MostKeep ==
    ASSUME IInv, NEW at \in {"update", "nread", "delta"},
           \/ \E s \in Conns :
                 \/ item_unlink(s) \/ item_remove(s) \/ item_update(s)
                 \/ alloc_failed(s) \/ complete_nread(s) \/ add_delta(s)
                 \/ item_flush_expired(s)
                 \/ \E k \in Keys : process_delete_command(s, k)
                 \/ \E d : defer_delete(s, d) \/ flush_all(s, d)
           \/ delete_handler \/ clock_handler \/ Halted \/ UNCHANGED vars
    PROVE  Keeps(at)
  <1>1. at # "idle" /\ at # "remove" /\ at # "unlink" /\ at # "defer" /\ at # "flush"
    OBVIOUS
  <1>2. CASE conn' = conn
    BY <1>2 DEF Keeps
  <1>3. ASSUME NEW s \in Conns,
               \/ item_unlink(s) \/ item_remove(s) \/ item_update(s)
               \/ complete_nread(s) \/ add_delta(s) \/ item_flush_expired(s)
        PROVE  Keeps(at)
    <2>1. Step(s, "remove") \/ Done(s)
      BY <1>3 DEF item_unlink, item_remove, item_update, complete_nread, add_delta,
                  item_flush_expired
    <2> HIDE <1>3
    <2> QED
      BY <1>1, <2>1, KeepsOn
  <1>4. ASSUME NEW s \in Conns, alloc_failed(s) \/ \E k \in Keys : process_delete_command(s, k)
        PROVE  Keeps(at)
    <2>1. \E cmd, k : Lookup(s, cmd, k, "unlink") \/ Lookup(s, cmd, k, "defer")
      BY <1>4 DEF alloc_failed, process_delete_command
    <2> QED
      BY <1>1, <2>1, LookupKeeps
  <1>5. ASSUME NEW s \in Conns, NEW d, defer_delete(s, d) PROVE Keeps(at)
    <2>1. Done(s) \/ conn' = conn
      BY <1>5 DEF defer_delete
    <2> QED
      BY <1>1, <1>2, <2>1, KeepsOn
  <1>6. ASSUME NEW s \in Conns, NEW d, flush_all(s, d) PROVE Keeps(at)
    <2> DEFINE p == [Idle EXCEPT !.at = "flush", !.cmd = "flush_all", !.arg = d]
    <2>1. conn' = [conn EXCEPT ![s] = p]
      BY <1>6 DEF flush_all
    <2>2. p.at = "flush"
      BY DEF Idle
    <2>3. \A t \in Conns : conn'[t] = IF t = s THEN p ELSE conn[t]
      BY <2>1 DEF IInv
    <2> HIDE DEF p
    <2> QED
      BY <1>1, <2>2, <2>3 DEF Keeps
  <1>7. delete_handler \/ clock_handler \/ Halted \/ UNCHANGED vars => conn' = conn
    BY DEF delete_handler, clock_handler, Halted, vars
  <1> QED
    BY <1>2, <1>3, <1>4, <1>5, <1>6, <1>7

\* Who comes to item_update, do_add_delta and do_store_item.
LEMMA StepKeeps ==
    ASSUME IInv, NoneOld, Tabled(cache), Exptimes \subseteq Int, [Next]_vars
    PROVE  /\ "get" \notin Commands => Keeps("update")
           /\ Arithmetic \cap Commands = {} => Keeps("delta")
           /\ \/ Keeps("nread")
              \/ \E s \in Conns, cmd \in Storage, k \in Keys, i \in Items :
                    Goto(s, "nread", cmd, k, i) /\ cache'.key[i] = k
  <1> DEFINE Goal == /\ "get" \notin Commands => Keeps("update")
                     /\ Arithmetic \cap Commands = {} => Keeps("delta")
                     /\ \/ Keeps("nread")
                        \/ \E s \in Conns, cmd \in Storage, k \in Keys, i \in Items :
                              Goto(s, "nread", cmd, k, i) /\ cache'.key[i] = k
  <1>1. CASE \/ \E s \in Conns :
                 \/ item_unlink(s) \/ item_remove(s) \/ item_update(s)
                 \/ alloc_failed(s) \/ complete_nread(s) \/ add_delta(s)
                 \/ item_flush_expired(s)
                 \/ \E k \in Keys : process_delete_command(s, k)
                 \/ \E d : defer_delete(s, d) \/ flush_all(s, d)
             \/ delete_handler \/ clock_handler \/ Halted \/ UNCHANGED vars
    BY <1>1, MostKeep
  <1>2. ASSUME NEW s \in Conns, NEW k \in Keys, process_get_command(s, k) PROVE Goal
    <2>1. "get" \in Commands /\ Lookup(s, "get", k, "update")
      BY <1>2 DEF process_get_command, Asks
    <2>2. Keeps("delta") /\ Keeps("nread")
      BY <2>1, LookupKeeps
    <2> QED
      BY <2>1, <2>2
  <1>3. ASSUME NEW s \in Conns, NEW k \in Keys, NEW cmd \in Arithmetic,
               process_arithmetic_command(s, cmd, k)
        PROVE  Goal
    <2>1. cmd \in Commands /\ Lookup(s, cmd, k, "delta")
      BY <1>3 DEF process_arithmetic_command, Asks
    <2>2. Keeps("update") /\ Keeps("nread")
      BY <2>1, LookupKeeps
    <2> QED
      BY <2>1, <2>2
  <1>4. ASSUME NEW s \in Conns, NEW k \in Keys, NEW cmd \in Storage, NEW v,
               NEW e \in Exptimes, NEW u \in 0 .. cache.last_cas,
               process_update_command(s, cmd, k, v, e, u)
        PROVE  Goal
    <2>1. \/ \E i \in Items : Goto(s, "nread", cmd, k, i) /\ cache'.key[i] = k
          \/ Goto(s, "alloc failed", cmd, k, Null)
          \/ Done(s)
      BY <1>4, UpdateActs
    <2>2. Keeps("update") /\ Keeps("delta")
      <3>1. \E to \in {"nread", "alloc failed"} : (\E i : Goto(s, to, cmd, k, i)) \/ Done(s)
        BY <2>1
      <3>2. \A at \in {"update", "delta"} :
                at # "idle" /\ at \notin {"nread", "alloc failed"}
        OBVIOUS
      <3>3. \A at \in {"update", "delta"} : Keeps(at)
        BY <3>1, <3>2, KeepsOn
      <3> QED
        BY <3>3
    <2>3. Keeps("nread") \/ \E i \in Items : Goto(s, "nread", cmd, k, i) /\ cache'.key[i] = k
      <3>1. "nread" # "idle" /\ "nread" # "alloc failed"
        OBVIOUS
      <3> QED
        BY <2>1, <3>1, KeepsOn
    <2> QED
      BY <2>2, <2>3
  <1> QED
    BY <1>1, <1>2, <1>3, <1>4 DEF Next

\* A deferred delete locks an item from now on.
Locks ==
    /\ UNCHANGED clock /\ Tabled(cache')
    /\ \E i \in Items :
          /\ cache'.exptime[i] > current_time /\ cache'.deleted = cache.deleted \cup {i}
          /\ \A j \in Items \ {i} : cache'.exptime[j] = cache.exptime[j]
    /\ \A f \in Fields \ {"exptime", "deleted"} : cache'[f] = cache[f]

\* Only the two steps that store may give a key a value.
Stores(h) == h = Null \/ \E s \in Conns : (complete_nread(s) \/ add_delta(s)) /\ h = Written(s)

\* What a step does to the cache.
LEMMA StepActs ==
    ASSUME IInv, NoneOld, Tabled(cache), Exptimes \subseteq Int, Delays \subseteq Nat \ {0},
           [Next]_vars
    PROVE  \/ \E h, new : Acts(h, new) /\ Stores(h)
           \/ Locks
           \/ \E s \in Conns : item_update(s)
           \/ /\ cache' = cache
              /\ clock_handler \/ \E s \in Conns, d \in FlushDelays : flush_all(s, d)
  <1>1. CASE \E s \in Conns : item_unlink(s) \/ item_remove(s)
    <2>1. Acts(Null, Null) /\ Stores(Null)
      BY <1>1, EndActs DEF Stores
    <2> QED
      BY <2>1
  <1>2. CASE \E s \in Conns : complete_nread(s) \/ add_delta(s)
    BY <1>2, WriteActs DEF Stores
  <1>3. CASE delete_handler \/ \E s \in Conns : item_flush_expired(s)
    <2>1. Acts(Null, Null) /\ Stores(Null)
      BY <1>3, SweepActs DEF Stores
    <2> QED
      BY <2>1
  <1>4. CASE \E s \in Conns :
                \/ alloc_failed(s)
                \/ \E k \in Keys :
                      \/ process_get_command(s, k) \/ process_delete_command(s, k)
                      \/ \E cmd \in Arithmetic : process_arithmetic_command(s, cmd, k)
    <2>1. Acts(Null, Null) /\ Stores(Null)
      BY <1>4, AskActs DEF Stores
    <2> QED
      BY <2>1
  <1>5. CASE \E s \in Conns, k \in Keys, cmd \in Storage, v \in Values, e \in Exptimes,
                u \in 0 .. cache.last_cas : process_update_command(s, cmd, k, v, e, u)
    <2>1. \E new : Acts(Null, new)
      BY <1>5, UpdateActs
    <2> QED
      BY <2>1 DEF Stores
  <1>6. CASE \E s \in Conns, d \in Delays : defer_delete(s, d)
    <2>1. PICK s \in Conns, d \in Delays : defer_delete(s, d)
      BY <1>6
    <2>2. d \in Nat \ {0}
      OBVIOUS
    <2>3. Acts(Null, Null) \/ Locks
      BY <2>1, <2>2, DeferActs DEF Locks
    <2> QED
      BY <2>3 DEF Stores
  <1>7. CASE clock_handler \/ \E s \in Conns, d \in FlushDelays : flush_all(s, d)
    <2>1. cache' = cache
      BY <1>7 DEF clock_handler, flush_all
    <2> QED
      BY <1>7, <2>1
  <1>8. CASE Halted \/ UNCHANGED vars
    <2>1. cache' = cache /\ UNCHANGED clock
      BY <1>8 DEF Halted, vars, clock
    <2>2. Acts(Null, Null)
      BY <2>1, DoesNothing, ItemsAssumption DEF Acts, Unheld
    <2> QED
      BY <2>2 DEF Stores
  <1>9. Next \/ UNCHANGED vars
    OBVIOUS
  <1> QED
    BY <1>1, <1>2, <1>3, <1>4, <1>5, <1>6, <1>7, <1>8, <1>9 DEF Next

\* The cache keeps its types.
LEMMA StaysTabled ==
    ASSUME IInv, NoneOld, Tabled(cache), Exptimes \subseteq Int, Delays \subseteq Nat \ {0},
           [Next]_vars
    PROVE  Tabled(cache)'
  <1>1. (\E h, new : Acts(h, new)) => Tabled(cache')
    BY DEF Acts, Does
  <1>2. (\E s \in Conns : item_update(s)) => Tabled(cache')
    BY MoveActs
  <1>3. Tabled(cache')
    BY <1>1, <1>2, StepActs DEF Locks
  <1> QED
    BY <1>3 DEF Tabled, Shape, Typed
----------------------------------------------------------------------------
(* The store the clients see *)

\* The premise of the refinement: a flushed item does not come back.  In an instance in
\* which it may, TLC shows it (README, section 4).
NoRevival == "flush_all" \in Commands => "get" \notin Commands /\ FlushDelays \subseteq {0}

\* Besides IInv: the cache keeps its types when the server stops, and a flush is of the past.
Timely ==
    /\ Tabled(cache)
    /\ oldest_live \in Nat /\ oldest_live < current_time
    /\ "flush_all" \notin Commands => oldest_live = 0
    /\ \A s \in Conns : conn[s].at = "update" => "get" \in Commands

\* What lookups return: the abstract store.
Shown == [k \in Keys |->
    IF Visible(cache, k)
    THEN [data   |-> cache.data[cache.table[k]],
          cas_id |-> cache.cas_id[cache.table[k]]]
    ELSE Null]

\* What may be seen in one step of the store.
LEMMA StoreNext ==
    ASSUME NEW h, cache'.last_cas >= cache.last_cas,
           \A k \in Keys : \/ Shown'[k] \in {Shown[k], Null}
                           \/ k = h /\ Shown'[k].cas_id \in cache.last_cas + 1 .. cache'.last_cas
    PROVE  Store!Next
  <1>1. CASE \A k \in Keys : Shown'[k] \in {Shown[k], Null}
    BY <1>1 DEF Store!Next, Store!Lose, Store!Lost, Shown
  <1>2. CASE \E k \in Keys : Shown'[k] \notin {Shown[k], Null}
    <2>1. h \in Keys /\ Shown'[h] # Null
          /\ Shown'[h].cas_id \in cache.last_cas + 1 .. cache'.last_cas
          /\ \A k \in Keys \ {h} : Shown'[k] \in {Shown[k], Null}
      BY <1>2
    <2>2. Store!Put(h)
      BY <2>1 DEF Store!Put, Store!Lost, Shown
    <2> QED
      BY <2>1, <2>2 DEF Store!Next
  <1> QED
    BY <1>1, <1>2

\* While the clock stands, what items.c does to the cache is a step of the store.
LEMMA DoesStore ==
    ASSUME UNCHANGED clock, NEW h, NEW new, Does(cache, cache', h, new)
    PROVE  Store!Next
  <1>1. /\ current_time' = current_time /\ oldest_live' = oldest_live
        /\ Tabled(cache') /\ cache'.last_cas >= cache.last_cas
    BY DEF clock, Does
  <1>4. ASSUME NEW k \in Keys
        PROVE  \/ Shown'[k] \in {Shown[k], Null}
               \/ k = h /\ Shown'[k].cas_id \in cache.last_cas + 1 .. cache'.last_cas
    <2> DEFINE i == cache'.table[k]
    <2>1. Shown'[k] = IF Visible(cache, k)' THEN [data |-> cache'.data[i],
                                                  cas_id |-> cache'.cas_id[i]] ELSE Null
      BY DEF Shown
    <2>2. Shown[k] = IF Visible(cache, k) THEN [data |-> cache.data[cache.table[k]],
                                                cas_id |-> cache.cas_id[cache.table[k]]] ELSE Null
      BY DEF Shown
    <2>3. CASE Leaves(cache, cache', k)
      <3>1. ASSUME Visible(cache, k)' PROVE Shown'[k] = Shown[k]
        <4>1. /\ i # Null /\ ~(i \in cache'.deleted /\ ~(current_time >= cache'.exptime[i]))
              /\ ~flushed(cache', i)
              /\ ~(cache'.exptime[i] # 0 /\ cache'.exptime[i] <= current_time)
          BY <1>1, <3>1 DEF Visible, delete_locked, item_delete_lock_over, expired, flushed
        <4>2. /\ cache.table[k] = i /\ cache'.data[i] = cache.data[i]
              /\ cache'.cas_id[i] = cache.cas_id[i] /\ cache'.exptime[i] = cache.exptime[i]
              /\ i \in cache'.deleted <=> i \in cache.deleted
              /\ ~flushed(cache, i)
          BY <2>3, <4>1 DEF Leaves
        <4>3. Visible(cache, k)
          BY <4>1, <4>2 DEF Visible, delete_locked, item_delete_lock_over, expired
        <4> QED
          BY <2>1, <2>2, <3>1, <4>2, <4>3
      <3> QED
        BY <2>1, <3>1
    <2>4. CASE k = h /\ Fresh(cache, cache', k)
      <3>1. ASSUME Visible(cache, k)'
            PROVE  Shown'[k].cas_id \in cache.last_cas + 1 .. cache'.last_cas
        <4>1. i # Null
          BY <3>1 DEF Visible
        <4>2. cache'.cas_id[i] \in cache.last_cas + 1 .. cache'.last_cas
          BY <2>4, <4>1 DEF Fresh
        <4> QED
          BY <2>1, <3>1, <4>2
      <3> QED
        BY <2>1, <2>4, <3>1
    <2> QED
      BY <2>3, <2>4 DEF Does
  <1> QED
    BY <1>1, <1>4, StoreNext

\* When the clock goes on, or flush_all sets oldest_live, values are only lost.
LEMMA ClockStore ==
    ASSUME Timely, cache' = cache, current_time \in Nat, current_time' \in Nat,
           current_time' >= current_time,
           oldest_live' \in Nat, oldest_live' >= oldest_live, oldest_live' < current_time'
    PROVE  Store!Next
  <1>3. ASSUME NEW k \in Keys PROVE Shown'[k] \in {Shown[k], Null}
    <2> DEFINE i == cache.table[k]
               e == cache.exptime[i]
    <2>1. ASSUME Visible(cache, k)' PROVE Visible(cache, k)
      <3>1. /\ i # Null /\ ~(i \in cache.deleted /\ ~(current_time' >= e))
            /\ ~(oldest_live' # 0 /\ oldest_live' <= current_time' /\ cache.time[i] <= oldest_live')
            /\ ~(e # 0 /\ e <= current_time')
        BY <2>1 DEF Visible, delete_locked, item_delete_lock_over, expired, flushed
      <3>2. /\ i \in Items /\ e \in Int /\ cache.time[i] \in Nat
            /\ i \in cache.deleted => e # 0
        BY <3>1 DEF Timely, Tabled, Typed
      <3>3. current_time \in Nat /\ oldest_live \in Nat
        BY DEF Timely
      <3>4. i \notin cache.deleted /\ ~(e # 0 /\ e <= current_time)
        BY <3>1, <3>2, <3>3
      <3>5. ~(oldest_live # 0 /\ oldest_live <= current_time /\ cache.time[i] <= oldest_live)
        BY <3>1, <3>2, <3>3
      <3> QED
        BY <3>1, <3>4, <3>5 DEF Visible, delete_locked, expired, flushed
    <2>2. CASE Visible(cache, k)'
      BY <2>1, <2>2 DEF Shown
    <2>3. CASE ~Visible(cache, k)'
      BY <2>3 DEF Shown
    <2> QED
      BY <2>2, <2>3
  <1>4. cache'.last_cas >= cache.last_cas
    BY DEF Timely, Tabled
  <1> QED
    BY <1>3, <1>4, StoreNext

\* A lock only hides the item.
LEMMA LocksStore ==
    ASSUME IInv, Tabled(cache), Locks
    PROVE  Store!Next
  <1>1. PICK i \in Items :
            /\ cache'.exptime[i] > current_time /\ cache'.deleted = cache.deleted \cup {i}
            /\ \A j \in Items \ {i} : cache'.exptime[j] = cache.exptime[j]
    BY DEF Locks
  <1>2. /\ current_time' = current_time /\ oldest_live' = oldest_live
        /\ cache'.data = cache.data /\ cache'.time = cache.time
        /\ cache'.cas_id = cache.cas_id /\ cache'.table = cache.table
        /\ cache'.last_cas = cache.last_cas
    BY DEF Locks, Fields, clock
  <1>3. ASSUME NEW k \in Keys PROVE Shown'[k] \in {Shown[k], Null}
    <2> DEFINE j == cache.table[k]
    <2>1. CASE ~Visible(cache, k)'
      BY <2>1 DEF Shown
    <2>2. CASE Visible(cache, k)'
      <3>1. /\ j # Null /\ ~(j \in cache'.deleted /\ ~(current_time >= cache'.exptime[j]))
            /\ ~flushed(cache', j)
            /\ ~(cache'.exptime[j] # 0 /\ cache'.exptime[j] <= current_time)
        BY <1>2, <2>2 DEF Visible, delete_locked, item_delete_lock_over, expired, flushed
      <3>2. j \in Items
        BY <3>1 DEF Tabled, Typed
      <3>3. j # i
        <4>1. cache'.exptime[i] \in Int /\ current_time \in Int
          BY DEF Locks, Tabled, IInv
        <4> QED
          BY <1>1, <3>1, <4>1
      <3>4. Visible(cache, k)
        BY <1>1, <1>2, <3>1, <3>2, <3>3
           DEF Visible, delete_locked, item_delete_lock_over, expired, flushed
      <3> QED
        BY <1>2, <2>2, <3>4 DEF Shown
    <2> QED
      BY <2>1, <2>2
  <1>4. cache'.last_cas >= cache.last_cas
    BY <1>2 DEF Tabled
  <1> QED
    BY <1>3, <1>4, StoreNext

\* The premises are kept: a flush is of the past, and only get leads to item_update.
LEMMA StaysTimely ==
    ASSUME IInv, NoneOld, Timely, NoRevival, Exptimes \subseteq Int, Delays \subseteq Nat \ {0},
           [Next]_vars
    PROVE  /\ Timely'
           /\ UNCHANGED clock
              \/ /\ current_time' \in Nat /\ current_time' >= current_time
                 /\ oldest_live' >= oldest_live
  <1>1. current_time \in Nat /\ oldest_live \in Nat /\ oldest_live < current_time
    BY DEF Timely, IInv
  <1>2. Tabled(cache)'
    BY StaysTabled DEF Timely
  <1>3. "get" \notin Commands => Keeps("update")
    BY StepKeeps DEF Timely
  <1>4. \A s \in Conns : conn'[s].at = "update" => "get" \in Commands
    BY <1>3 DEF Keeps, Timely
  <1>5. /\ UNCHANGED clock
           \/ /\ current_time' \in Nat /\ current_time' >= current_time
              /\ oldest_live' >= oldest_live
        /\ oldest_live' \in Nat /\ oldest_live' < current_time'
        /\ "flush_all" \notin Commands => oldest_live' = 0
    <2>1. CASE UNCHANGED clock
      BY <1>1, <2>1 DEF Timely, clock
    <2>2. CASE clock_handler
      <3>1. oldest_live' = oldest_live /\ current_time' = current_time + 1
        BY <2>2 DEF clock_handler
      <3> QED
        BY <1>1, <3>1 DEF Timely
    <2>3. CASE \E s \in Conns, d \in FlushDelays : flush_all(s, d)
      <3>1. PICK s \in Conns, d \in FlushDelays : flush_all(s, d)
        BY <2>3
      <3>2. /\ "flush_all" \in Commands
            /\ current_time' \in current_time .. current_time + 1
            /\ oldest_live' = current_time' + d - 1
        BY <3>1 DEF flush_all, Asks
      <3>3. d = 0
        BY <3>1, <3>2 DEF NoRevival
      <3>4. \A now, old \in Nat : \A t \in now .. now + 1 :
               old < now => t \in Nat /\ t >= now /\ t - 1 \in Nat /\ t - 1 >= old /\ t - 1 < t
        OBVIOUS
      <3>5. oldest_live' = current_time' - 1
        BY <1>1, <3>2, <3>3
      <3>6. /\ current_time' \in Nat /\ current_time' >= current_time
            /\ oldest_live' \in Nat /\ oldest_live' >= oldest_live
            /\ oldest_live' < current_time'
        BY ONLY <1>1, <3>2, <3>4, <3>5, Zenon
      <3> QED
        BY <3>2, <3>6
    <2>4. UNCHANGED clock \/ clock_handler \/ \E s \in Conns, d \in FlushDelays : flush_all(s, d)
      BY StepActs, MoveActs DEF Timely, Acts, Locks
    <2> QED
      BY <2>1, <2>2, <2>3, <2>4
  <1> QED
    BY <1>2, <1>4, <1>5 DEF Timely

\* Every step.
LEMMA StoreSteps ==
    ASSUME IInv, NoneOld, Timely, NoRevival, Exptimes \subseteq Int, Delays \subseteq Nat \ {0},
           [Next]_vars
    PROVE  Store!Next
  <1>1. Timely'
    BY StaysTimely
  <1>2. CASE \E h, new : Acts(h, new)
    BY <1>2, DoesStore DEF Acts
  <1>3. CASE Locks
    BY <1>3, LocksStore DEF Timely
  <1>4. ASSUME NEW s \in Conns, item_update(s) PROVE Store!Next
    <2>1. conn[s].at = "update"
      BY <1>4 DEF item_update, At
    <2>2. oldest_live = 0
      BY <2>1 DEF Timely, NoRevival
    <2>3. Acts(Null, Null)
      BY <1>4, <2>2, MoveActs DEF Timely
    <2> QED
      BY <2>3, DoesStore DEF Acts
  <1>5. CASE cache' = cache /\ ~UNCHANGED clock
    <2>1. /\ current_time \in Nat /\ current_time' \in Nat /\ current_time' >= current_time
          /\ oldest_live' >= oldest_live
      BY <1>5, StaysTimely DEF IInv
    <2>2. oldest_live' \in Nat /\ oldest_live' < current_time'
      BY <1>1 DEF Timely
    <2> QED
      BY <1>5, <2>1, <2>2, ClockStore
  <1>6. CASE cache' = cache /\ UNCHANGED clock
    <2>1. Does(cache, cache', Null, Null)
      BY <1>6, DoesNothing DEF Timely
    <2> QED
      BY <1>6, <2>1, DoesStore
  <1>7. \/ \E h, new : Acts(h, new)
        \/ Locks
        \/ \E s \in Conns : item_update(s)
        \/ cache' = cache
    BY StepActs DEF Timely
  <1> QED
    BY <1>1, <1>2, <1>3, <1>4, <1>5, <1>6, <1>7

\* The empty cache shows the empty store.
LEMMA StoreStarts == Init => Timely /\ Store!Init
  <1> HAVE Init
  <1>1. /\ cache = InitCache /\ conn = [s \in Conns |-> Idle]
        /\ current_time = StartTime /\ oldest_live = 0
    BY DEF Init
  <1> DEFINE zero == 0
             none == <<>>
             no == "no"
             empty == {}
             c == InitCache
  <1>2. c = [free |-> Items, linked |-> empty, deleted |-> empty,
             refcount |-> [i \in Items |-> zero], key |-> [i \in Items |-> Null],
             data |-> [i \in Items |-> none], time |-> [i \in Items |-> zero],
             exptime |-> [i \in Items |-> zero], cas_id |-> [i \in Items |-> zero],
             table |-> [k \in Keys |-> Null], lru |-> none, last_cas |-> zero,
             halted |-> no]
    BY DEF InitCache
  <1>3. none \in Seq(Items) /\ zero \in Nat
    OBVIOUS
  <1> HIDE DEF none, no, c
  <1>4. /\ c.free = Items /\ c.linked = empty /\ c.deleted = empty
        /\ c.refcount = [i \in Items |-> zero] /\ c.key = [i \in Items |-> Null]
        /\ c.data = [i \in Items |-> none] /\ c.cas_id = [i \in Items |-> zero]
        /\ c.time = [i \in Items |-> zero] /\ c.table = [k \in Keys |-> Null]
        /\ c.exptime = [i \in Items |-> zero] /\ c.last_cas = zero
        /\ c.lru = none /\ Shape(c)
    BY <1>2 DEF Shape, Fields
  <1>5. Tabled(c)
    BY <1>3, <1>4 DEF Tabled, Typed
  <1>6. cache = c
    BY <1>1 DEF c
  <1>7. Timely
    <2>1. Idle.at # "update"
      BY DEF Idle
    <2> QED
      BY <1>1, <1>5, <1>6, <2>1, CacheAssumption DEF Timely
  <1>8. \A k \in Keys : Shown[k] = Null
    BY <1>4, <1>6 DEF Shown, Visible
  <1> QED
    BY <1>4, <1>6, <1>7, <1>8 DEF Store!Init, Shown

\* What lookups return is a store that loses values, and gets them only by a change of
\* their key that carries a new cas id (do_item_link, do_add_delta).  A delete with a time
\* is for a later time, and no flushed item comes back.
THEOREM CacheLossy ==
    ASSUME NoRevival, Exptimes \subseteq Int, Delays \subseteq Nat \ {0}
    PROVE  Spec /\ []NoneOld => StoreSpec
  <1>1. Spec /\ []NoneOld => []IInv
    BY Always
  <1>2. Init => Timely /\ Store!Init
    BY StoreStarts
  <1>3. IInv /\ NoneOld /\ Timely /\ [Next]_vars => Timely' /\ Store!Next
    BY StaysTimely, StoreSteps
  <1> QED
    BY <1>1, <1>2, <1>3, PTL DEF Spec, StoreSpec, Store!Spec

----------------------------------------------------------------------------
(* A delete lock *)

\* What a command holds has a key.
InHand ==
    cache.halted = "no" =>
        \A s \in Conns : conn[s].at \in Holding =>
            conn[s].it \in Items /\ cache.refcount[conn[s].it] # 0
            /\ cache.key[conn[s].it] \in Keys

\* It holds in every sound state.
LEMMA HoldsKeyed == IInv /\ NoneOld => InHand
  <1> SUFFICES ASSUME IInv, NoneOld, cache.halted = "no", NEW s \in Conns,
                      conn[s].at \in Holding
               PROVE  conn[s].it \in Items /\ cache.refcount[conn[s].it] # 0
                      /\ cache.key[conn[s].it] \in Keys
    BY DEF InHand
  <1> QED
    BY Facts, Ready

\* A storage command that waits for its data will store it under the key of its item; no
\* command of arithmetic is on its way.
Awaited ==
    /\ Tabled(cache)
    /\ \A s \in Conns : conn[s].at # "delta"
    /\ cache.halted = "no" =>
          \A s \in Conns : conn[s].at = "nread" =>
              conn[s].cmd \in Storage /\ conn[s].key = cache.key[conn[s].it]

\* A server that has stopped does nothing.
LEMMA Stopped ==
    ASSUME cache.halted # "no", [Next]_vars
    PROVE  UNCHANGED vars
  <1>1. ASSUME NEW s \in Conns,
               \/ item_unlink(s) \/ item_remove(s) \/ item_update(s) \/ alloc_failed(s)
               \/ complete_nread(s) \/ add_delta(s) \/ item_flush_expired(s)
        PROVE  FALSE
    BY <1>1 DEF item_unlink, item_remove, item_update, alloc_failed, complete_nread,
                add_delta, item_flush_expired, At
  <1>2. ASSUME NEW s \in Conns, NEW k \in Keys,
               \/ process_get_command(s, k) \/ process_delete_command(s, k)
               \/ \E cmd : process_arithmetic_command(s, cmd, k)
               \/ \E cmd, v, e, u : process_update_command(s, cmd, k, v, e, u)
        PROVE  FALSE
    BY <1>2 DEF process_get_command, process_delete_command, process_arithmetic_command,
                process_update_command, Asks, At
  <1>3. ASSUME NEW s \in Conns, NEW d, defer_delete(s, d) \/ flush_all(s, d) PROVE FALSE
    BY <1>3 DEF defer_delete, flush_all, Asks, At
  <1>4. ~delete_handler /\ ~clock_handler
    BY DEF delete_handler, clock_handler
  <1> QED
    BY <1>1, <1>2, <1>3, <1>4 DEF Next, Halted

\* A chunk that a command is left with keeps its key, unless it gets none.
LEMMA KeyStays ==
    ASSUME IInv, NoneOld, Tabled(cache), Exptimes \subseteq Int, Delays \subseteq Nat \ {0},
           [Next]_vars, NEW i \in Items, cache.refcount[i] # 0
    PROVE  cache'.key[i] \in {cache.key[i], Null}
  <1>1. ASSUME NEW h, NEW new, Acts(h, new) PROVE cache'.key[i] \in {cache.key[i], Null}
    BY <1>1 DEF Acts, Does, Unheld
  <1>2. Locks => cache'.key = cache.key
    BY DEF Locks, Fields
  <1>3. (\E s \in Conns : item_update(s)) => cache'.key = cache.key
    BY MoveActs
  <1> QED
    BY <1>1, <1>2, <1>3, StepActs

\* Init and every step keep it.
LEMMA AwaitedStays ==
    ASSUME IInv, NoneOld, InHand, InHand', Awaited, Arithmetic \cap Commands = {},
           Exptimes \subseteq Int, Delays \subseteq Nat \ {0}, [Next]_vars
    PROVE  Awaited'
  <1>1. Tabled(cache)'
    BY StaysTabled DEF Awaited
  <1>2. \A s \in Conns : conn'[s].at # "delta"
    <2>1. Keeps("delta")
      BY StepKeeps DEF Awaited
    <2> QED
      BY <2>1 DEF Keeps, Awaited
  <1>3. ASSUME cache'.halted = "no", NEW t \in Conns, conn'[t].at = "nread"
        PROVE  conn'[t].cmd \in Storage /\ conn'[t].key = cache'.key[conn'[t].it]
    <2>1. cache.halted = "no"
      BY <1>3, Stopped DEF vars
    <2>2. CASE conn'[t] = conn[t]
      <3> DEFINE i == conn[t].it
      <3>1. conn[t].cmd \in Storage /\ conn[t].key = cache.key[i]
        BY <1>3, <2>1, <2>2 DEF Awaited
      <3>2. conn[t].at \in Holding
        BY <1>3, <2>2 DEF Holding
      <3>3. i \in Items /\ cache.refcount[i] # 0
        BY <2>1, <3>2 DEF InHand
      <3>4. cache'.key[i] \in Keys
        BY <1>3, <2>2, <3>2 DEF InHand
      <3>5. cache'.key[i] \in {cache.key[i], Null}
        BY <3>3, KeyStays DEF Awaited
      <3>6. cache'.key[i] = cache.key[i]
        BY <3>4, <3>5, ItemsAssumption
      <3> QED
        BY <2>2, <3>1, <3>6
    <2>3. CASE conn'[t] # conn[t]
      <3>1. ~Keeps("nread")
        BY <1>3, <2>3 DEF Keeps
      <3>2. PICK s \in Conns, cmd \in Storage, k \in Keys, i \in Items :
                Goto(s, "nread", cmd, k, i) /\ cache'.key[i] = k
        BY <3>1, StepKeeps DEF Awaited
      <3> DEFINE at == "nread"
                 p == [at |-> at, cmd |-> cmd, key |-> k, it |-> i, arg |-> 0]
      <3>3. \A r \in Conns : conn'[r] = IF r = s THEN p ELSE conn[r]
        BY <3>2 DEF Goto, IInv
      <3>4. p.cmd = cmd /\ p.key = k /\ p.it = i
        OBVIOUS
      <3> HIDE DEF p
      <3> QED
        BY <2>3, <3>2, <3>3, <3>4
    <2> QED
      BY <2>2, <2>3
  <1> QED
    BY <1>1, <1>2, <1>3 DEF Awaited

\* A locked key gets another item.
LEMMA LockStep ==
    ASSUME IInv, NoneOld, InHand, Awaited, Exptimes \subseteq Int, Delays \subseteq Nat \ {0},
           [Next]_vars, NEW k \in Keys, LockOverridden(k)
    PROVE  \E s \in Conns : LockRespected(k, s)
  <1>1. delete_locked(cache, k) /\ cache'.table[k] # Null /\ cache'.table[k] # cache.table[k]
    BY DEF LockOverridden
  <1>2. ~Locks /\ ~(\E s \in Conns : item_update(s)) /\ cache' # cache
    <2>1. Locks => cache'.table = cache.table
      BY DEF Locks, Fields
    <2>2. (\E s \in Conns : item_update(s)) => cache'.table = cache.table
      BY MoveActs DEF Awaited
    <2> QED
      BY <1>1, <2>1, <2>2
  <1>3. PICK h, new : Acts(h, new) /\ Stores(h)
    BY <1>2, StepActs DEF Awaited
  <1>4. k = h
    BY <1>1, <1>3 DEF Acts, Does, Leaves
  <1>5. k # Null
    BY ItemsAssumption
  <1>6. PICK s \in Conns : (complete_nread(s) \/ add_delta(s)) /\ k = Written(s)
    BY <1>3, <1>4, <1>5 DEF Stores
  <1>7. complete_nread(s)
    BY <1>6 DEF add_delta, At, Awaited
  <1> DEFINE i == conn[s].it
             cmd == conn[s].cmd
             at == "remove"
  <1>8. /\ cache.halted = "no" /\ conn[s].at = "nread" /\ Step(s, at)
        /\ cache' \in do_store_item(cache, i, cmd)
    BY <1>2, <1>7 DEF complete_nread, At, Cached
  <1>9. cmd \in Storage /\ conn[s].key = k
    BY <1>6, <1>8 DEF Awaited, Written
  <1>10. cmd \in {"set", "cas"}
    <2> SUFFICES ASSUME cmd \in Storage \ {"set", "cas"} PROVE FALSE
      BY <1>9
    <2>1. delete_locked(cache, cache.key[i])
      BY <1>1, <1>6 DEF Written
    <2> HIDE DEF i, cmd
    <2>2. cache' = cache
      BY <1>8, <2>1, LockedStore
    <2> QED
      BY <1>2, <2>2
  <1>11. conn'[s].at = at
    <2>1. conn = [t \in Conns |-> conn[t]] /\ ConnOK(conn[s])
      BY DEF IInv
    <2> DEFINE p == [conn[s] EXCEPT !.at = at]
    <2>2. conn' = [conn EXCEPT ![s] = p]
      BY <1>8, <2>1 DEF Step
    <2>3. p.at = at
      BY <2>1 DEF ConnOK
    <2> HIDE DEF p
    <2> QED
      BY <2>1, <2>2, <2>3
  <1> QED
    BY <1>8, <1>9, <1>10, <1>11 DEF LockRespected

\* No command is on its way in the initial state.
LEMMA AwaitedStarts == Init => Awaited
  <1> HAVE Init
  <1>1. Timely
    BY StoreStarts
  <1>2. \A s \in Conns : conn[s].at = "idle"
    BY DEF Init, Idle
  <1> QED
    BY <1>1, <1>2 DEF Timely, Awaited

\* A delete with a time locks its key: until the time is over only set and cas put a new
\* item under it (do_store_item).  Commands of arithmetic are left out: one that found the
\* item before the delete may put a longer number in its place, over the lock.
THEOREM LockHolds ==
    ASSUME Arithmetic \cap Commands = {}, Exptimes \subseteq Int, Delays \subseteq Nat \ {0}
    PROVE  Spec /\ []NoneOld => DeleteLocked
  <1>1. Spec /\ []NoneOld => []IInv
    BY Always
  <1>2. IInv /\ NoneOld => InHand
    BY HoldsKeyed
  <1>3. Init => Awaited
    BY AwaitedStarts
  <1>4. IInv /\ NoneOld /\ InHand /\ InHand' /\ Awaited /\ [Next]_vars => Awaited'
    BY AwaitedStays
  <1>5. IInv /\ NoneOld /\ InHand /\ Awaited /\ [Next]_vars
            => [\A k \in Keys : LockOverridden(k) => \E s \in Conns : LockRespected(k, s)]_vars
    BY LockStep
  <1> QED
    BY <1>1, <1>2, <1>3, <1>4, <1>5, PTL DEF Spec, DeleteLocked

----------------------------------------------------------------------------
(* The text of numbers *)

\* A number that has more than one digit.
LEMMA Divides ==
    ASSUME NEW n \in Nat, n >= Base
    PROVE  n \div Base \in 0 .. n - 1 /\ n % Base \in 0 .. Base - 1
  <1>1. Base \in Nat /\ Base >= 2
    BY CacheAssumption
  <1> QED
    BY <1>1

\* f is the function that digits is defined by, for the numbers up to v.
Spelling(f, v) ==
    f = [n \in 0 .. v |-> IF n < Base THEN <<n>> ELSE Append(f[n \div Base], n % Base)]

\* There is one: the smallest v without would have a predecessor without.
LEMMA SpellingExists ==
    ASSUME NEW v \in Nat
    PROVE  \E f : Spelling(f, v)
  <1> DEFINE T == {m \in 0 .. v : ~\E f : Spelling(f, m)}
  <1>1. SUFFICES ASSUME T # {} PROVE FALSE
    <2>1. v \notin T
      BY <1>1
    <2> QED
      BY <2>1
  <1>2. PICK x \in T : \A y \in T : x <= y
    <2>1. T \subseteq Nat
      OBVIOUS
    <2> HIDE DEF T
    <2> QED
      BY <1>1, <2>1, Smallest
  <1>3. x # 0
    <2>1. 0 < Base
      BY CacheAssumption
    <2>2. Spelling([n \in 0 .. 0 |-> <<n>>], 0)
      BY <2>1 DEF Spelling
    <2> QED
      BY <2>2
  <1>4. x \in 1 .. v /\ x - 1 \in 0 .. v /\ x - 1 \notin T
    BY <1>2, <1>3
  <1>5. PICK r : Spelling(r, x - 1)
    BY <1>4
  <1> DEFINE of(f, n) == IF n < Base THEN <<n>> ELSE Append(f[n \div Base], n % Base)
             q == [n \in 0 .. x |-> IF n = x THEN of(r, x) ELSE r[n]]
             p == [n \in 0 .. x |-> of(q, n)]
  <1>6. ASSUME NEW n \in 0 .. x PROVE q[n] = p[n]
    <2>1. n \in Nat /\ n <= x /\ x \in Nat
      BY <1>4
    <2>2. of(q, n) = of(r, n)
      <3>1. CASE n < Base
        BY <3>1
      <3>2. CASE ~(n < Base)
        <4>1. n \div Base \in 0 .. n - 1
          BY <2>1, <3>2, Divides, CacheAssumption
        <4>2. n \div Base \in 0 .. x /\ n \div Base # x
          BY <2>1, <4>1
        <4>3. q[n \div Base] = r[n \div Base]
          BY <4>2
        <4> HIDE DEF q
        <4> QED
          BY <4>3
      <3> QED
        BY <3>1, <3>2
    <2>3. q[n] = of(r, n)
      <3>1. CASE n = x
        BY <3>1
      <3>2. CASE n # x
        <4>1. n \in 0 .. x - 1
          BY <2>1, <3>2
        <4>2. r[n] = of(r, n)
          BY <1>5, <4>1 DEF Spelling
        <4>3. q[n] = r[n]
          BY <3>2
        <4> HIDE DEF q, of
        <4> QED
          BY <4>2, <4>3
      <3> QED
        BY <3>1, <3>2
    <2>4. p[n] = of(q, n)
      OBVIOUS
    <2> HIDE DEF q, p, of
    <2> QED
      BY <2>2, <2>3, <2>4
  <1>7. q = p
    <2> HIDE DEF of
    <2> QED
      BY <1>6
  <1>8. Spelling(q, x)
    BY <1>7 DEF Spelling
  <1> QED
    BY <1>2, <1>8

\* A number is written in digits.
LEMMA DigitsText ==
    ASSUME NEW v \in Nat
    PROVE  digits(v) \in Seq(0 .. Base - 1)
  <1> DEFINE f == CHOOSE f : f = [n \in 0 .. v |->
                      IF n < Base THEN <<n>> ELSE Append(f[n \div Base], n % Base)]
             T == {n \in 0 .. v : f[n] \notin Seq(0 .. Base - 1)}
  <1>1. digits(v) = f[v]
    BY DEF digits
  <1>2. Spelling(f, v)
    BY SpellingExists DEF Spelling
  <1> HIDE DEF f
  <1>3. ASSUME T # {} PROVE FALSE
    <2>1. PICK x \in T : \A y \in T : x <= y
      <3>1. T \subseteq Nat
        OBVIOUS
      <3> HIDE DEF T
      <3> QED
        BY <1>3, <3>1, Smallest
    <2>2. f[x] = IF x < Base THEN <<x>> ELSE Append(f[x \div Base], x % Base)
      BY <1>2 DEF Spelling
    <2>3. Base \in Nat
      BY CacheAssumption
    <2>4. ASSUME x < Base PROVE f[x] \in Seq(0 .. Base - 1)
      <3>1. x \in 0 .. Base - 1
        BY <2>3, <2>4
      <3>2. f[x] = <<x>>
        BY <2>2, <2>4
      <3> HIDE DEF T
      <3> QED
        BY <3>1, <3>2
    <2>5. ASSUME ~(x < Base) PROVE f[x] \in Seq(0 .. Base - 1)
      <3>1. x \div Base \in 0 .. x - 1 /\ x % Base \in 0 .. Base - 1
        BY <2>3, <2>5, Divides
      <3>2. x \div Base \in 0 .. v /\ x \div Base \notin T
        BY <2>1, <3>1
      <3>3. f[x \div Base] \in Seq(0 .. Base - 1)
        BY <3>2
      <3>4. f[x] = Append(f[x \div Base], x % Base)
        BY <2>2, <2>5
      <3> HIDE DEF T
      <3> QED
        BY <3>1, <3>3, <3>4
    <2> QED
      BY <2>1, <2>4, <2>5
  <1>4. v \notin T
    BY <1>3
  <1> QED
    BY <1>1, <1>4

\* f is the function that number is defined by.
Counting(f, text, end) ==
    f = [n \in 0 .. end |-> IF n = 0 THEN 0 ELSE f[n - 1] * Base + text[n]]

\* There is such a function: the recursion is well founded.
LEMMA CountingExists ==
    ASSUME NEW text, NEW end \in Nat
    PROVE  \E f : Counting(f, text, end)
  <1> DEFINE T == {m \in 0 .. end : ~\E f : Counting(f, text, m)}
  <1>1. SUFFICES ASSUME T # {} PROVE FALSE
    <2>1. end \notin T
      BY <1>1
    <2> QED
      BY <2>1
  <1>2. PICK x \in T : \A y \in T : x <= y
    <2>1. T \subseteq Nat
      OBVIOUS
    <2> HIDE DEF T
    <2> QED
      BY <1>1, <2>1, Smallest
  <1>3. x # 0
    <2>1. Counting([n \in 0 .. 0 |-> 0], text, 0)
      BY DEF Counting
    <2> QED
      BY <2>1
  <1>4. x \in 1 .. end /\ x - 1 \in 0 .. end /\ x - 1 \notin T
    BY <1>2, <1>3
  <1>5. PICK r : Counting(r, text, x - 1)
    BY <1>4
  <1> DEFINE of(f, n) == IF n = 0 THEN 0 ELSE f[n - 1] * Base + text[n]
             q == [n \in 0 .. x |-> IF n = x THEN of(r, x) ELSE r[n]]
             p == [n \in 0 .. x |-> of(q, n)]
  <1>6. ASSUME NEW n \in 0 .. x PROVE q[n] = p[n]
    <2>1. of(q, n) = of(r, n)
      <3>1. CASE n = 0
        BY <3>1
      <3>2. CASE n # 0
        <4>1. n - 1 \in 0 .. x /\ n - 1 # x
          BY <1>4, <3>2
        <4>2. q[n - 1] = r[n - 1]
          BY <4>1
        <4> HIDE DEF q
        <4> QED
          BY <4>2
      <3> QED
        BY <3>1, <3>2
    <2>2. q[n] = of(r, n)
      <3>1. CASE n = x
        BY <3>1
      <3>2. CASE n # x
        <4>1. n \in 0 .. x - 1
          BY <1>4, <3>2
        <4>2. r[n] = of(r, n)
          BY <1>5, <4>1 DEF Counting
        <4>3. q[n] = r[n]
          BY <3>2
        <4> HIDE DEF q, of
        <4> QED
          BY <4>2, <4>3
      <3> QED
        BY <3>1, <3>2
    <2>3. p[n] = of(q, n)
      OBVIOUS
    <2> HIDE DEF q, p, of
    <2> QED
      BY <2>1, <2>2, <2>3
  <1>7. q = p
    <2> HIDE DEF of
    <2> QED
      BY <1>6
  <1>8. Counting(q, text, x)
    BY <1>7 DEF Counting
  <1> QED
    BY <1>2, <1>8

\* The text of an item is read as a number.
LEMMA NumberNat ==
    ASSUME NEW text \in Seq(0 .. Base)
    PROVE  number(text) \in Nat
  <1> DEFINE blanks == {n \in DOMAIN text : text[n] = Blank}
             first == CHOOSE n \in blanks : \A m \in blanks : n <= m
             end == IF blanks = {} THEN Len(text) ELSE first - 1
             f == CHOOSE f : f = [n \in 0 .. end |->
                      IF n = 0 THEN 0 ELSE f[n - 1] * Base + text[n]]
             T == {n \in 0 .. end : f[n] \notin Nat}
  <1>1. number(text) = f[end]
    BY DEF number
  <1>2. end \in 0 .. Len(text)
    <2>1. blanks \subseteq 1 .. Len(text) /\ Len(text) \in Nat
      OBVIOUS
    <2>2. CASE blanks = {}
      BY <2>1, <2>2
    <2>3. CASE blanks # {}
      <3>0. blanks \subseteq Nat
        BY <2>1
      <3> HIDE DEF blanks
      <3>1. \E n \in blanks : \A m \in blanks : n <= m
        BY <2>3, <3>0, Smallest
      <3>2. first \in blanks
        BY <3>1
      <3> HIDE DEF first
      <3> QED
        BY <2>1, <2>3, <3>2
    <2> QED
      BY <2>2, <2>3
  <1>3. Base \in Nat /\ \A n \in 1 .. Len(text) : text[n] \in Nat
    BY CacheAssumption
  <1> HIDE DEF end
  <1>4. Counting(f, text, end)
    <2>1. end \in Nat
      BY <1>2
    <2>2. \E g : Counting(g, text, end)
      BY <2>1, CountingExists
    <2> QED
      BY <2>2 DEF Counting
  <1> HIDE DEF f
  <1>5. ASSUME T # {} PROVE FALSE
    <2>1. PICK x \in T : \A y \in T : x <= y
      <3>1. T \subseteq Nat
        OBVIOUS
      <3> HIDE DEF T
      <3> QED
        BY <1>5, <3>1, Smallest
    <2>2. f[x] = IF x = 0 THEN 0 ELSE f[x - 1] * Base + text[x]
      BY <1>4 DEF Counting
    <2>3. x # 0
      BY <2>1, <2>2
    <2>4. x - 1 \in 0 .. end /\ x - 1 \notin T /\ x \in 1 .. Len(text)
      BY <1>2, <2>1, <2>3
    <2>5. f[x - 1] \in Nat /\ text[x] \in Nat
      BY <1>3, <2>4
    <2>6. f[x - 1] * Base \in Nat
      BY <1>3, <2>5
    <2> HIDE DEF T
    <2>7. f[x] \in Nat
      BY <2>2, <2>3, <2>5, <2>6
    <2> QED
      BY <2>1, <2>7 DEF T
  <1>6. end \in 0 .. end
    BY <1>2
  <1> QED
    BY <1>1, <1>5, <1>6

\* What incr and decr make of a number.
LEMMA ResultNat ==
    ASSUME NEW v \in Nat, NEW cmd
    PROVE  result(v, cmd) \in Nat
  <1>1. Wrap \in Nat \ {0}
    BY CacheAssumption
  <1>2. (v + 1) % Wrap \in Nat
    BY <1>1
  <1> QED
    BY <1>2 DEF result

\* The sequence without its k-th place: what was behind it moves up.
Without(seq, k, new) ==
    /\ new \in Seq(Items) /\ Len(new) = Len(seq) - 1
    /\ \A n \in 1 .. Len(new) :
          \/ n < k /\ new[n] = seq[n]
          \/ n >= k /\ n + 1 \in 1 .. Len(seq) /\ new[n] = seq[n + 1]

\* It is made so.
LEMMA PlaceLess ==
    ASSUME NEW seq \in Seq(Items), NEW k \in 1 .. Len(seq)
    PROVE  Without(seq, k, SubSeq(seq, 1, k - 1) \o SubSeq(seq, k + 1, Len(seq)))
  <1> DEFINE l == Len(seq)
             a == SubSeq(seq, 1, k - 1)
             b == SubSeq(seq, k + 1, l)
             new == a \o b
  <1>1. seq \in Seq(Items) /\ l \in Nat /\ k \in 1 .. l
    OBVIOUS
  <1>2. /\ a \in Seq(Items) /\ Len(a) = k - 1 /\ \A n \in 1 .. k - 1 : a[n] = seq[n]
    <2>1. k - 1 \in Nat /\ k - 1 <= l
      BY <1>1
    <2> DEFINE h == k - 1
    <2>2. h \in Nat /\ h <= l
      BY <2>1
    <2> HIDE DEF h
    <2>3. SubSeq(seq, 1, h) \in Seq(Items) /\ Len(SubSeq(seq, 1, h)) = h
          /\ \A n \in 1 .. h : SubSeq(seq, 1, h)[n] = seq[n]
      BY <1>1, <2>2
    <2> QED
      BY <2>3 DEF h
  <1>3. /\ b \in Seq(Items) /\ Len(b) = l - k /\ \A n \in 1 .. l - k : b[n] = seq[k + n]
    <2> DEFINE h == k + 1
    <2>1. h \in 1 .. l + 1 /\ l \in h - 1 .. l
      BY <1>1
    <2>2. /\ SubSeq(seq, h, l) \in Seq(Items) /\ Len(SubSeq(seq, h, l)) = l - h + 1
          /\ \A n \in 1 .. l - h + 1 : SubSeq(seq, h, l)[n] = seq[h + n - 1]
      <3> HIDE DEF h
      <3>1. \A x \in 1 .. Len(seq) : seq[x] \in Items
        BY <1>1
      <3> QED
        BY <1>1, <2>1, <3>1, SubSeqProperties
    <2>3. l - h + 1 = l - k /\ \A n \in 1 .. l - k : h + n - 1 = k + n
      BY <1>1
    <2> QED
      BY <2>2, <2>3
  <1> HIDE DEF a, b
  <1>4. /\ new \in Seq(Items) /\ Len(new) = l - 1
        /\ \A n \in 1 .. k - 1 : new[n] = seq[n]
        /\ \A n \in 1 .. l - k : new[k - 1 + n] = seq[k + n]
    <2> DEFINE p == k - 1
               q == l - k
    <2>1. /\ new \in Seq(Items) /\ Len(new) = Len(a) + Len(b)
          /\ \A n \in 1 .. Len(a) : new[n] = a[n]
          /\ \A n \in 1 .. Len(b) : new[Len(a) + n] = b[n]
      <3>1. a \in Seq(Items) /\ b \in Seq(Items)
        BY <1>2, <1>3
      <3> QED
        BY <3>1, Joined
    <2>2. Len(a) = p /\ Len(b) = q /\ p + q = l - 1
      BY <1>1, <1>2, <1>3
    <2> HIDE DEF p, q, new
    <2>3. /\ new \in Seq(Items) /\ Len(new) = l - 1
          /\ \A n \in 1 .. p : new[n] = a[n]
          /\ \A n \in 1 .. q : new[p + n] = b[n]
      BY <2>1, <2>2
    <2> QED
      BY <1>2, <1>3, <2>3 DEF p, q
  <1> HIDE DEF new
  <1>5. \A n \in 1 .. l - 1 : \/ n < k /\ new[n] = seq[n]
                              \/ n >= k /\ n + 1 \in 1 .. l /\ new[n] = seq[n + 1]
    <2> TAKE n \in 1 .. l - 1
    <2>1. CASE n < k
      BY <1>1, <1>4, <2>1
    <2>2. CASE n >= k
      <3> DEFINE m == n - k + 1
      <3>1. m \in 1 .. l - k /\ k - 1 + m = n /\ k + m = n + 1
        BY <1>1, <2>2
      <3> HIDE DEF m
      <3>2. new[k - 1 + m] = seq[k + m]
        BY <1>4, <3>1
      <3> QED
        BY <1>1, <2>2, <3>1, <3>2
    <2> QED
      BY <1>1, <2>1, <2>2
  <1> QED
    BY <1>4, <1>5 DEF Without, new, a, b

----------------------------------------------------------------------------
(* Data, cas ids and the order of the list *)

\* Data and cas ids keep their types.
Worded(c) ==
    /\ c.data \in [Items -> Seq(0 .. Base)] /\ c.cas_id \in [Items -> Nat]
    /\ \A i \in Items : c.cas_id[i] <= c.last_cas
    /\ c.halted \in Stops

\* The item is as it was.
Untouched(c, d, i) == d.data[i] = c.data[i] /\ d.cas_id[i] = c.cas_id[i]

\* From c to d only the chunk new, if it is one, was taken from the free ones, and only j,
\* if it is one, was linked or changed, and got the next cas id.
Stamps(c, d, new, j) ==
    /\ Worded(c) => Worded(d)
    /\ \A i \in Items \ {new} : i \in c.free => i \in d.free
    /\ \A i \in Items \ {j} : i \in d.linked => i \in c.linked /\ i # new
    /\ \A i \in Items \ {new, j} : Untouched(c, d, i) \/ i \in d.free
    /\ \A i \in Items \ {new, j} : d.cas_id[i] \in {c.cas_id[i], 0}
    /\ IF j = Null THEN d.last_cas = c.last_cas
       ELSE /\ new \in {Null, j}
            /\ d.last_cas = c.last_cas + 1 /\ d.cas_id[j] = d.last_cas

\* The list goes from the item that was used last to the one that was used first.
Ordered(c) ==
    /\ \A m, n \in 1 .. Len(c.lru) : m < n => c.time[c.lru[m]] >= c.time[c.lru[n]]
    /\ \A i \in c.linked : c.time[i] <= current_time

Tidy(c) == Trim(c) /\ Ordered(c)

\* One after the other.
LEMMA StampsThen ==
    ASSUME NEW b, NEW c, NEW d, NEW x, NEW y, NEW z, NEW j,
           x \in {Null, z}, y \in {Null, z}, z \in {x, y}, j # Null => z \in {Null, j},
           Stamps(b, c, x, Null), Stamps(c, d, y, j)
    PROVE  Stamps(b, d, z, j)
  <1>1. Null \notin Items
    BY ItemsAssumption
  <1>2. Worded(b) => Worded(d)
    BY DEF Stamps
  <1>3. \A i \in Items \ {z} : i \in b.free => i \in d.free
    BY <1>1 DEF Stamps
  <1>4. \A i \in Items \ {j} : i \in d.linked => i \in b.linked /\ i # z
    BY <1>1 DEF Stamps
  <1>5. \A i \in Items \ {z, j} : Untouched(b, d, i) \/ i \in d.free
    BY <1>1 DEF Stamps, Untouched
  <1>6. \A i \in Items \ {z, j} : d.cas_id[i] \in {b.cas_id[i], 0}
    BY <1>1 DEF Stamps
  <1>7. IF j = Null THEN d.last_cas = b.last_cas
        ELSE /\ z \in {Null, j}
             /\ d.last_cas = b.last_cas + 1 /\ d.cas_id[j] = d.last_cas
    BY DEF Stamps
  <1> QED
    BY <1>2, <1>3, <1>4, <1>5, <1>6, <1>7 DEF Stamps

\* Nothing that is linked changes.
Spares(c, d) ==
    /\ Stamps(c, d, Null, Null)
    /\ d.linked = c.linked /\ \A i \in c.linked : Untouched(c, d, i)

\* ... so it can also come last.
LEMMA SparesThen ==
    ASSUME NEW b, NEW c, NEW d, NEW x, NEW j \in Items \cup {Null},
           j # Null => j \in c.linked, Stamps(b, c, x, j), Spares(c, d)
    PROVE  Stamps(b, d, x, j)
  <1>1. Null \notin Items
    BY ItemsAssumption
  <1>2. Worded(b) => Worded(d)
    BY DEF Stamps, Spares
  <1>3. \A i \in Items \ {x} : i \in b.free => i \in d.free
    BY <1>1 DEF Stamps, Spares
  <1>4. \A i \in Items \ {j} : i \in d.linked => i \in b.linked /\ i # x
    BY <1>1 DEF Stamps, Spares
  <1>5. \A i \in Items \ {x, j} : Untouched(b, d, i) \/ i \in d.free
    BY <1>1 DEF Stamps, Spares, Untouched
  <1>6. \A i \in Items \ {x, j} : d.cas_id[i] \in {b.cas_id[i], 0}
    BY <1>1 DEF Stamps, Spares
  <1>7. IF j = Null THEN d.last_cas = b.last_cas
        ELSE /\ x \in {Null, j}
             /\ d.last_cas = b.last_cas + 1 /\ d.cas_id[j] = d.last_cas
    BY DEF Stamps, Spares, Untouched
  <1> QED
    BY <1>2, <1>3, <1>4, <1>5, <1>6, <1>7 DEF Stamps

\* Other references, another order, or a failed assertion.
LEMMA StampsAside ==
    ASSUME NEW c, NEW d, c.halted \in Stops => d.halted \in Stops,
           d.free = c.free, d.linked = c.linked, d.data = c.data, d.cas_id = c.cas_id,
           d.last_cas = c.last_cas
    PROVE  Spares(c, d)
  <1>1. Stamps(c, d, Null, Null)
    BY ItemsAssumption DEF Stamps, Worded, Untouched
  <1> QED
    BY <1>1 DEF Spares, Untouched

\* Nothing done.
LEMMA StampsNothing ==
    ASSUME NEW c
    PROVE  Stamps(c, c, Null, Null) /\ Spares(c, c)
  BY StampsAside DEF Spares

\* The list and the times as they were.
LEMMA TidyAside ==
    ASSUME NEW c, NEW d, Tidy(c), d.lru = c.lru, d.linked = c.linked, d.free \subseteq c.free,
           \A i \in Items \cap c.linked : d.time[i] = c.time[i]
    PROVE  Tidy(d)
  <1>1. \A n \in 1 .. Len(c.lru) : c.lru[n] \in Items \cap c.linked
    BY DEF Tidy, Trim, Lists
  <1>2. Trim(d)
    BY DEF Tidy, Trim
  <1>3. \A m, n \in 1 .. Len(d.lru) : m < n => d.time[d.lru[m]] >= d.time[d.lru[n]]
    BY <1>1 DEF Tidy, Ordered
  <1>4. \A i \in c.linked : i \in Items
    BY DEF Tidy, Trim, Lists
  <1>5. \A i \in d.linked : d.time[i] <= current_time
    BY <1>4 DEF Tidy, Ordered
  <1> QED
    BY <1>2, <1>3, <1>5 DEF Tidy, Ordered

\* An assertion.
LEMMA ExpectStamps ==
    ASSUME NEW c, Tabled(c), NEW holds, NEW name, name # "no", name \in Stops,
           NEW e, e = Expect(c, holds, name)
    PROVE  Spares(c, e) /\ (Tidy(c) => Tidy(e))
  <1>1. \A f \in Fields \ {"halted"} : e[f] = c[f]
    BY ExpectDoes
  <1>2. /\ e.free = c.free /\ e.linked = c.linked /\ e.data = c.data /\ e.cas_id = c.cas_id
        /\ e.last_cas = c.last_cas /\ e.lru = c.lru /\ e.time = c.time
    BY <1>1 DEF Fields
  <1>3. c.halted \in Stops => e.halted \in Stops
    <2>1. e.halted \in {c.halted, name}
      BY DEF Expect, Tabled, Shape, Fields
    <2> QED
      BY <2>1
  <1>4. Spares(c, e)
    BY <1>2, <1>3, StampsAside
  <1>5. Tidy(c) => Tidy(e)
    BY <1>2, TidyAside
  <1> QED
    BY <1>4, <1>5

\* item_free of a chunk that is not linked.
LEMMA FreeStamps ==
    ASSUME NEW c, Tabled(c), NEW i \in Items, i \notin c.linked
    PROVE  Spares(c, item_free(c, i)) /\ (Tidy(c) => Tidy(item_free(c, i)))
  <1> DEFINE ends == {c.lru[n] : n \in DOMAIN c.lru \cap {1, Len(c.lru)}}
             holds == i \notin c.linked \cup ends /\ c.refcount[i] = 0
             d == Expect(c, holds, "item_free")
             e == item_free(c, i)
             none == <<>>
  <1>1. e = [d EXCEPT !.free = @ \cup {i}, !.key[i] = Null, !.data[i] = none,
                      !.time[i] = 0, !.cas_id[i] = 0]
    BY DEF item_free
  <1>2. /\ Does(c, d, Null, Null) /\ Spares(c, d) /\ (Tidy(c) => Tidy(d))
        /\ \A f \in Fields \ {"halted"} : d[f] = c[f]
    <2>1. "item_free" # "no"
      OBVIOUS
    <2>2. "item_free" \in Stops
      BY DEF Stops
    <2> HIDE DEF holds
    <2> QED
      BY <2>1, <2>2, ExpectDoes, ExpectStamps
  <1>0. none \in Seq(0 .. Base)
    OBVIOUS
  <1> HIDE DEF d, e, none
  <1>3. Tabled(d) /\ d.linked = c.linked /\ d.free = c.free /\ d.lru = c.lru /\ d.time = c.time
        /\ d.data = c.data /\ d.cas_id = c.cas_id /\ d.last_cas = c.last_cas
    BY <1>2 DEF Does, Fields
  <1>4. /\ Shape(e) /\ e.halted = d.halted
        /\ e.free = d.free \cup {i} /\ e.linked = d.linked
        /\ e.time = [d.time EXCEPT ![i] = 0]
        /\ e.lru = d.lru /\ e.last_cas = d.last_cas
        /\ e.data = [d.data EXCEPT ![i] = none] /\ e.cas_id = [d.cas_id EXCEPT ![i] = 0]
    BY <1>1, <1>3 DEF Tabled, Shape, Fields
  <1>5. \A j \in Items \ {i} : Untouched(c, e, j) /\ e.time[j] = d.time[j]
    BY <1>3, <1>4 DEF Tabled, Typed, Untouched
  <1>6. e.cas_id[i] = 0
    BY <1>3, <1>4 DEF Tabled
  <1>7. Worded(c) => Worded(e)
    <2> HAVE Worded(c)
    <2>1. Worded(d)
      BY <1>2 DEF Spares, Stamps
    <2>2. e.data \in [Items -> Seq(0 .. Base)] /\ e.cas_id \in [Items -> Nat] /\ e.halted \in Stops
      BY <1>0, <1>4, <2>1 DEF Worded
    <2>3. e.last_cas \in Nat /\ \A j \in Items : e.cas_id[j] <= e.last_cas
      BY <1>3, <1>4, <1>5, <1>6, <2>1 DEF Worded, Untouched, Tabled
    <2> QED
      BY <2>2, <2>3 DEF Worded
  <1>8. Stamps(c, e, Null, Null)
    <2>1. \A j \in Items : (j \in c.free => j \in e.free) /\ (j \in e.linked => j \in c.linked /\ j # Null)
      BY <1>3, <1>4, ItemsAssumption
    <2>2. \A j \in Items : Untouched(c, e, j) \/ j \in e.free
      BY <1>4, <1>5
    <2>3. \A j \in Items : e.cas_id[j] \in {c.cas_id[j], 0}
      BY <1>5, <1>6 DEF Untouched
    <2>4. e.last_cas = c.last_cas
      BY <1>3, <1>4
    <2> QED
      BY <1>7, <2>1, <2>2, <2>3, <2>4 DEF Stamps
  <1>9. Spares(c, e)
    BY <1>3, <1>4, <1>5, <1>8 DEF Spares, Tabled, Typed
  <1>10. Tidy(c) => Tidy(e)
    <2> HAVE Tidy(c)
    <2>1. Lists(e.lru, e.linked) /\ e.free \cap e.linked = {} /\ Tidy(d)
      BY <1>2, <1>3, <1>4 DEF Tidy, Trim
    <2>2. \A n \in 1 .. Len(e.lru) : e.lru[n] \in Items \ {i}
      BY <1>3, <1>4, <2>1 DEF Lists
    <2>3. \A m, n \in 1 .. Len(e.lru) : m < n => e.time[e.lru[m]] >= e.time[e.lru[n]]
      BY <1>4, <1>5, <2>1, <2>2 DEF Tidy, Ordered
    <2>4. \A j \in e.linked : e.time[j] <= current_time
      BY <1>3, <1>4, <1>5, <2>1 DEF Tidy, Ordered, Tabled, Typed
    <2> QED
      BY <2>1, <2>3, <2>4 DEF Tidy, Trim, Ordered
  <1> QED
    BY <1>9, <1>10 DEF e

\* The order stays.
LEMMA WithoutOrder ==
    ASSUME NEW seq \in Seq(Items), NEW k \in 1 .. Len(seq), NEW new, Without(seq, k, new),
           NEW time, \A m, n \in 1 .. Len(seq) : m < n => time[seq[m]] >= time[seq[n]],
           NEW m \in 1 .. Len(new), NEW n \in 1 .. Len(new), m < n
    PROVE  time[new[m]] >= time[new[n]]
  <1>1. Len(seq) \in Nat /\ Len(new) = Len(seq) - 1
    BY DEF Without
  <1>2. m \in 1 .. Len(seq) /\ n \in 1 .. Len(seq)
    BY <1>1
  <1>3. \/ m < k /\ new[m] = seq[m]
        \/ m >= k /\ m + 1 \in 1 .. Len(seq) /\ new[m] = seq[m + 1]
    BY DEF Without
  <1>4. \/ n < k /\ new[n] = seq[n]
        \/ n >= k /\ n + 1 \in 1 .. Len(seq) /\ new[n] = seq[n + 1]
    BY DEF Without
  <1>5. \E x, y \in 1 .. Len(seq) : x < y /\ new[m] = seq[x] /\ new[n] = seq[y]
    BY <1>1, <1>2, <1>3, <1>4
  <1> QED
    BY <1>5

\* item_unlink_q: the item loses its one place.
LEMMA UnlinksPlace ==
    ASSUME NEW c, Shape(c), NEW S, Lists(c.lru, S), NEW i \in S
    PROVE  \E k \in 1 .. Len(c.lru) : Without(c.lru, k, unlink_q(c, i).lru)
  <1> DEFINE n == CHOOSE n \in DOMAIN c.lru : c.lru[n] = i
             l == SubSeq(c.lru, 1, n - 1) \o SubSeq(c.lru, n + 1, Len(c.lru))
             e == [c EXCEPT !.lru = l]
  <1>1. unlink_q(c, i) = e
    BY DEF unlink_q, Shape, Fields
  <1>2. n \in 1 .. Len(c.lru) /\ c.lru \in Seq(Items)
    <2>1. DOMAIN c.lru = 1 .. Len(c.lru)
      BY DEF Lists
    <2>2. \E m \in DOMAIN c.lru : c.lru[m] = i
      BY <2>1 DEF Lists
    <2>3. n \in DOMAIN c.lru
      BY <2>2
    <2> HIDE DEF n
    <2> QED
      BY <2>1, <2>3 DEF Lists
  <1> HIDE DEF n
  <1>3. Without(c.lru, n, l)
    BY <1>2, PlaceLess
  <1> HIDE DEF l
  <1>4. e.lru = l
    BY DEF Shape, Fields
  <1> HIDE DEF e
  <1> QED
    BY <1>1, <1>2, <1>3, <1>4

\* do_item_unlink.
LEMMA UnlinkStamps ==
    ASSUME NEW c, Tabled(c), NEW i
    PROVE  /\ Stamps(c, do_item_unlink(c, i), Null, Null)
           /\ Tidy(c) => Tidy(do_item_unlink(c, i))
  <1> DEFINE e == do_item_unlink(c, i)
  <1>1. CASE i \notin c.linked
    <2>1. e = c
      BY <1>1 DEF do_item_unlink
    <2> QED
      BY <2>1, StampsNothing
  <1>2. CASE i \in c.linked
    <2> DEFINE k == c.key[i]
               holds == c.table[k] # Null
               a == Expect(c, holds, "assoc_delete")
               x == [a EXCEPT !.linked = @ \ {i}, !.table[k] = Null]
               b == unlink_q(x, i)
    <2>1. e = IF c.refcount[i] = 0 THEN item_free(b, i) ELSE b
      BY <1>2 DEF do_item_unlink
    <2>0. i \in Items /\ e \in {b, item_free(b, i)}
      BY <1>2, <2>1 DEF Tabled, Typed
    <2>2. /\ Does(c, a, Null, Null) /\ Spares(c, a) /\ (Tidy(c) => Tidy(a))
          /\ \A f \in Fields \ {"halted"} : a[f] = c[f]
      <3>1. "assoc_delete" # "no"
        OBVIOUS
      <3>2. "assoc_delete" \in Stops
        BY DEF Stops
      <3> HIDE DEF holds
      <3> QED
        BY <3>1, <3>2, ExpectDoes, ExpectStamps
    <2> HIDE DEF a, holds
    <2>3. Tabled(a) /\ Shape(a) /\ a.linked = c.linked
      BY <2>2 DEF Does, Tabled, Fields
    <2>4. /\ Shape(x) /\ x.linked = a.linked \ {i} /\ x.table = [a.table EXCEPT ![k] = Null]
          /\ \A f \in Fields \ {"linked", "table"} : x[f] = a[f]
      BY <2>3 DEF Shape, Fields
    <2> HIDE DEF x
    <2>5. /\ Shape(b) /\ \A f \in Fields \ {"lru"} : b[f] = x[f]
          /\ \A S : Lists(x.lru, S) /\ i \in S => Lists(b.lru, S \ {i})
      BY <2>4, UnlinksQ
    <2>6. /\ b.linked = a.linked \ {i} /\ b.table = [a.table EXCEPT ![k] = Null]
          /\ b.free = a.free /\ b.deleted = a.deleted /\ b.refcount = a.refcount
          /\ b.key = a.key /\ b.data = a.data /\ b.time = a.time /\ b.exptime = a.exptime
          /\ b.cas_id = a.cas_id /\ b.last_cas = a.last_cas /\ b.halted = a.halted
          /\ x.lru = a.lru
      <3> HIDE DEF b
      <3> QED
        BY <2>4, <2>5 DEF Fields
    <2>7. Tidy(a) => Tidy(b)
      <3> HAVE Tidy(a)
      <3>1. Lists(x.lru, a.linked) /\ i \in a.linked
        BY <1>2, <2>3, <2>6 DEF Tidy, Trim
      <3>2. PICK n \in 1 .. Len(x.lru) : Without(x.lru, n, b.lru)
        BY <2>4, <3>1, UnlinksPlace
      <3> HIDE DEF b
      <3>3. Trim(b)
        <4>1. Lists(b.lru, b.linked)
          BY <2>5, <2>6, <3>1
        <4> QED
          BY <2>6, <4>1 DEF Tidy, Trim
      <3>4. ASSUME NEW m \in 1 .. Len(b.lru), NEW h \in 1 .. Len(b.lru), m < h
            PROVE  b.time[b.lru[m]] >= b.time[b.lru[h]]
        <4>1. x.lru \in Seq(Items)
          BY <3>1 DEF Lists
        <4>2. \A p, q \in 1 .. Len(x.lru) : p < q => b.time[x.lru[p]] >= b.time[x.lru[q]]
          BY <2>6 DEF Tidy, Ordered
        <4> QED
          BY <3>2, <3>4, <4>1, <4>2, WithoutOrder
      <3> QED
        BY <2>6, <3>3, <3>4 DEF Tidy, Ordered
    <2> HIDE DEF b, e, k
    <2>8. Tabled(b)
      <3>1. b.table \in [Keys -> Items \cup {Null}]
        BY <2>3, <2>6 DEF Tabled, Typed
      <3>2. Typed(b)
        BY <2>3, <2>6, <3>1 DEF Tabled, Typed
      <3>3. \A j \in Keys : b.table[j] # Null => b.table[j] = a.table[j] /\ j # k
        BY <2>3, <2>6 DEF Tabled, Typed
      <3>4. \A j \in Keys : b.table[j] # Null => b.table[j] \in b.linked /\ b.key[b.table[j]] = j
        <4>1. \A j \in Keys : a.table[j] # Null => a.table[j] \in a.linked /\ a.key[a.table[j]] = j
          BY <2>3 DEF Tabled
        <4>2. k = a.key[i]
          BY <2>2 DEF Fields, k
        <4> QED
          BY <2>6, <3>3, <4>1, <4>2
      <3> QED
        BY <2>3, <2>5, <2>6, <3>2, <3>4 DEF Tabled
    <2>9. Stamps(a, b, Null, Null)
      BY <2>6, ItemsAssumption DEF Stamps, Worded, Untouched
    <2>10. Stamps(c, b, Null, Null)
      BY <2>2, <2>9, StampsThen DEF Spares
    <2>11. /\ Spares(b, item_free(b, i)) /\ (Tidy(b) => Tidy(item_free(b, i)))
      BY <2>0, <2>6, <2>8, FreeStamps
    <2>12. Stamps(c, item_free(b, i), Null, Null)
      BY <2>10, <2>11, StampsThen DEF Spares
    <2> QED
      BY <2>0, <2>2, <2>7, <2>10, <2>11, <2>12 DEF e
  <1> QED
    BY <1>1, <1>2

\* A cache whose list is a list, and ordered while the server runs.
Listed(c) == c.lru \in Seq(Items) /\ (c.halted = "no" => Tidy(c))

\* An ordered list is a list.
LEMMA TidyListed ==
    ASSUME NEW c, Tidy(c)
    PROVE  Listed(c)
  BY DEF Tidy, Trim, Lists, Listed

\* do_item_remove: the list stays.
LEMMA RemoveStamps ==
    ASSUME NEW c, Tabled(c), NEW i \in Items
    PROVE  LET e == do_item_remove(c, i)
           IN Spares(c, e) /\ (Tidy(c) => Tidy(e)) /\ (Listed(c) => Listed(e)) /\ Tabled(e)
  <1> DEFINE out == i \notin c.free
             a == Expect(c, out, "do_item_remove")
             n == IF c.refcount[i] = 0 THEN 0 ELSE c.refcount[i] - 1
             held == i \notin c.deleted \/ n # 0
             x == [a EXCEPT !.refcount[i] = n]
             name == "do_item_remove deleted"
             b == Expect(x, held, name)
             e == do_item_remove(c, i)
  <1>1. e = IF n = 0 /\ i \notin c.linked THEN item_free(b, i) ELSE b
    BY DEF do_item_remove
  <1>2. /\ Does(c, a, Null, Null) /\ Shape(a) /\ \A f \in Fields \ {"halted"} : a[f] = c[f]
        /\ Spares(c, a) /\ (Tidy(c) => Tidy(a)) /\ (a.halted = "no" => a = c)
    <2>1. "do_item_remove" # "no"
      OBVIOUS
    <2>2. "do_item_remove" \in Stops
      BY DEF Stops
    <2> HIDE DEF out
    <2> QED
      BY <2>1, <2>2, ExpectDoes, ExpectStamps
  <1>3. n \in Nat
    <2>1. c.refcount[i] \in Nat
      BY DEF Tabled, Typed
    <2> QED
      BY <2>1
  <1> HIDE DEF a, n, held
  <1>4. Tabled(a) /\ a.linked = c.linked /\ a.lru = c.lru
    BY <1>2 DEF Does, Fields
  <1>5. /\ Shape(x) /\ x.refcount = [a.refcount EXCEPT ![i] = n]
        /\ \A f \in Fields \ {"refcount"} : x[f] = a[f]
    BY <1>2 DEF Shape, Fields
  <1> HIDE DEF x
  <1>6. /\ x.free = a.free /\ x.linked = a.linked /\ x.data = a.data /\ x.cas_id = a.cas_id
        /\ x.last_cas = a.last_cas /\ x.lru = a.lru /\ x.time = a.time /\ x.halted = a.halted
    BY <1>5 DEF Fields
  <1>7. Spares(a, x) /\ (Tidy(a) => Tidy(x))
    BY <1>6, StampsAside, TidyAside
  <1>8. Tabled(x)
    <2>1. x.refcount \in [Items -> Nat]
      BY <1>3, <1>4, <1>5 DEF Tabled, Typed
    <2>2. \A f \in Fields \ Aside : x[f] = a[f]
      BY <1>5 DEF Fields, Aside
    <2> QED
      BY <1>4, <1>5, <2>1, <2>2, DoesAside
  <1>9. /\ Does(x, b, Null, Null) /\ Spares(x, b) /\ (Tidy(x) => Tidy(b))
        /\ \A f \in Fields \ {"halted"} : b[f] = x[f]
        /\ (b.halted = "no" => b = x)
    <2>1. name # "no"
      OBVIOUS
    <2>2. name \in Stops
      BY DEF Stops
    <2> HIDE DEF name
    <2> QED
      BY <1>8, <2>1, <2>2, ExpectDoes, ExpectStamps
  <1> HIDE DEF b, e
  <1>10. Tabled(b) /\ b.linked = c.linked /\ b.lru = c.lru
    BY <1>4, <1>6, <1>9 DEF Does, Fields
  <1>11. Spares(c, b)
    <2>1. Stamps(c, x, Null, Null)
      BY <1>2, <1>7, StampsThen DEF Spares
    <2>2. Stamps(c, b, Null, Null)
      BY <1>9, <2>1, StampsThen DEF Spares
    <2> QED
      BY <1>2, <1>7, <1>9, <2>2 DEF Spares, Untouched
  <1>12. i \notin c.linked =>
             /\ Spares(b, item_free(b, i)) /\ (Tidy(b) => Tidy(item_free(b, i)))
             /\ Does(b, item_free(b, i), Null, Null)
             /\ Freed(b, i, item_free(b, i))
    <2>1. Shape(b)
      BY <1>10 DEF Tabled
    <2> QED
      BY <1>10, <2>1, FreeStamps, FreeDoes, Frees
  <1>13. i \notin c.linked => Spares(c, item_free(b, i))
    <2> HAVE i \notin c.linked
    <2>1. Stamps(c, item_free(b, i), Null, Null)
      BY <1>11, <1>12, StampsThen DEF Spares
    <2> QED
      BY <1>11, <1>12, <2>1 DEF Spares, Untouched
  <1>14. Tidy(c) => Tidy(b)
    BY <1>2, <1>7, <1>9
  <1>15. Spares(c, e) /\ (Tidy(c) => Tidy(e)) /\ Tabled(e) /\ e.lru = c.lru
    BY <1>1, <1>10, <1>11, <1>12, <1>13, <1>14 DEF Does, Freed
  <1>16. e.halted = "no" => c.halted = "no"
    <2>1. b.halted = "no" => c.halted = "no"
      BY <1>2, <1>6, <1>9
    <2> QED
      BY <1>1, <1>12, <2>1 DEF Freed
  <1>17. Listed(c) => Listed(e)
    BY <1>15, <1>16 DEF Listed
  <1> QED
    BY <1>15, <1>17 DEF e

\* A lookup holds what it returns.
LEMMA HoldStamps ==
    ASSUME NEW c, Tabled(c), NEW i \in Items
    PROVE  Spares(c, Hold(c, i)) /\ (Tidy(c) => Tidy(Hold(c, i)))
  <1> DEFINE e == Hold(c, i)
  <1>1. \A f \in Fields \ {"refcount"} : e[f] = c[f]
    BY HoldDoes
  <1> HIDE DEF e
  <1>2. /\ e.free = c.free /\ e.linked = c.linked /\ e.data = c.data /\ e.cas_id = c.cas_id
        /\ e.last_cas = c.last_cas /\ e.lru = c.lru /\ e.time = c.time /\ e.halted = c.halted
    BY <1>1 DEF Fields
  <1> QED
    BY <1>2, StampsAside, TidyAside DEF e

\* A new head that was used last.
LEMMA PushOrder ==
    ASSUME NEW seq \in Seq(Items), NEW i \in Items, NEW time,
           \A m, n \in 1 .. Len(seq) : m < n => time[seq[m]] >= time[seq[n]],
           \A n \in 1 .. Len(seq) : time[i] >= time[seq[n]],
           NEW m \in 1 .. Len(<<i>> \o seq), NEW n \in 1 .. Len(<<i>> \o seq), m < n
    PROVE  time[(<<i>> \o seq)[m]] >= time[(<<i>> \o seq)[n]]
  <1> DEFINE new == <<i>> \o seq
             l == Len(seq)
  <1>1. l \in Nat /\ Len(new) = l + 1 /\ new[1] = i /\ \A x \in 1 .. l : new[x + 1] = seq[x]
    OBVIOUS
  <1> HIDE DEF new
  <1>2. m \in 1 .. l + 1 /\ n - 1 \in 1 .. l /\ n = (n - 1) + 1
    BY <1>1 DEF new
  <1>3. new[n] = seq[n - 1]
    BY <1>1, <1>2
  <1>4. CASE m = 1
    BY <1>1, <1>2, <1>3, <1>4 DEF new
  <1>5. CASE m # 1
    <2>1. m - 1 \in 1 .. l /\ m = (m - 1) + 1 /\ m - 1 < n - 1
      BY <1>1, <1>2, <1>5
    <2>2. new[m] = seq[m - 1]
      BY <1>1, <2>1
    <2> QED
      BY <1>2, <1>3, <2>1, <2>2 DEF new
  <1> QED
    BY <1>4, <1>5

\* An item at the head, used now.
LEMMA HeadOrdered ==
    ASSUME current_time \in Nat, NEW seq, NEW S, Lists(seq, S), NEW i \in Items, i \notin S,
           NEW time, time[i] = current_time, \A j \in S : time[j] <= current_time,
           \A m, n \in 1 .. Len(seq) : m < n => time[seq[m]] >= time[seq[n]],
           NEW e, e.lru = <<i>> \o seq, e.linked = S \cup {i}, e.time = time
    PROVE  Ordered(e) /\ Lists(e.lru, e.linked)
  <1>1. Lists(<<i>> \o seq, S \cup {i})
    BY ListsPush
  <1>2. seq \in Seq(Items) /\ \A n \in 1 .. Len(seq) : time[i] >= time[seq[n]]
    <2>1. seq \in Seq(Items) /\ \A n \in 1 .. Len(seq) : time[seq[n]] <= current_time
      BY DEF Lists
    <2>2. \A j \in S : current_time >= time[j]
      <3> TAKE j \in S
      <3>1. time[j] <= current_time
        OBVIOUS
      <3> QED
        BY <3>1
    <2> QED
      BY <2>1, <2>2 DEF Lists
  <1>3. \A m, n \in 1 .. Len(<<i>> \o seq) :
            m < n => time[(<<i>> \o seq)[m]] >= time[(<<i>> \o seq)[n]]
    BY <1>2, PushOrder
  <1>4. \A j \in S \cup {i} : time[j] <= current_time
    OBVIOUS
  <1> QED
    BY <1>1, <1>3, <1>4 DEF Ordered

\* do_item_update.
LEMMA UpdateStamps ==
    ASSUME current_time \in Nat, NEW c, Tabled(c), NEW i \in Items
    PROVE  Spares(c, do_item_update(c, i)) /\ (Tidy(c) => Tidy(do_item_update(c, i)))
  <1> DEFINE out == i \notin c.free
             a == Expect(c, out, "do_item_update")
             b == unlink_q(a, i)
             x == [b EXCEPT !.time[i] = current_time]
             e == do_item_update(c, i)
  <1>1. CASE ~long_unused(c, i)
    <2>1. e = c
      BY <1>1 DEF do_item_update
    <2> QED
      BY <2>1, StampsNothing
  <1>2. CASE long_unused(c, i)
    <2>1. e = IF i \in c.linked THEN link_q(x, i) ELSE a
      BY <1>2 DEF do_item_update
    <2>2. /\ Does(c, a, Null, Null) /\ Shape(a) /\ \A f \in Fields \ {"halted"} : a[f] = c[f]
          /\ Spares(c, a) /\ (Tidy(c) => Tidy(a))
      <3>1. "do_item_update" # "no"
        OBVIOUS
      <3>2. "do_item_update" \in Stops
        BY DEF Stops
      <3> HIDE DEF out
      <3> QED
        BY <3>1, <3>2, ExpectDoes, ExpectStamps
    <2> HIDE DEF a
    <2>3. CASE i \notin c.linked
      BY <2>1, <2>2, <2>3
    <2>4. CASE i \in c.linked
      <3>0. Tabled(a) /\ a.linked = c.linked
        BY <2>2 DEF Does, Fields
      <3>1. /\ Shape(b) /\ \A f \in Fields \ {"lru"} : b[f] = a[f]
            /\ \A S : Lists(a.lru, S) /\ i \in S => Lists(b.lru, S \ {i})
        BY <2>2, UnlinksQ
      <3>5. Tidy(a) => /\ Lists(b.lru, a.linked \ {i})
                       /\ \A m, n \in 1 .. Len(b.lru) : m < n => a.time[b.lru[m]] >= a.time[b.lru[n]]
        <4> HAVE Tidy(a)
        <4>1. Lists(a.lru, a.linked) /\ a.lru \in Seq(Items)
          BY DEF Tidy, Trim, Lists
        <4>2. PICK k \in 1 .. Len(a.lru) : Without(a.lru, k, b.lru)
          BY <2>2, <2>4, <3>0, <4>1, UnlinksPlace
        <4>3. Lists(b.lru, a.linked \ {i})
          BY <2>4, <3>0, <3>1, <4>1
        <4> HIDE DEF b
        <4>4. \A m, n \in 1 .. Len(a.lru) : m < n => a.time[a.lru[m]] >= a.time[a.lru[n]]
          BY DEF Tidy, Ordered
        <4>5. ASSUME NEW m \in 1 .. Len(b.lru), NEW n \in 1 .. Len(b.lru), m < n
              PROVE  a.time[b.lru[m]] >= a.time[b.lru[n]]
          BY <4>1, <4>2, <4>4, <4>5, WithoutOrder
        <4> QED
          BY <4>3, <4>5
      <3> HIDE DEF b
      <3>2. /\ Shape(x) /\ x.time = [b.time EXCEPT ![i] = current_time]
            /\ \A f \in Fields \ {"time"} : x[f] = b[f]
        BY <3>1 DEF Shape, Fields
      <3> HIDE DEF x, e
      <3>3. Shape(e) /\ (\A f \in Fields \ {"lru"} : e[f] = x[f]) /\ e.lru = <<i>> \o x.lru
        <4>1. e = link_q(x, i)
          BY <2>1, <2>4
        <4> QED
          BY <3>2, <4>1, LinksQ
      <3>4. /\ e.linked = a.linked /\ e.time = [a.time EXCEPT ![i] = current_time]
            /\ e.free = a.free /\ e.data = a.data
            /\ e.cas_id = a.cas_id /\ e.last_cas = a.last_cas
            /\ e.halted = a.halted /\ e.lru = <<i>> \o b.lru
        BY <3>1, <3>2, <3>3 DEF Fields
      <3>6. Spares(a, e)
        BY <3>4, StampsAside
      <3>7. Tidy(a) => Tidy(e)
        <4> HAVE Tidy(a)
        <4>1. a.time \in [Items -> Nat] /\ a.linked \subseteq Items
          BY <3>0 DEF Tabled, Typed
        <4>2. e.time[i] = current_time /\ \A j \in Items \ {i} : e.time[j] = a.time[j]
          BY <3>4, <4>1
        <4>3. \A j \in a.linked \ {i} : e.time[j] <= current_time
          BY <4>1, <4>2 DEF Tidy, Ordered
        <4>4. \A n \in 1 .. Len(b.lru) : b.lru[n] \in Items \ {i}
          BY <3>5, <4>1 DEF Lists
        <4>5. \A m, n \in 1 .. Len(b.lru) : m < n => e.time[b.lru[m]] >= e.time[b.lru[n]]
          BY <3>5, <4>2, <4>4
        <4>6. Lists(b.lru, a.linked \ {i}) /\ e.linked = (a.linked \ {i}) \cup {i}
          BY <2>4, <3>0, <3>4, <3>5
        <4>7. Ordered(e) /\ Lists(e.lru, e.linked)
          <5> DEFINE S == a.linked \ {i}
                     seq == b.lru
                     time == e.time
          <5>1. i \notin S
            OBVIOUS
          <5>2. /\ Lists(seq, S) /\ time[i] = current_time /\ \A j \in S : time[j] <= current_time
                /\ \A m, n \in 1 .. Len(seq) : m < n => time[seq[m]] >= time[seq[n]]
                /\ e.lru = <<i>> \o seq /\ e.linked = S \cup {i} /\ e.time = time
            BY <3>4, <4>2, <4>3, <4>5, <4>6
          <5> HIDE DEF S, seq, time
          <5> QED
            BY <5>1, <5>2, HeadOrdered
        <4> QED
          BY <3>4, <4>7 DEF Tidy, Trim
      <3>8. Spares(c, e)
        <4>1. Stamps(c, e, Null, Null)
          BY <2>2, <3>6, StampsThen DEF Spares
        <4> QED
          BY <2>2, <3>6, <4>1 DEF Spares, Untouched
      <3> QED
        BY <2>2, <3>7, <3>8 DEF e
    <2> QED
      BY <2>3, <2>4
  <1> QED
    BY <1>1, <1>2

\* do_item_link stamps the item with the next cas id.
LEMMA LinkStamps ==
    ASSUME current_time \in Nat, NEW c, Tabled(c), NEW i \in Items
    PROVE  /\ Stamps(c, do_item_link(c, i), Null, i) /\ i \in do_item_link(c, i).linked
           /\ Tidy(c) => Listed(do_item_link(c, i))
  <1> DEFINE k == c.key[i]
             out == i \notin c.linked \cup c.free
             none == c.table[k] = Null
             a == Expect(c, out, "do_item_link")
             b == Expect(a, none, "assoc_insert")
             cas == c.last_cas + 1
             old == b.last_cas + 1
             x == [b EXCEPT !.linked = @ \cup {i}, !.time[i] = current_time,
                            !.table[k] = i, !.last_cas = old, !.cas_id[i] = cas]
             e == do_item_link(c, i)
  <1>1. e = link_q(x, i)
    BY DEF do_item_link
  <1>2. /\ Does(c, a, Null, Null) /\ \A f \in Fields \ {"halted"} : a[f] = c[f]
        /\ Spares(c, a) /\ (a.halted = "no" => a = c /\ out)
    <2>1. "do_item_link" # "no"
      OBVIOUS
    <2>2. "do_item_link" \in Stops
      BY DEF Stops
    <2> HIDE DEF out
    <2> QED
      BY <2>1, <2>2, ExpectDoes, ExpectStamps
  <1> HIDE DEF a, out, none
  <1>3. /\ Does(a, b, Null, Null) /\ Shape(b) /\ \A f \in Fields \ {"halted"} : b[f] = a[f]
        /\ Spares(a, b) /\ (b.halted = "no" => b = a)
    <2>1. "assoc_insert" # "no"
      OBVIOUS
    <2>2. "assoc_insert" \in Stops
      BY DEF Stops
    <2>3. Tabled(a)
      BY <1>2 DEF Does
    <2> QED
      BY <2>1, <2>2, <2>3, ExpectDoes, ExpectStamps
  <1> HIDE DEF b
  <1>4. Stamps(c, b, Null, Null) /\ Tabled(b)
    BY <1>2, <1>3, StampsThen DEF Spares, Does
  <1>5. /\ b.last_cas = c.last_cas /\ b.lru = c.lru /\ b.linked = c.linked /\ b.time = c.time
        /\ b.free = c.free /\ b.cas_id = c.cas_id /\ b.data = c.data
    BY <1>2, <1>3 DEF Fields
  <1>6. cas = b.last_cas + 1 /\ old = b.last_cas + 1
    BY <1>5
  <1> HIDE DEF cas, old, k
  <1>7. /\ Shape(x) /\ x.linked = b.linked \cup {i} /\ x.time = [b.time EXCEPT ![i] = current_time]
        /\ x.cas_id = [b.cas_id EXCEPT ![i] = cas] /\ x.last_cas = old
        /\ x.free = b.free /\ x.lru = b.lru /\ x.halted = b.halted /\ x.data = b.data
    BY <1>3 DEF Shape, Fields
  <1> HIDE DEF x, e
  <1>8. Shape(e) /\ (\A f \in Fields \ {"lru"} : e[f] = x[f]) /\ e.lru = <<i>> \o x.lru
    BY <1>1, <1>7, LinksQ
  <1>9. /\ e.linked = b.linked \cup {i} /\ e.time = [b.time EXCEPT ![i] = current_time]
        /\ e.cas_id = [b.cas_id EXCEPT ![i] = cas] /\ e.last_cas = old
        /\ e.free = b.free /\ e.halted = b.halted /\ e.data = b.data /\ e.lru = <<i>> \o b.lru
    BY <1>7, <1>8 DEF Fields
  <1>10. /\ b.last_cas \in Nat /\ e.last_cas = b.last_cas + 1 /\ e.cas_id[i] = e.last_cas
         /\ \A j \in Items \ {i} : e.cas_id[j] = b.cas_id[j]
    BY <1>4, <1>6, <1>9 DEF Tabled
  <1>11. Stamps(b, e, Null, i)
    <2>1. Worded(b) => Worded(e)
      <3> HAVE Worded(b)
      <3>1. e.cas_id \in [Items -> Nat]
        BY <1>6, <1>9, <1>10 DEF Worded
      <3>2. \A j \in Items : e.cas_id[j] <= e.last_cas
        BY <1>10 DEF Worded
      <3> QED
        BY <1>9, <3>1, <3>2 DEF Worded
    <2>2. i # Null
      BY <1>9, ItemsAssumption
    <2>3. \A j \in Items \ {i} : Untouched(b, e, j)
      BY <1>9, <1>10 DEF Untouched
    <2>4. \A j \in Items \ {i} : j \in e.linked => j \in b.linked /\ j # Null
      BY <1>9, ItemsAssumption
    <2> QED
      BY <1>9, <1>10, <2>1, <2>2, <2>3, <2>4 DEF Stamps
  <1>12. Stamps(c, e, Null, i)
    BY <1>4, <1>11, StampsThen
  <1>13. Tidy(c) => Listed(e)
    <2> HAVE Tidy(c)
    <2>1. Lists(c.lru, c.linked) /\ c.lru \in Seq(Items)
      BY DEF Tidy, Trim, Lists
    <2>2. e.lru \in Seq(Items)
      BY <1>5, <1>9, <2>1
    <2>3. ASSUME e.halted = "no" PROVE Tidy(e)
      <3>1. i \notin c.linked /\ i \notin c.free
        BY <1>2, <1>3, <1>9, <2>3 DEF out
      <3>2. c.time \in [Items -> Nat] /\ c.linked \subseteq Items
        BY DEF Tabled, Typed
      <3>3. e.time[i] = current_time /\ \A j \in Items \ {i} : e.time[j] = c.time[j]
        BY <1>5, <1>9, <3>2
      <3>4. \A n \in 1 .. Len(c.lru) : c.lru[n] \in Items \ {i}
        BY <2>1, <3>1, <3>2 DEF Lists
      <3>5. Ordered(e) /\ Lists(e.lru, e.linked)
        <4> DEFINE S == c.linked
                   seq == c.lru
                   time == e.time
        <4>1. /\ Lists(seq, S) /\ i \notin S /\ time[i] = current_time
              /\ \A j \in S : time[j] <= current_time
              /\ \A m, n \in 1 .. Len(seq) : m < n => time[seq[m]] >= time[seq[n]]
              /\ e.lru = <<i>> \o seq /\ e.linked = S \cup {i} /\ e.time = time
          BY <1>5, <1>9, <2>1, <3>1, <3>2, <3>3, <3>4 DEF Tidy, Ordered
        <4> HIDE DEF S, seq, time
        <4> QED
          BY <4>1, HeadOrdered
      <3>6. e.free \cap e.linked = {}
        BY <1>5, <1>9, <3>1 DEF Tidy, Trim
      <3> QED
        BY <3>5, <3>6 DEF Tidy, Trim
    <2> QED
      BY <2>2, <2>3 DEF Listed
  <1> QED
    BY <1>9, <1>12, <1>13 DEF e

\* do_item_replace.
LEMMA ReplaceStamps ==
    ASSUME current_time \in Nat, NEW c, Tabled(c), NEW i, NEW new \in Items
    PROVE  /\ Stamps(c, do_item_replace(c, i, new), Null, new)
           /\ new \in do_item_replace(c, i, new).linked
           /\ Tidy(c) => Listed(do_item_replace(c, i, new))
  <1> DEFINE out == i \notin c.free
             a == Expect(c, out, "do_item_replace")
             b == do_item_unlink(a, i)
             e == do_item_link(b, new)
  <1>1. e = do_item_replace(c, i, new)
    BY DEF do_item_replace
  <1>2. Does(c, a, Null, Null) /\ Spares(c, a) /\ (Tidy(c) => Tidy(a))
    <2>1. "do_item_replace" # "no"
      OBVIOUS
    <2>2. "do_item_replace" \in Stops
      BY DEF Stops
    <2> HIDE DEF out
    <2> QED
      BY <2>1, <2>2, ExpectDoes, ExpectStamps
  <1> HIDE DEF a
  <1>3. Tabled(a)
    BY <1>2 DEF Does
  <1>4. Does(a, b, Null, Null) /\ Stamps(a, b, Null, Null) /\ (Tidy(a) => Tidy(b))
    BY <1>3, UnlinkDoes, UnlinkStamps
  <1>5. Tabled(b)
    BY <1>4 DEF Does
  <1>6. Stamps(c, b, Null, Null)
    BY <1>2, <1>4, StampsThen DEF Spares
  <1> HIDE DEF b
  <1>7. Stamps(b, e, Null, new) /\ (Tidy(b) => Listed(e)) /\ new \in e.linked
    BY <1>5, LinkStamps
  <1> HIDE DEF e
  <1>8. Stamps(c, e, Null, new)
    BY <1>6, <1>7, StampsThen
  <1> QED
    BY <1>1, <1>2, <1>4, <1>7, <1>8

\* What the lookups leave.
Leads(c, d) == Stamps(c, d, Null, Null) /\ (Tidy(c) => Tidy(d)) /\ Tabled(d)

\* The two lookups of items.c.
LEMMA GetStamps ==
    ASSUME NEW c, Tabled(c), NEW k \in Keys
    PROVE  /\ Leads(c, do_item_get_notedeleted(c, k).c)
           /\ Leads(c, do_item_get_nocheck(c, k).c)
  <1> DEFINE i == c.table[k]
             g == do_item_get_notedeleted(c, k)
             n == do_item_get_nocheck(c, k)
  <1>1. i \in Items \cup {Null}
    BY DEF Tabled, Typed
  <1>2. Leads(c, c)
    BY StampsNothing DEF Leads
  <1>3. i # Null => Leads(c, Hold(c, i))
    BY <1>1, HoldStamps, HoldDoes DEF Leads, Does, Spares
  <1>4. Leads(c, do_item_unlink(c, i))
    BY UnlinkDoes, UnlinkStamps DEF Leads, Does
  <1> HIDE DEF i
  <1>5. Visible(c, k) => i # Null
    BY DEF Visible, i
  <1>6. n.c = IF i = Null THEN c ELSE Hold(c, i)
    BY DEF do_item_get_nocheck, i
  <1>7. g.c = IF Visible(c, k) THEN Hold(c, i)
              ELSE IF i = Null \/ delete_locked(c, k) THEN c ELSE do_item_unlink(c, i)
    BY DEF do_item_get_notedeleted, i
  <1> HIDE DEF g, n
  <1> QED
    BY <1>2, <1>3, <1>4, <1>5, <1>6, <1>7 DEF g, n

\* What room is made.
LEMMA ReclaimStamps ==
    ASSUME NEW c, Tabled(c), Tidy(c)
    PROVE  Leads(c, reclaim(c)) /\ Tidy(reclaim(c))
  <1> DEFINE d == evict(c)
             e == tail_repair(d)
  <1>1. Stamps(c, d, Null, Null) /\ Tidy(d) /\ Tabled(d)
    <2> DEFINE i == LastOf(c, {j \in Items : c.refcount[j] = 0})
    <2>1. d = IF i = Null THEN c ELSE do_item_unlink(c, i)
      BY DEF evict
    <2> HIDE DEF d, i
    <2> QED
      BY <2>1, UnlinkDoes, UnlinkStamps, StampsNothing DEF Does
  <1> HIDE DEF d
  <1>2. Stamps(d, e, Null, Null) /\ Tidy(e) /\ Tabled(e)
    <2> DEFINE items == {j \in Items : /\ d.refcount[j] # 0
                                       /\ d.time[j] + RepairAge < current_time}
               i == LastOf(d, items)
               zero == 0
               b == [d EXCEPT !.refcount[i] = zero]
    <2>1. e = IF i = Null THEN d ELSE do_item_unlink(b, i)
      BY DEF tail_repair
    <2>2. i # Null => i \in items
      <3> HIDE DEF items
      <3> QED
        BY <1>1, LastIn DEF Tidy, Trim
    <2>3. i # Null => i \in Items
      BY <2>2
    <2>4. zero \in Nat
      OBVIOUS
    <2> HIDE DEF i, e, zero
    <2>5. CASE i = Null
      BY <1>1, <2>1, <2>5, StampsNothing
    <2>6. CASE i # Null
      <3>1. /\ Shape(b) /\ b.refcount = [d.refcount EXCEPT ![i] = zero]
            /\ \A f \in Fields \ {"refcount"} : b[f] = d[f]
        BY <1>1 DEF Tabled, Shape, Fields
      <3> HIDE DEF b
      <3>2. b.refcount \in [Items -> Nat]
        <4>1. d.refcount \in [Items -> Nat]
          BY <1>1 DEF Tabled, Typed
        <4> HIDE DEF items
        <4> QED
          BY <2>4, <3>1, <4>1
      <3>3. \A f \in Fields \ Aside : b[f] = d[f]
        BY <3>1 DEF Fields, Aside
      <3>4. Tabled(b)
        BY <1>1, <3>1, <3>2, <3>3, DoesAside
      <3>5. /\ b.free = d.free /\ b.linked = d.linked /\ b.data = d.data /\ b.cas_id = d.cas_id
            /\ b.last_cas = d.last_cas /\ b.lru = d.lru /\ b.time = d.time /\ b.halted = d.halted
        BY <3>1 DEF Fields
      <3>6. Spares(d, b) /\ Tidy(b)
        BY <1>1, <3>5, StampsAside, TidyAside
      <3>7. Stamps(b, e, Null, Null) /\ Tidy(e) /\ Tabled(e)
        BY <2>1, <2>6, <3>4, <3>6, UnlinkDoes, UnlinkStamps DEF Does
      <3> QED
        BY <3>6, <3>7, StampsThen DEF Spares
    <2> QED
      BY <2>5, <2>6
  <1>3. Stamps(c, e, Null, Null)
    BY <1>1, <1>2, StampsThen
  <1>4. reclaim(c) \in {c, d, e}
    BY DEF reclaim, d
  <1> HIDE DEF e
  <1> QED
    BY <1>1, <1>2, <1>3, <1>4, StampsNothing DEF Leads

\* do_item_alloc takes a chunk that was free, or becomes free.
LEMMA AllocStamps ==
    ASSUME NEW c, Tabled(c), Tidy(c), NEW k \in Keys \cup {Null}, NEW exptime \in Int,
           NEW room, NEW a \in do_item_alloc(c, k, exptime, room)
    PROVE  /\ Stamps(c, a.c, a.it, Null) /\ Tidy(a.c) /\ Tabled(a.c) /\ a.it \in Spare(c)
           /\ a.it # Null => a.it \in Items /\ a.it \notin a.c.linked \cup a.c.free
  <1> DEFINE d == reclaim(c)
  <1>1. Leads(c, d) /\ Tidy(d) /\ Tabled(d)
    BY ReclaimStamps DEF Leads
  <1>2. Tabled(a.c) /\ a.it \in Spare(c) /\ (a.it = Null \/ (a.it \in Items /\ a.it \notin a.c.linked))
    BY AllocDoes DEF Does, Tidy
  <1> HIDE DEF d
  <1>3. CASE a = [it |-> Null, c |-> c] \/ a = [it |-> Null, c |-> d]
    <2>1. a.it = Null /\ (a.c = c \/ a.c = d)
      BY <1>3
    <2> QED
      BY <1>1, <1>2, <2>1, StampsNothing DEF Leads
  <1>4. ASSUME NEW i \in d.free, a = [it |-> i, c |-> new_item(d, i, k, exptime)]
        PROVE  /\ Stamps(c, a.c, a.it, Null) /\ Tidy(a.c) /\ a.it # Null
               /\ a.it \notin a.c.free
    <2> DEFINE e == new_item(d, i, k, exptime)
               one == 1
    <2>1. a.it = i /\ a.c = e
      BY <1>4
    <2>2. i \in Items /\ i \notin d.linked /\ i # Null
      BY <1>1, ItemsAssumption DEF Tabled, Typed, Tidy, Trim
    <2>3. e = [d EXCEPT !.free = @ \ {i}, !.deleted = @ \ {i}, !.refcount[i] = one,
                        !.key[i] = k, !.exptime[i] = exptime]
      BY DEF new_item
    <2> HIDE DEF one, e
    <2>4. /\ e.free = d.free \ {i} /\ e.linked = d.linked /\ e.time = d.time /\ e.lru = d.lru
          /\ e.data = d.data /\ e.cas_id = d.cas_id /\ e.last_cas = d.last_cas
          /\ e.halted = d.halted
      BY <1>1, <2>3 DEF Tabled, Shape, Fields
    <2>5. Tidy(e)
      BY <1>1, <2>4, TidyAside
    <2>6. Stamps(d, e, i, Null)
      <3>1. Worded(d) => Worded(e)
        BY <2>4 DEF Worded
      <3>2. \A j \in Items \ {i} : j \in d.free => j \in e.free
        BY <2>4
      <3>3. \A j \in Items : j \in e.linked => j \in d.linked /\ j # i
        BY <2>2, <2>4
      <3>4. \A j \in Items : Untouched(d, e, j) /\ e.cas_id[j] = d.cas_id[j]
        BY <2>4 DEF Untouched
      <3> QED
        BY <2>4, <3>1, <3>2, <3>3, <3>4 DEF Stamps
    <2>7. Stamps(c, e, i, Null)
      BY <1>1, <2>6, StampsThen DEF Leads
    <2> QED
      BY <2>1, <2>2, <2>4, <2>5, <2>7
  <1>5. \/ a = [it |-> Null, c |-> c] \/ a = [it |-> Null, c |-> d]
        \/ \E i \in d.free : a = [it |-> i, c |-> new_item(d, i, k, exptime)]
    BY DEF do_item_alloc, d
  <1> QED
    BY <1>2, <1>3, <1>4, <1>5

\* Data is written to an item that is not linked, or with the next cas id.
LEMMA WriteStamps ==
    ASSUME NEW c, Tabled(c), NEW i \in Items, NEW d, Writes(c, d, i),
           Worded(c) => d.data[i] \in Seq(0 .. Base) /\ d.cas_id[i] \in 0 .. d.last_cas
    PROVE  /\ i \notin c.linked /\ d.last_cas = c.last_cas => Stamps(c, d, i, Null)
           /\ d.last_cas = c.last_cas + 1 /\ d.cas_id[i] = d.last_cas => Stamps(c, d, Null, i)
           /\ Tidy(c) => Tidy(d)
  <1>1. /\ d.free = c.free /\ d.linked = c.linked /\ d.time = c.time
        /\ d.lru = c.lru /\ d.halted = c.halted
    BY DEF Writes, Fields
  <1>2. \A j \in Items \ {i} : d.data[j] = c.data[j] /\ d.cas_id[j] = c.cas_id[j]
    BY DEF Tabled, Writes
  <1>3. \A j \in Items \ {i} : Untouched(c, d, j)
    BY <1>2 DEF Untouched
  <1>4. Null \notin Items
    BY ItemsAssumption
  <1>5. ASSUME d.last_cas \in Nat, d.last_cas >= c.last_cas, Worded(c) PROVE Worded(d)
    <2>1. d.data \in [Items -> Seq(0 .. Base)]
      <3> DEFINE texts == Seq(0 .. Base)
      <3>1. c.data \in [Items -> texts] /\ d.data[i] \in texts /\ d.data = [c.data EXCEPT ![i] = d.data[i]]
        BY <1>5 DEF Worded, Writes
      <3> HIDE DEF texts
      <3>2. d.data \in [Items -> texts]
        BY <3>1
      <3> QED
        BY <3>2 DEF texts
    <2>2. d.cas_id \in [Items -> Nat]
      <3>1. c.cas_id \in [Items -> Nat] /\ d.cas_id[i] \in Nat
            /\ d.cas_id = [c.cas_id EXCEPT ![i] = d.cas_id[i]]
        BY <1>5 DEF Worded, Writes
      <3> QED
        BY <3>1
    <2>3. ASSUME NEW j \in Items PROVE d.cas_id[j] <= d.last_cas
      <3>1. CASE j = i
        BY <1>5, <3>1
      <3>2. CASE j # i
        BY <1>2, <1>5, <3>2 DEF Worded, Tabled
      <3> QED
        BY <3>1, <3>2
    <2> QED
      BY <1>1, <1>5, <2>1, <2>2, <2>3 DEF Worded
  <1>6. c.last_cas \in Nat
    BY DEF Tabled
  <1>7. ASSUME i \notin c.linked, d.last_cas = c.last_cas PROVE Stamps(c, d, i, Null)
    <2>1. Worded(c) => Worded(d)
      BY <1>5, <1>6, <1>7
    <2>2. \A j \in Items : j \in d.linked => j \in c.linked /\ j # i
      BY <1>1, <1>7
    <2> QED
      BY <1>1, <1>2, <1>3, <1>4, <1>7, <2>1, <2>2 DEF Stamps
  <1>8. ASSUME d.last_cas = c.last_cas + 1, d.cas_id[i] = d.last_cas PROVE Stamps(c, d, Null, i)
    <2>1. Worded(c) => Worded(d)
      BY <1>5, <1>6, <1>8
    <2>2. \A j \in Items : j \in d.linked => j \in c.linked /\ j # Null
      BY <1>1, <1>4
    <2> QED
      BY <1>1, <1>2, <1>3, <1>4, <1>8, <2>1, <2>2 DEF Stamps
  <1>9. Tidy(c) => Tidy(d)
    BY <1>1, TidyAside
  <1> QED
    BY <1>7, <1>8, <1>9

\* A reference is given back.
LEMMA DropStamps ==
    ASSUME NEW c, NEW d, Tabled(d), Listed(d), NEW x, NEW j \in Items \cup {Null},
           Stamps(c, d, x, j), j # Null => j \in d.linked, NEW it \in Items \cup {Null}
    PROVE  LET e == Drop(d, it)
           IN Stamps(c, e, x, j) /\ Listed(e) /\ Tabled(e) /\ (j # Null => j \in e.linked)
  <1>1. CASE it = Null
    BY <1>1 DEF Drop
  <1>2. CASE it # Null
    <2> DEFINE e == do_item_remove(d, it)
    <2>1. Spares(d, e) /\ Listed(e) /\ Tabled(e)
      BY <1>2, RemoveStamps
    <2> HIDE DEF e
    <2>2. Stamps(c, e, x, j)
      BY <2>1, SparesThen
    <2>3. j # Null => j \in e.linked
      BY <2>1 DEF Spares
    <2> QED
      BY <1>2, <2>1, <2>2, <2>3 DEF Drop, e
  <1> QED
    BY <1>1, <1>2

\* A new item with a text takes the place of another.
LEMMA InsteadStamps ==
    ASSUME current_time \in Nat, NEW c, Tabled(c), Tidy(c), NEW k \in Keys \cup {Null},
           NEW exptime \in Int, NEW room, NEW a \in do_item_alloc(c, k, exptime, room),
           a.it # Null, NEW text \in Seq(0 .. Base), NEW i
    PROVE  LET e == do_item_replace([a.c EXCEPT !.data[a.it] = text], i, a.it)
           IN Stamps(c, e, a.it, a.it) /\ Listed(e) /\ Tabled(e) /\ a.it \in e.linked /\ a.it \in Items
  <1> DEFINE j == a.it
             b == [a.c EXCEPT !.data[j] = text]
             d == do_item_replace(b, i, j)
  <1>1. /\ Stamps(c, a.c, j, Null) /\ Tidy(a.c) /\ Tabled(a.c)
        /\ j \in Items /\ j \notin a.c.linked
    BY AllocStamps
  <1>2. Null \notin Items
    BY ItemsAssumption
  <1> HIDE DEF j
  <1>3. Writes(a.c, b, j) /\ b.last_cas = a.c.last_cas /\ b.data[j] = text /\ b.cas_id = a.c.cas_id
    BY <1>1 DEF Tabled, Writes, Shape, Fields
  <1> HIDE DEF b
  <1>4. Stamps(a.c, b, j, Null) /\ Tidy(b)
    <2> DEFINE texts == Seq(0 .. Base)
    <2>1. ASSUME Worded(a.c) PROVE b.data[j] \in texts /\ b.cas_id[j] \in 0 .. b.last_cas
      <3>1. text \in texts
        OBVIOUS
      <3>2. b.cas_id[j] \in Nat /\ b.cas_id[j] <= b.last_cas
        BY <1>1, <1>3, <2>1 DEF Worded
      <3>3. b.last_cas \in Nat
        BY <1>1, <1>3 DEF Tabled
      <3> HIDE DEF texts
      <3> QED
        BY <1>3, <3>1, <3>2, <3>3
    <2> HIDE DEF texts
    <2>2. Worded(a.c) => b.data[j] \in texts /\ b.cas_id[j] \in 0 .. b.last_cas
      BY <2>1
    <2> QED
      BY <2>2, <1>1, <1>3, WriteStamps DEF texts
  <1>5. Tabled(b)
    BY <1>1, <1>3, WriteDoes DEF Does
  <1>6. Stamps(c, b, j, Null)
    BY <1>1, <1>2, <1>4, StampsThen
  <1>7. Stamps(b, d, Null, j) /\ Listed(d) /\ j \in d.linked
    BY <1>1, <1>4, <1>5, ReplaceStamps
  <1>8. Tabled(d)
    BY <1>1, <1>5, ReplaceDoes DEF Does
  <1> HIDE DEF d
  <1>9. Stamps(c, d, j, j)
    BY <1>2, <1>6, <1>7, StampsThen
  <1> QED
    BY <1>1, <1>7, <1>8, <1>9 DEF d, b, j

\* do_add_delta: nothing, a new item in place of the old, or the same with another text.
LEMMA DeltaStamps ==
    ASSUME current_time \in Nat, NEW c, Tabled(c), Tidy(c), Worded(c), NEW i \in Items, NEW cmd,
           NEW e \in do_add_delta(c, i, cmd)
    PROVE  /\ Listed(e)
           /\ \/ \E x \in Spare(c) : \E j : j \in {Null, x} /\ Stamps(c, e, x, j)
              \/ /\ Stamps(c, e, Null, i) /\ Writes(c, e, i)
                 /\ e.last_cas = c.last_cas + 1 /\ e.cas_id[i] = e.last_cas
                 /\ e.data[i] \in Seq(0 .. Base) /\ Len(e.data[i]) = Len(c.data[i])
  <1> DEFINE v == number(c.data[i])
             text == digits(result(v, cmd))
             size == Len(c.data[i]) - Len(text)
             pad == [n \in 1 .. size |-> Blank]
             both == text \o pad
             next == c.last_cas + 1
             same == [c EXCEPT !.last_cas = @ + 1, !.cas_id[i] = c.last_cas + 1,
                               !.data[i] = text \o pad]
             new(a) == do_item_remove(do_item_replace(
                           [a.c EXCEPT !.data[a.it] = text], i, a.it), a.it)
             key == c.key[i]
             exptime == c.exptime[i]
             room == Len(text)
  <1>1. \/ e = c
        \/ e = same /\ Len(text) <= Len(c.data[i])
        \/ \E a \in do_item_alloc(c, key, exptime, room) :
              e = IF a.it = Null THEN a.c ELSE new(a)
    <2> DEFINE some == {IF a.it = Null THEN a.c ELSE new(a) :
                           a \in do_item_alloc(c, key, exptime, room)}
    <2>1. do_add_delta(c, i, cmd) = IF v >= Wrap THEN {c}
                                    ELSE IF Len(text) <= Len(c.data[i]) THEN {same} ELSE some
      BY DEF do_add_delta
    <2> HIDE DEF some, same, v, text, new, key, exptime, room
    <2>2. e = c \/ (e = same /\ Len(text) <= Len(c.data[i])) \/ e \in some
      BY <2>1
    <2> QED
      BY <2>2 DEF some
  <1>2. Shape(c) /\ key \in Keys \cup {Null} /\ exptime \in Int /\ c.last_cas \in Nat
    BY DEF Tabled, Typed
  <1>3. text \in Seq(0 .. Base)
    <2>1. c.data[i] \in Seq(0 .. Base)
      BY DEF Worded
    <2>2. result(v, cmd) \in Nat
      BY <2>1, NumberNat, ResultNat
    <2>3. text \in Seq(0 .. Base - 1)
      BY <2>2, DigitsText
    <2> HIDE DEF text
    <2>4. text \in Seq(0 .. Base)
      BY <2>3, CacheAssumption
    <2> QED
      BY <2>4
  <1>4. Listed(c)
    BY TidyListed
  <1>5. CASE e = c
    <2>1. Stamps(c, c, Null, Null) /\ Null \in Spare(c)
      BY StampsNothing DEF Spare
    <2> QED
      BY <1>4, <1>5, <2>1
  <1>6. CASE e = same /\ Len(text) <= Len(c.data[i])
    <2>1. same = [c EXCEPT !.last_cas = next, !.cas_id[i] = next, !.data[i] = both]
      BY <1>2 DEF Shape, Fields
    <2> DEFINE d == [c EXCEPT !.last_cas = next, !.cas_id[i] = next, !.data[i] = both]
    <2> HIDE DEF same
    <2>2. both \in Seq(0 .. Base) /\ Len(both) = Len(c.data[i])
      <3> DEFINE S == 0 .. Base
      <3>1. size \in Nat /\ Len(text) \in Nat /\ Len(c.data[i]) = Len(text) + size
        <4>1. Len(text) \in Nat
          BY <1>3
        <4>2. Len(c.data[i]) \in Nat
          BY DEF Worded
        <4> HIDE DEF text
        <4> QED
          BY <1>6, <4>1, <4>2
      <3>2. Blank \in S
        BY CacheAssumption DEF Blank
      <3> HIDE DEF S, size
      <3>3. pad \in Seq(S) /\ Len(pad) = size
        BY <3>1, <3>2
      <3> HIDE DEF pad, text
      <3>4. text \in Seq(S)
        BY <1>3 DEF S
      <3>5. both \in Seq(S) /\ Len(both) = Len(text) + Len(pad)
        BY <3>3, <3>4, Joined
      <3> HIDE DEF both
      <3> QED
        BY <3>1, <3>3, <3>5 DEF S
    <2> HIDE DEF both
    <2>3. /\ d.last_cas = next /\ d.cas_id[i] = next /\ d.data[i] = both
          /\ d.lru = c.lru /\ d.halted = c.halted
      BY <1>2 DEF Tabled, Shape, Fields
    <2>4. next = c.last_cas + 1 /\ next \in 0 .. next
      BY <1>2
    <2> HIDE DEF next
    <2>5. Writes(c, d, i)
      BY DEF Tabled, Writes, Shape, Fields
    <2> HIDE DEF d
    <2>6. d.data[i] \in Seq(0 .. Base) /\ d.cas_id[i] \in 0 .. d.last_cas
      BY <2>2, <2>3, <2>4
    <2>7. Stamps(c, d, Null, i) /\ Tidy(d)
      BY <2>3, <2>4, <2>5, <2>6, WriteStamps
    <2>8. Listed(d)
      BY <2>7, TidyListed
    <2>9. e = d
      BY <1>6, <2>1 DEF d
    <2> QED
      BY <2>2, <2>3, <2>4, <2>5, <2>7, <2>8, <2>9
  <1> HIDE DEF text, key, exptime, room, same
  <1>7. ASSUME NEW a \in do_item_alloc(c, key, exptime, room),
               e = IF a.it = Null THEN a.c ELSE new(a)
        PROVE  Listed(e) /\ a.it \in Spare(c) /\ Stamps(c, e, a.it, a.it)
    <2>1. Stamps(c, a.c, a.it, Null) /\ Tidy(a.c) /\ a.it \in Spare(c)
      BY <1>2, AllocStamps
    <2>2. CASE a.it = Null
      BY <1>7, <2>1, <2>2, TidyListed
    <2>3. CASE a.it # Null
      <3> DEFINE d == do_item_replace([a.c EXCEPT !.data[a.it] = text], i, a.it)
      <3>1. /\ Stamps(c, d, a.it, a.it) /\ Listed(d) /\ Tabled(d) /\ a.it \in d.linked
            /\ a.it \in Items
        BY <1>2, <1>3, <2>3, InsteadStamps
      <3>2. e = Drop(d, a.it)
        BY <1>7, <2>3 DEF Drop
      <3> HIDE DEF d
      <3>3. Stamps(c, e, a.it, a.it) /\ Listed(e)
        BY <3>1, <3>2, DropStamps
      <3> QED
        BY <2>1, <3>3
    <2> QED
      BY <2>2, <2>3
  <1> HIDE DEF new
  <1> QED
    BY <1>1, <1>5, <1>6, <1>7

\* append and prepend.
LEMMA AppendStamps ==
    ASSUME current_time \in Nat, NEW c, Tabled(c), Tidy(c), NEW i \in Items,
           NEW k \in Keys, NEW exptime \in Int, NEW room, NEW text \in Seq(0 .. Base),
           NEW a \in do_item_alloc(c, k, exptime, room),
           NEW e, e = IF a.it = Null THEN do_item_remove(a.c, i)
                      ELSE do_item_remove(do_item_remove(do_item_replace(
                               [a.c EXCEPT !.data[a.it] = text], i, a.it), i), a.it)
    PROVE  Stamps(c, e, a.it, a.it) /\ Listed(e)
  <1>0. i # Null /\ Null \notin Items
    BY ItemsAssumption
  <1>1. CASE a.it = Null
    <2>1. Stamps(c, a.c, Null, Null) /\ Listed(a.c) /\ Tabled(a.c)
      BY <1>1, AllocStamps, TidyListed
    <2>2. e = Drop(a.c, i)
      BY <1>0, <1>1 DEF Drop
    <2> QED
      BY <1>1, <2>1, <2>2, DropStamps
  <1>2. CASE a.it # Null
    <2> DEFINE j == a.it
               d == do_item_replace([a.c EXCEPT !.data[j] = text], i, j)
               x == Drop(d, i)
    <2>1. Stamps(c, d, j, j) /\ Listed(d) /\ Tabled(d) /\ j \in d.linked /\ j \in Items
      BY <1>2, InsteadStamps
    <2>2. e = Drop(x, j)
      BY <1>0, <1>2 DEF Drop
    <2> HIDE DEF d, j
    <2>3. Stamps(c, x, j, j) /\ Listed(x) /\ Tabled(x) /\ j \in x.linked
      BY <1>0, <2>1, DropStamps
    <2> HIDE DEF x
    <2>4. Stamps(c, e, j, j) /\ Listed(e)
      BY <2>1, <2>2, <2>3, DropStamps
    <2> QED
      BY <2>4 DEF j
  <1> QED
    BY <1>1, <1>2

\* do_store_item links its item, or the combined one.
LEMMA StoreStamps ==
    ASSUME current_time \in Nat, NEW c, Tabled(c), Tidy(c), Worded(c), NEW i \in Items,
           c.key[i] \in Keys, NEW cmd, NEW e \in do_store_item(c, i, cmd)
    PROVE  /\ Listed(e)
           /\ \E x \in Spare(do_item_get_notedeleted(c, c.key[i]).c), j \in Items \cup {Null} :
                 x \in {Null, j} /\ j \in {Null, i, x} /\ Stamps(c, e, x, j)
  <1> DEFINE k == c.key[i]
             locked == delete_locked(c, k)
             g == do_item_get_notedeleted(c, k)
             old == IF locked THEN do_item_get_nocheck(g.c, k) ELSE g
             text == joined(c, cmd, i, g.it)
             exptime == c.exptime[g.it]
             room == Len(text)
             new(a) == do_item_remove(do_item_remove(do_item_replace(
                           [a.c EXCEPT !.data[a.it] = text], g.it, a.it), g.it), a.it)
             x == do_item_remove(do_item_update(g.c, g.it), g.it)
             y == IF old.it # Null /\ c.cas_id[i] = old.c.cas_id[old.it]
                  THEN do_item_replace(old.c, old.it, i) ELSE old.c
             z == IF old.it # Null THEN do_item_replace(old.c, old.it, i)
                                   ELSE do_item_link(old.c, i)
             some(a) == IF a.it = Null THEN do_item_remove(a.c, g.it) ELSE new(a)
             Goal == /\ Listed(e)
                     /\ \E n \in Spare(g.c), j \in Items \cup {Null} :
                           n \in {Null, j} /\ j \in {Null, i, n} /\ Stamps(c, e, n, j)
  <1> SUFFICES Goal
    OBVIOUS
  <1>1. \/ e = x /\ g.it # Null
        \/ e = g.c /\ g.it = Null
        \/ e = Drop(y, old.it)
        \/ /\ g.it # Null
           /\ \E a \in do_item_alloc(g.c, k, exptime, room) : e = some(a)
        \/ e = Drop(z, old.it)
    BY StoreCases DEF StoreWays
  <1>2. Finds(c, g, k) /\ Leads(c, g.c)
    BY GetDoes, GetStamps
  <1>3. locked => g.it = Null /\ g.c = c
    BY LockedGet
  <1>0. Null \notin Items
    BY ItemsAssumption
  <1>13. g.it # Null => text \in Seq(0 .. Base)
    <2> HAVE g.it # Null
    <2>1. g.it \in Items
      BY <1>2 DEF Finds
    <2> HIDE DEF g
    <2>2. c.data[i] \in Seq(0 .. Base) /\ c.data[g.it] \in Seq(0 .. Base)
      BY <2>1 DEF Worded
    <2> DEFINE S == 0 .. Base
    <2>3. c.data[i] \in Seq(S) /\ c.data[g.it] \in Seq(S)
      BY <2>2
    <2> HIDE DEF S
    <2>4. joined(c, cmd, i, g.it) \in Seq(S)
      BY <2>3 DEF joined
    <2> QED
      BY <2>4 DEF S
  <1> HIDE DEF g, text, exptime, room, new
  <1>4. Finds(c, old, k) /\ Leads(c, old.c)
    <2>1. CASE ~locked
      BY <1>2, <2>1
    <2>2. CASE locked
      <3>1. Finds(c, do_item_get_nocheck(c, k), k) /\ Leads(c, do_item_get_nocheck(c, k).c)
        BY GetDoes, GetStamps
      <3>2. old = do_item_get_nocheck(c, k)
        BY <1>3, <2>2
      <3> HIDE DEF old, locked, k
      <3> QED
        BY <3>1, <3>2
    <2> QED
      BY <2>1, <2>2
  <1> HIDE DEF locked, old, k
  <1>5. k \in Keys
    BY DEF k
  <1>6. /\ Stamps(c, old.c, Null, Null) /\ Tidy(old.c) /\ Tabled(old.c)
        /\ old.it \in Items \cup {Null}
    BY <1>4 DEF Finds, Leads
  <1>7. ASSUME NEW d, \/ d = old.c \/ d = do_item_link(old.c, i)
                      \/ d = do_item_replace(old.c, old.it, i),
               e = Drop(d, old.it)
        PROVE  Goal
    <2>1. CASE d = old.c
      <3>1. Listed(d)
        BY <1>6, <2>1, TidyListed
      <3>2. Stamps(c, e, Null, Null) /\ Listed(e)
        BY <1>6, <1>7, <2>1, <3>1, DropStamps
      <3> QED
        BY <3>2 DEF Spare
    <2>2. CASE d = do_item_link(old.c, i) \/ d = do_item_replace(old.c, old.it, i)
      <3>1. Stamps(old.c, d, Null, i) /\ Listed(d) /\ i \in d.linked
        BY <1>6, <2>2, LinkStamps, ReplaceStamps
      <3>2. Tabled(d)
        BY <1>6, <2>2, LinkDoes, ReplaceDoes DEF Does
      <3>3. Stamps(c, d, Null, i)
        BY <1>6, <3>1, StampsThen
      <3>4. Stamps(c, e, Null, i) /\ Listed(e)
        BY <1>6, <1>7, <3>1, <3>2, <3>3, DropStamps
      <3> QED
        BY <3>4 DEF Spare
    <2> QED
      BY <1>7, <2>1, <2>2
  <1>9. CASE e = Drop(y, old.it)
    <2>1. y = old.c \/ y = do_item_replace(old.c, old.it, i)
      OBVIOUS
    <2> HIDE DEF y, Goal
    <2> QED
      BY <1>7, <1>9, <2>1
  <1>10. CASE e = Drop(z, old.it)
    <2>1. z = do_item_link(old.c, i) \/ z = do_item_replace(old.c, old.it, i)
      OBVIOUS
    <2> HIDE DEF z, Goal
    <2> QED
      BY <1>7, <1>10, <2>1
  <1>11. CASE e = g.c /\ g.it = Null
    <2>1. Stamps(c, e, Null, Null) /\ Listed(e)
      BY <1>2, <1>11, TidyListed DEF Leads
    <2> QED
      BY <2>1 DEF Spare
  <1>12. CASE g.it # Null /\ (e = x \/ \E a \in do_item_alloc(g.c, k, exptime, room) : e = some(a))
    <2> DEFINE j == g.it
               b == g.c
    <2>1. j \in Items
      BY <1>2, <1>12 DEF Finds
    <2>2. Tabled(b) /\ Tidy(b) /\ Stamps(c, b, Null, Null)
      BY <1>2 DEF Leads
    <2>4. exptime \in Int
      BY <2>1 DEF Tabled, exptime
    <2> HIDE DEF j, b
    <2>5. CASE e = x
      <3> DEFINE d == do_item_update(b, j)
      <3>1. Spares(b, d) /\ Tidy(d)
        BY <2>1, <2>2, UpdateStamps
      <3>2. e = Drop(d, j)
        BY <1>0, <2>1, <2>5 DEF b, j, Drop
      <3>3. Tabled(d)
        BY <2>1, <2>2, UpdateDoes
      <3> HIDE DEF d
      <3>4. Stamps(c, d, Null, Null) /\ Listed(d)
        BY <2>2, <3>1, StampsThen, TidyListed DEF Spares
      <3>5. Stamps(c, e, Null, Null) /\ Listed(e)
        BY <2>1, <3>2, <3>3, <3>4, DropStamps
      <3> QED
        BY <3>5 DEF Spare
    <2>6. ASSUME NEW a \in do_item_alloc(b, k, exptime, room), e = some(a)
          PROVE  Goal
      <3>1. a.it \in Spare(b) /\ a.it \in Items \cup {Null}
        BY <1>5, <2>2, <2>4, AllocStamps
      <3>2. Stamps(b, e, a.it, a.it) /\ Listed(e)
        BY <1>5, <1>12, <1>13, <2>1, <2>2, <2>4, <2>6, AppendStamps DEF new, j
      <3>3. Stamps(c, e, a.it, a.it)
        BY <2>2, <3>2, StampsThen
      <3> QED
        BY <3>1, <3>2, <3>3 DEF b
    <2> HIDE DEF Goal
    <2> QED
      BY <1>12, <2>5, <2>6 DEF b, Goal
  <1> HIDE DEF Goal
  <1> QED
    BY <1>1, <1>9, <1>10, <1>11, <1>12

\* What a cas does.
LEMMA CasWay ==
    ASSUME NEW c, NEW i, NEW cmd, NEW e \in do_store_item(c, i, cmd)
    PROVE  LET k      == c.key[i]
               locked == delete_locked(c, k)
               g      == do_item_get_notedeleted(c, k)
               old    == IF locked THEN do_item_get_nocheck(g.c, k) ELSE g
           IN cmd = "cas" => e = Drop(IF old.it # Null /\ c.cas_id[i] = old.c.cas_id[old.it]
                                      THEN do_item_replace(old.c, old.it, i) ELSE old.c, old.it)
  <1> DEFINE k == c.key[i]
             locked == delete_locked(c, k)
             g == do_item_get_notedeleted(c, k)
             old == IF locked THEN do_item_get_nocheck(g.c, k) ELSE g
             text == joined(c, cmd, i, g.it)
             exptime == c.exptime[g.it]
             room == Len(text)
             new(a) == do_item_remove(do_item_remove(do_item_replace(
                           [a.c EXCEPT !.data[a.it] = text], g.it, a.it), g.it), a.it)
             x == do_item_remove(do_item_update(g.c, g.it), g.it)
             y == IF old.it # Null /\ c.cas_id[i] = old.c.cas_id[old.it]
                  THEN do_item_replace(old.c, old.it, i) ELSE old.c
             z == IF old.it # Null THEN do_item_replace(old.c, old.it, i)
                                   ELSE do_item_link(old.c, i)
             M == {IF a.it = Null THEN do_item_remove(a.c, g.it) ELSE new(a) :
                     a \in do_item_alloc(g.c, k, exptime, room)}
             all == CASE g.it # Null /\ cmd = "add" -> {x}
                      [] refused(g, locked, cmd) -> {g.c}
                      [] cmd = "cas" -> {Drop(y, old.it)}
                      [] cmd \in {"append", "prepend"} /\ g.it # Null -> M
                      [] OTHER -> {Drop(z, old.it)}
  <1>1. do_store_item(c, i, cmd) = all
    BY DEF do_store_item
  <1> SUFFICES ASSUME cmd = "cas" PROVE e = Drop(y, old.it)
    OBVIOUS
  <1>2. ~refused(g, locked, cmd)
    BY DEF refused
  <1> HIDE DEF x, y, z, k, locked, g, old, M
  <1>3. all = {Drop(y, old.it)}
    BY <1>2
  <1> QED
    BY <1>1, <1>3

\* A cas that stores found its cas id in the table.
LEMMA CasStore ==
    ASSUME NEW c, Tabled(c), NEW i \in Items, c.key[i] \in Keys, NEW cmd, cmd = "cas",
           NEW e \in do_store_item(c, i, cmd), e.last_cas # c.last_cas
    PROVE  LET j == c.table[c.key[i]] IN j # Null /\ c.cas_id[i] = c.cas_id[j]
  <1> DEFINE k == c.key[i]
             locked == delete_locked(c, k)
             g == do_item_get_notedeleted(c, k)
             old == IF locked THEN do_item_get_nocheck(g.c, k) ELSE g
             yes == old.it # Null /\ c.cas_id[i] = old.c.cas_id[old.it]
             y == IF yes THEN do_item_replace(old.c, old.it, i) ELSE old.c
  <1>1. e = Drop(y, old.it)
    BY CasWay
  <1>2. Finds(c, g, k) /\ Leads(c, g.c)
    BY GetDoes, GetStamps
  <1>3. locked => g.it = Null /\ g.c = c
    BY LockedGet
  <1> HIDE DEF g
  <1>4. Finds(c, old, k) /\ Leads(c, old.c)
    <2>1. CASE ~locked
      BY <1>2, <2>1
    <2>2. CASE locked
      <3>1. Finds(c, do_item_get_nocheck(c, k), k) /\ Leads(c, do_item_get_nocheck(c, k).c)
        BY GetDoes, GetStamps
      <3>2. old = do_item_get_nocheck(c, k)
        BY <1>3, <2>2
      <3> HIDE DEF old, locked, k
      <3> QED
        BY <3>1, <3>2
    <2> QED
      BY <2>1, <2>2
  <1> HIDE DEF old, locked
  <1>5. old.it \in Items \cup {Null} /\ Tabled(old.c) /\ Stamps(c, old.c, Null, Null)
    BY <1>4 DEF Finds, Leads
  <1>6. yes
    <2> SUFFICES ASSUME ~yes PROVE FALSE
      OBVIOUS
    <2>1. e = Drop(old.c, old.it)
      BY <1>1
    <2>2. Stamps(c, e, Null, Null)
      <3>1. CASE old.it = Null
        BY <1>5, <2>1, <3>1 DEF Drop
      <3>2. CASE old.it # Null
        <4>1. Spares(old.c, e)
          BY <1>5, <2>1, <3>2, RemoveStamps DEF Drop
        <4> QED
          BY <1>5, <4>1, StampsThen DEF Spares
      <3> QED
        BY <3>1, <3>2
    <2> QED
      BY <2>2 DEF Stamps
  <1>7. old.it = c.table[k] /\ old.c = Hold(c, old.it)
    BY <1>4, <1>6 DEF Finds
  <1>8. Hold(c, old.it).cas_id = c.cas_id
    BY <1>5, <1>6, HoldDoes DEF Fields
  <1> QED
    BY <1>6, <1>7, <1>8

\* The walk of flush_all ends at the first item that was last used before oldest_live; so
\* were all that are behind it.
LEMMA FlushStamps ==
    ASSUME oldest_live \in Nat, NEW c, Tabled(c), Tidy(c)
    PROVE  LET d == do_item_flush_expired(c)
           IN /\ Stamps(c, d, Null, Null) /\ Tidy(d)
              /\ oldest_live # 0 => \A i \in d.linked : i \in c.linked /\ c.time[i] < oldest_live
  <1> DEFINE old == {n \in DOMAIN c.lru : c.time[c.lru[n]] < oldest_live}
             first == CHOOSE n \in old : \A m \in old : n <= m
             end == IF old = {} THEN Len(c.lru) ELSE first - 1
             f == CHOOSE f : f = [n \in 0 .. end |->
                      IF n = 0 THEN c ELSE do_item_unlink(f[n - 1], c.lru[n])]
  <1>1. CASE oldest_live = 0
    <2>1. do_item_flush_expired(c) = c
      BY <1>1 DEF do_item_flush_expired
    <2> QED
      BY <1>1, <2>1, StampsNothing
  <1>2. CASE oldest_live # 0
    <2>1. do_item_flush_expired(c) = f[end]
      BY <1>2 DEF do_item_flush_expired
    <2>2. Len(c.lru) \in Nat /\ DOMAIN c.lru = 1 .. Len(c.lru)
      BY DEF Tidy, Trim, Lists
    <2>3. /\ end \in 0 .. Len(c.lru)
          /\ end < Len(c.lru) => c.time[c.lru[end + 1]] < oldest_live
      <3>1. old \subseteq 1 .. Len(c.lru) /\ \A n \in old : c.time[c.lru[n]] < oldest_live
        BY <2>2
      <3> HIDE DEF old
      <3>2. CASE old = {}
        BY <2>2, <3>2
      <3>3. CASE old # {}
        <4>1. old \subseteq Nat
          BY <3>1
        <4>2. \E n \in old : \A m \in old : n <= m
          BY <3>3, <4>1, Smallest
        <4>3. first \in old
          BY <4>2
        <4> HIDE DEF first
        <4>4. end = first - 1 /\ first \in 1 .. Len(c.lru) /\ end + 1 = first
          BY <2>2, <3>1, <3>3, <4>3
        <4> HIDE DEF end
        <4> QED
          BY <2>2, <3>1, <4>3, <4>4
      <3> QED
        BY <3>2, <3>3
    <2> HIDE DEF end
    <2>4. Flushing(f, c, end)
      <3>1. end \in Nat
        BY <2>2, <2>3
      <3> QED
        BY <3>1, FlushingExists DEF Flushing
    <2> HIDE DEF f
    <2> DEFINE P(n) == /\ Stamps(c, f[n], Null, Null) /\ Tidy(f[n]) /\ Tabled(f[n])
                       /\ \A m \in 1 .. n : c.lru[m] \notin f[n].linked
               T == {n \in 0 .. end : ~P(n)}
    <2>5. P(0)
      <3>1. f[0] = c
        BY <2>3, <2>4 DEF Flushing
      <3> QED
        BY <3>1, StampsNothing
    <2>6. P(end)
      <3> SUFFICES ASSUME T # {} PROVE FALSE
        BY <2>3
      <3>1. PICK x \in T : \A y \in T : x <= y
        <4>1. T \subseteq Nat
          OBVIOUS
        <4> HIDE DEF T
        <4> QED
          BY <4>1, Smallest
      <3>2. x \in 0 .. end /\ ~P(x) /\ \A y \in 0 .. end : ~P(y) => x <= y
        BY <3>1
      <3> HIDE DEF P, T
      <3>3. x \in 1 .. end /\ x - 1 \in 0 .. end
        BY <2>3, <2>5, <3>2
      <3>4. P(x - 1)
        BY <3>2, <3>3
      <3> DEFINE b == f[x - 1]
                 i == c.lru[x]
      <3>5. f[x] = do_item_unlink(b, i)
        BY <2>4, <3>3 DEF Flushing
      <3>6. /\ Stamps(c, b, Null, Null) /\ Tidy(b) /\ Tabled(b)
            /\ \A m \in 1 .. x - 1 : c.lru[m] \notin b.linked
        BY <3>4 DEF P
      <3> HIDE DEF b, i
      <3>7. /\ Stamps(b, f[x], Null, Null) /\ Tidy(f[x]) /\ Tabled(f[x])
            /\ i \notin f[x].linked
        BY <3>5, <3>6, UnlinkDoes, UnlinkStamps DEF Does
      <3>8. Stamps(c, f[x], Null, Null)
        BY <3>6, <3>7, StampsThen
      <3>9. ASSUME NEW m \in 1 .. x PROVE c.lru[m] \notin f[x].linked
        <4>1. CASE m = x
          BY <3>7, <4>1 DEF i
        <4>2. CASE m # x
          <5>1. m \in 1 .. x - 1 /\ m \in 1 .. Len(c.lru)
            BY <2>2, <2>3, <3>3, <4>2
          <5>2. c.lru[m] \in Items \ {Null}
            BY <5>1, ItemsAssumption DEF Tidy, Trim, Lists
          <5> QED
            BY <3>6, <3>7, <5>1, <5>2 DEF Stamps
        <4> QED
          BY <4>1, <4>2
      <3>10. P(x)
        BY <3>7, <3>8, <3>9 DEF P
      <3> QED
        BY <3>2, <3>10
    <2> DEFINE d == f[end]
    <2>7. /\ Stamps(c, d, Null, Null) /\ Tidy(d) /\ Tabled(d)
          /\ \A m \in 1 .. end : c.lru[m] \notin d.linked
      BY <2>6
    <2> HIDE DEF d, P
    <2>8. ASSUME NEW i \in d.linked PROVE i \in c.linked /\ c.time[i] < oldest_live
      <3>1. i \in Items /\ i \in c.linked
        BY <2>7, ItemsAssumption DEF Tabled, Typed, Stamps
      <3>2. PICK n \in 1 .. Len(c.lru) : c.lru[n] = i
        BY <3>1 DEF Tidy, Trim, Lists
      <3>3. n \notin 1 .. end
        BY <2>7, <2>8, <3>2
      <3>4. end + 1 \in 1 .. Len(c.lru) /\ end < Len(c.lru) /\ (n = end + 1 \/ end + 1 < n)
        BY <2>2, <2>3, <3>3
      <3>5. c.time[c.lru[end + 1]] < oldest_live
        BY <2>3, <3>4
      <3>6. c.time[c.lru[end + 1]] >= c.time[i]
        <4>1. c.lru[end + 1] \in Items /\ c.time \in [Items -> Nat]
          BY <3>4 DEF Tidy, Trim, Lists, Tabled, Typed
        <4>2. CASE n = end + 1
          BY <3>2, <4>1, <4>2
        <4>3. CASE end + 1 < n
          BY <3>2, <3>4, <4>3 DEF Tidy, Ordered
        <4> QED
          BY <3>4, <4>2, <4>3
      <3>7. c.time[i] \in Nat /\ c.time[c.lru[end + 1]] \in Nat
        BY <3>1, <3>4 DEF Tidy, Trim, Lists, Tabled, Typed
      <3> QED
        BY <3>1, <3>5, <3>6, <3>7
    <2> QED
      BY <2>1, <2>7, <2>8 DEF d
  <1> QED
    BY <1>1, <1>2

\* One entry of the delete queue.
LEMMA EntryStamps ==
    ASSUME NEW r, Tabled(r.c), Tidy(r.c), r.kept \in Seq(Items), NEW i \in Items
    PROVE  LET q == run_entry(r, i)
           IN /\ Stamps(r.c, q.c, Null, Null) /\ Tidy(q.c) /\ Tabled(q.c)
              /\ q.kept \in Seq(Items) /\ Len(q.kept) <= Len(r.kept) + 1
  <1> DEFINE c == r.c
             marked == i \in c.deleted
             a == Expect(c, marked, "item_delete_lock_over")
             counted == c.refcount[i] > 0
             b == Expect(a, counted, "run_deferred_deletes")
             d == [b EXCEPT !.deleted = @ \ {i}]
             u == do_item_unlink(d, i)
             e == do_item_remove(u, i)
             over == item_delete_lock_over(c, i)
             q == run_entry(r, i)
  <1>1. /\ q.c = IF over THEN e ELSE a
        /\ q.kept = IF over THEN r.kept ELSE Append(r.kept, i)
    BY DEF run_entry
  <1>0. q.kept \in Seq(Items) /\ Len(q.kept) <= Len(r.kept) + 1
    <2>1. Append(r.kept, i) \in Seq(Items) /\ Len(Append(r.kept, i)) = Len(r.kept) + 1
      OBVIOUS
    <2>2. Len(r.kept) \in Nat
      OBVIOUS
    <2> HIDE DEF q, over
    <2>3. CASE over
      BY <1>1, <2>2, <2>3
    <2>4. CASE ~over
      BY <1>1, <2>1, <2>2, <2>4
    <2> QED
      BY <2>3, <2>4
  <1>2. Spares(c, a) /\ Tidy(a) /\ Tabled(a)
    <2>1. "item_delete_lock_over" # "no"
      OBVIOUS
    <2>2. "item_delete_lock_over" \in Stops
      BY DEF Stops
    <2> HIDE DEF marked, c
    <2>3. Tabled(c) /\ Tidy(c)
      BY DEF c
    <2> QED
      BY <2>1, <2>2, <2>3, ExpectStamps, ExpectDoes DEF Does
  <1>3. Tabled(c) /\ Tidy(c)
    OBVIOUS
  <1> HIDE DEF a, counted
  <1>4. Spares(a, b) /\ Tidy(b) /\ Tabled(b)
    <2>1. "run_deferred_deletes" # "no"
      OBVIOUS
    <2>2. "run_deferred_deletes" \in Stops
      BY DEF Stops
    <2> QED
      BY <1>2, <2>1, <2>2, ExpectStamps, ExpectDoes DEF Does
  <1> HIDE DEF b
  <1>5. Spares(b, d) /\ Tidy(d) /\ Tabled(d)
    <2>1. /\ Shape(d) /\ d.deleted = b.deleted \ {i} /\ d.time = b.time
          /\ \A f \in Fields \ {"deleted"} : d[f] = b[f]
      BY <1>4 DEF Tabled, Shape, Fields
    <2> HIDE DEF d
    <2>2. /\ d.free = b.free /\ d.linked = b.linked /\ d.lru = b.lru /\ d.halted = b.halted
          /\ d.refcount = b.refcount /\ d.key = b.key /\ d.data = b.data /\ d.exptime = b.exptime
          /\ d.cas_id = b.cas_id /\ d.table = b.table /\ d.last_cas = b.last_cas
      BY <2>1 DEF Fields
    <2>3. Tabled(d)
      BY <1>4, <2>1, <2>2 DEF Tabled, Typed
    <2>4. Spares(b, d)
      BY <2>2, StampsAside
    <2>5. Tidy(d)
      BY <1>4, <2>1, <2>2, TidyAside
    <2> QED
      BY <2>3, <2>4, <2>5
  <1> HIDE DEF d
  <1>6. Stamps(d, u, Null, Null) /\ Tidy(u) /\ Tabled(u)
    BY <1>5, UnlinkDoes, UnlinkStamps DEF Does
  <1> HIDE DEF u
  <1>7. Stamps(u, e, Null, Null) /\ Tidy(e) /\ Tabled(e)
    BY <1>6, RemoveStamps DEF Spares
  <1> HIDE DEF e, q, over, c
  <1>8. Stamps(c, e, Null, Null)
    <2>1. Stamps(c, b, Null, Null)
      BY <1>2, <1>4, StampsThen DEF Spares
    <2>2. Stamps(c, d, Null, Null)
      BY <1>5, <2>1, StampsThen DEF Spares
    <2>3. Stamps(c, u, Null, Null)
      BY <1>6, <2>2, StampsThen
    <2> QED
      BY <1>7, <2>3, StampsThen
  <1>9. Stamps(c, q.c, Null, Null) /\ Tidy(q.c) /\ Tabled(q.c)
    BY <1>1, <1>2, <1>7, <1>8 DEF Spares
  <1> QED
    BY <1>0, <1>9 DEF q, c

\* The whole queue: it does not become longer.
LEMMA TimerStamps ==
    ASSUME todelete \in Seq(Items), Tabled(cache), Tidy(cache), NEW r \in do_run_deferred_deletes
    PROVE  /\ Stamps(cache, r.c, Null, Null) /\ Tidy(r.c) /\ Tabled(r.c)
           /\ r.kept \in Seq(Items) /\ Len(r.kept) <= Len(todelete)
  <1> DEFINE l == Len(todelete)
             f == CHOOSE f : f = [n \in 0 .. l |->
                      IF n = 0 THEN {[c |-> cache, kept |-> <<>>]}
                      ELSE {run_entry(q, todelete[n]) : q \in f[n - 1]}]
             Good(q, n) == /\ Stamps(cache, q.c, Null, Null) /\ Tidy(q.c) /\ Tabled(q.c)
                           /\ q.kept \in Seq(Items) /\ Len(q.kept) <= n
             P(n) == \A q \in f[n] : Good(q, n)
             T == {n \in 0 .. l : ~P(n)}
  <1>1. r \in f[l]
    BY DEF do_run_deferred_deletes
  <1>2. l \in Nat /\ \A n \in 1 .. l : todelete[n] \in Items
    OBVIOUS
  <1>3. Timing(f, l)
    <2>1. \E g : Timing(g, l)
      <3> HIDE DEF l
      <3> QED
        BY <1>2, TimingExists
    <2> QED
      BY <2>1 DEF Timing
  <1> HIDE DEF f
  <1>4. /\ f[0] = {[c |-> cache, kept |-> <<>>]}
        /\ \A n \in 1 .. l : f[n] = {run_entry(q, todelete[n]) : q \in f[n - 1]}
    <2> DEFINE step(s, i) == {run_entry(q, todelete[i]) : q \in s}
               start == {[c |-> cache, kept |-> <<>>]}
    <2> HIDE DEF l
    <2>1. f = [i \in 0 .. l |-> IF i = 0 THEN start ELSE step(f[i - 1], i)]
      BY <1>3 DEF Timing
    <2> HIDE DEF step, start
    <2>2. f[0] = start /\ \A n \in 1 .. l : f[n] = step(f[n - 1], n)
      BY <1>2, <2>1
    <2> QED
      BY <2>2 DEF step, start
  <1>5. P(0)
    <2> TAKE q \in f[0]
    <2>1. q.c = cache /\ q.kept = <<>>
      BY <1>4
    <2>2. <<>> \in Seq(Items) /\ Len(<<>>) <= 0
      OBVIOUS
    <2> QED
      BY <2>1, <2>2, StampsNothing
  <1>6. P(l)
    <2> SUFFICES ASSUME T # {} PROVE FALSE
      BY <1>2
    <2>1. PICK x \in T : \A y \in T : x <= y
      <3>1. T \subseteq Nat
        OBVIOUS
      <3> HIDE DEF T
      <3> QED
        BY <3>1, Smallest
    <2>2. x \in 0 .. l /\ ~P(x) /\ \A y \in 0 .. l : ~P(y) => x <= y
      BY <2>1
    <2> HIDE DEF P, T
    <2>3. x \in 1 .. l /\ x - 1 \in 0 .. l
      BY <1>2, <1>5, <2>2
    <2>4. P(x - 1)
      BY <2>2, <2>3
    <2>5. ASSUME NEW q \in f[x - 1]
          PROVE  Good(run_entry(q, todelete[x]), x)
      <3> DEFINE i == todelete[x]
                 n == run_entry(q, i)
      <3>1. Good(q, x - 1) /\ i \in Items
        BY <1>2, <2>3, <2>4 DEF P
      <3> HIDE DEF i
      <3>2. /\ Stamps(q.c, n.c, Null, Null) /\ Tidy(n.c) /\ Tabled(n.c)
            /\ n.kept \in Seq(Items) /\ Len(n.kept) <= Len(q.kept) + 1
        BY <3>1, EntryStamps
      <3> HIDE DEF n
      <3>3. Stamps(cache, n.c, Null, Null)
        BY <3>1, <3>2, StampsThen
      <3>4. Len(n.kept) <= x
        <4>1. Len(q.kept) <= x - 1 /\ Len(q.kept) \in Nat /\ Len(n.kept) \in Nat
          BY <3>1, <3>2
        <4> QED
          BY <1>2, <2>3, <3>2, <4>1
      <3> QED
        BY <3>2, <3>3, <3>4 DEF n, i
    <2>6. P(x)
      <3> HIDE DEF Good
      <3> QED
        BY <1>4, <2>3, <2>5 DEF P
    <2> QED
      BY <2>2, <2>6
  <1> QED
    BY <1>1, <1>6

----------------------------------------------------------------------------
(* What the steps do to data, cas ids and the order *)

\* The cache keeps its types, and its list its order.
Fit == Tabled(cache) /\ Worded(cache) /\ Listed(cache)

\* What a step starts from.
LEMMA FitReady ==
    ASSUME IInv, NoneOld, Fit, cache.halted = "no", NEW s \in Conns
    PROVE  /\ Tabled(cache) /\ Worded(cache) /\ Tidy(cache) /\ current_time \in Nat
           /\ conn[s].at \in Holding =>
                 /\ conn[s].it \in Items /\ conn[s].it \notin cache.free
                 /\ cache.key[conn[s].it] \in Keys
  BY Ready DEF Fit, Listed, IInv

\* A lookup.
LEMMA LookupStamps ==
    ASSUME Fit, cache.halted = "no", NEW s, NEW cmd, NEW k \in Keys, NEW next,
           Lookup(s, cmd, k, next)
    PROVE  Stamps(cache, cache', Null, Null) /\ Tidy(cache')
  <1>1. Leads(cache, do_item_get_notedeleted(cache, k).c)
    BY GetStamps DEF Fit
  <1>2. cache' = do_item_get_notedeleted(cache, k).c
    BY DEF Lookup, Cached
  <1> QED
    BY <1>1, <1>2 DEF Leads, Fit, Listed

\* The steps that begin with one.
LEMMA AskStamps ==
    ASSUME IInv, Fit, NEW s \in Conns,
           \/ alloc_failed(s)
           \/ \E k \in Keys :
                 \/ process_get_command(s, k) \/ process_delete_command(s, k)
                 \/ \E cmd \in Arithmetic : process_arithmetic_command(s, cmd, k)
    PROVE  Stamps(cache, cache', Null, Null) /\ Tidy(cache')
  <1>1. CASE alloc_failed(s)
    <2>1. /\ conn[s].at = "alloc failed" /\ Lookup(s, conn[s].cmd, conn[s].key, "unlink")
          /\ cache.halted = "no"
      BY <1>1 DEF alloc_failed, At
    <2>2. conn[s].key \in Keys
      BY <2>1 DEF IInv, ConnOK
    <2> QED
      BY <2>1, <2>2, LookupStamps
  <1>2. ASSUME NEW k \in Keys,
                 \/ process_get_command(s, k) \/ process_delete_command(s, k)
                 \/ \E cmd \in Arithmetic : process_arithmetic_command(s, cmd, k)
        PROVE  Stamps(cache, cache', Null, Null) /\ Tidy(cache')
    <2>1. (\E cmd, next : Lookup(s, cmd, k, next)) /\ cache.halted = "no"
      BY <1>2 DEF process_get_command, process_delete_command, process_arithmetic_command, Asks, At
    <2> QED
      BY <2>1, LookupStamps
  <1> QED
    BY <1>1, <1>2

\* item_unlink and item_remove.
LEMMA EndStamps ==
    ASSUME IInv, NoneOld, Fit, NEW s \in Conns, item_unlink(s) \/ item_remove(s)
    PROVE  /\ Stamps(cache, cache', Null, Null) /\ Tidy(cache')
           /\ item_remove(s) => Spares(cache, cache')
  <1> DEFINE i == conn[s].it
  <1>1. /\ cache.halted = "no" /\ conn[s].at \in {"unlink", "remove", "update"}
        /\ \/ cache' = do_item_unlink(cache, i) /\ conn[s].at = "unlink"
           \/ cache' = do_item_remove(cache, i)
        /\ item_remove(s) => cache' = do_item_remove(cache, i)
    BY DEF item_unlink, item_remove, At, Cached
  <1>2. i \in Items /\ Tabled(cache) /\ Tidy(cache)
    BY <1>1, FitReady DEF Holding
  <1> HIDE DEF i
  <1> QED
    BY <1>1, <1>2, UnlinkStamps, RemoveStamps DEF Spares

\* A storage command gets a chunk that was free or becomes free.
LEMMA SetStamps ==
    ASSUME IInv, NoneOld, Fit, NEW s \in Conns, NEW k \in Keys, NEW cmd, NEW v \in Nat,
           NEW exptime \in Int, NEW id \in 0 .. cache.last_cas,
           process_update_command(s, cmd, k, v, exptime, id)
    PROVE  /\ Tidy(cache')
           /\ \E x \in Spare(cache) :
                 /\ Stamps(cache, cache', x, Null)
                 /\ \/ /\ x \in Items /\ x \notin cache'.linked \cup cache'.free
                       /\ Goto(s, "nread", cmd, k, x)
                       /\ cache'.cas_id[x] = id /\ cache'.key[x] = k
                    \/ /\ x = Null
                       /\ Goto(s, "alloc failed", cmd, k, Null) \/ Done(s)
  <1> DEFINE t == realtime(exptime)
             text == digits(v)
             room == Len(text)
  <1>1. /\ cache.halted = "no"
        /\ \E a \in do_item_alloc(cache, k, t, room) :
              \/ /\ a.it # Null
                 /\ cache' = [a.c EXCEPT !.data[a.it] = text, !.cas_id[a.it] = id]
                 /\ Goto(s, "nread", cmd, k, a.it)
              \/ /\ a.it = Null /\ cache' = a.c
                 /\ Goto(s, "alloc failed", cmd, k, Null) \/ Done(s)
    BY DEF process_update_command, Asks, At, Cached
  <1>2. Tidy(cache) /\ Tabled(cache) /\ Worded(cache) /\ t \in Int /\ k \in Keys \cup {Null}
    <2>1. t \in Int
      BY DEF IInv, realtime
    <2>2. cache.halted = "no"
      BY <1>1
    <2> HIDE DEF t
    <2> QED
      BY <2>1, <2>2, FitReady
  <1>0. text \in Seq(0 .. Base)
    <2>1. text \in Seq(0 .. Base - 1)
      BY DigitsText
    <2> HIDE DEF text
    <2> QED
      BY <2>1, CacheAssumption
  <1> HIDE DEF t, text, room
  <1>3. PICK a \in do_item_alloc(cache, k, t, room) :
              \/ /\ a.it # Null
                 /\ cache' = [a.c EXCEPT !.data[a.it] = text, !.cas_id[a.it] = id]
                 /\ Goto(s, "nread", cmd, k, a.it)
              \/ /\ a.it = Null /\ cache' = a.c
                 /\ Goto(s, "alloc failed", cmd, k, Null) \/ Done(s)
    BY <1>1
  <1>4. /\ Stamps(cache, a.c, a.it, Null) /\ Tidy(a.c) /\ Tabled(a.c) /\ a.it \in Spare(cache)
        /\ a.it # Null => a.it \in Items /\ a.it \notin a.c.linked \cup a.c.free
    BY <1>2, AllocStamps
  <1>5. a.it = Null \/ a.c.key[a.it] = k
    BY <1>2, AllocDoes DEF Tidy
  <1>6. CASE a.it = Null
    BY <1>3, <1>4, <1>6
  <1>7. CASE a.it # Null
    <2> DEFINE i == a.it
               d == [a.c EXCEPT !.data[i] = text, !.cas_id[i] = id]
    <2>1. i \in Items /\ i \notin a.c.linked \cup a.c.free /\ Shape(a.c)
          /\ i # Null
      BY <1>4, <1>7 DEF Tabled
    <2>2. cache' = d
      BY <1>3, <1>7
    <2>0. Goto(s, "nread", cmd, k, i)
      BY <1>3, <1>7
    <2> HIDE DEF i
    <2>3. /\ Shape(d) /\ d.data = [a.c.data EXCEPT ![i] = text]
          /\ d.cas_id = [a.c.cas_id EXCEPT ![i] = id]
          /\ \A f \in Fields \ {"data", "cas_id"} : d[f] = a.c[f]
      BY <2>1 DEF Shape, Fields
    <2> HIDE DEF d
    <2>4. /\ Writes(a.c, d, i) /\ d.last_cas = a.c.last_cas /\ d.linked = a.c.linked
          /\ d.free = a.c.free /\ d.key = a.c.key /\ d.data[i] = text /\ d.cas_id[i] = id
      BY <1>4, <2>1, <2>3 DEF Writes, Tabled, Fields
    <2>5. a.c.last_cas = cache.last_cas
      BY <1>4 DEF Stamps
    <2>6. Stamps(a.c, d, i, Null) /\ Tidy(d)
      <3>1. d.data[i] \in Seq(0 .. Base) /\ d.cas_id[i] \in 0 .. d.last_cas
        BY <1>0, <2>4, <2>5
      <3> QED
        BY <1>4, <2>1, <2>4, <3>1, WriteStamps
    <2>7. Stamps(cache, d, i, Null)
      BY <1>4, <2>6, StampsThen DEF i
    <2>8. i \in Spare(cache) /\ d.key[i] = k
      BY <1>4, <1>5, <1>7, <2>4 DEF i
    <2> QED
      BY <2>0, <2>1, <2>2, <2>4, <2>6, <2>7, <2>8
  <1> QED
    BY <1>6, <1>7

\* The data of a storage command is stored, or refused.
LEMMA ReadStamps ==
    ASSUME IInv, NoneOld, Fit, NEW s \in Conns, complete_nread(s)
    PROVE  /\ Listed(cache')
           /\ \E x : \E j \in Items \cup {Null} :
                 /\ Unheld(x) /\ x \in {Null, j} /\ j \in {Null, conn[s].it, x}
                 /\ Stamps(cache, cache', x, j)
  <1> DEFINE i == conn[s].it
  <1>1. /\ cache.halted = "no" /\ conn[s].at = "nread"
        /\ cache' \in do_store_item(cache, i, conn[s].cmd) \/ cache' = cache
    BY DEF complete_nread, At, Cached
  <1>2. /\ Tabled(cache) /\ Worded(cache) /\ Tidy(cache) /\ current_time \in Nat
        /\ i \in Items /\ cache.key[i] \in Keys
    BY <1>1, FitReady DEF Holding
  <1>3. CASE cache' = cache
    <2>1. Stamps(cache, cache', Null, Null) /\ Unheld(Null) /\ Listed(cache')
      BY <1>2, <1>3, StampsNothing, TidyListed, ItemsAssumption DEF Unheld
    <2> QED
      BY <2>1
  <1>4. CASE cache' \in do_store_item(cache, i, conn[s].cmd)
    <2> DEFINE g == do_item_get_notedeleted(cache, cache.key[i])
    <2> HIDE DEF i
    <2>1. /\ Listed(cache')
          /\ \E x \in Spare(g.c), j \in Items \cup {Null} :
                x \in {Null, j} /\ j \in {Null, i, x} /\ Stamps(cache, cache', x, j)
      BY <1>2, <1>4, StoreStamps
    <2>2. \A x \in Spare(g.c) : Unheld(x)
      BY <1>1, <1>2, SpareUnheld
    <2> HIDE DEF g
    <2> QED
      BY <2>1, <2>2 DEF i
  <1> QED
    BY <1>1, <1>3, <1>4

\* incr and decr.
LEMMA AddStamps ==
    ASSUME IInv, NoneOld, Fit, NEW s \in Conns, conn[s].at = "delta", cache.halted = "no",
           NEW cmd, NEW e \in do_add_delta(cache, conn[s].it, cmd)
    PROVE  LET i == conn[s].it
           IN /\ Listed(e)
              /\ \/ \E x : \E j \in Items \cup {Null} :
                       Unheld(x) /\ j \in {Null, x} /\ Stamps(cache, e, x, j)
                 \/ /\ Stamps(cache, e, Null, i) /\ Writes(cache, e, i)
                    /\ e.last_cas = cache.last_cas + 1 /\ e.cas_id[i] = e.last_cas
                    /\ e.data[i] \in Seq(0 .. Base) /\ Len(e.data[i]) = Len(cache.data[i])
  <1> DEFINE i == conn[s].it
  <1>1. /\ Tabled(cache) /\ Worded(cache) /\ Tidy(cache) /\ current_time \in Nat /\ i \in Items
    BY FitReady DEF Holding
  <1>2. \A x \in Spare(cache) : Unheld(x) /\ x \in Items \cup {Null}
    <2>1. \A x \in Spare(cache) : Unheld(x)
      BY SpareUnheld
    <2>2. Tabled(reclaim(cache))
      BY <1>1, ReclaimStamps DEF Leads
    <2> QED
      BY <2>1, <2>2 DEF Spare, Tabled, Typed
  <1> HIDE DEF i
  <1>3. e \in do_add_delta(cache, i, cmd)
    BY DEF i
  <1>4. /\ Listed(e)
        /\ \/ \E x \in Spare(cache) : \E j : j \in {Null, x} /\ Stamps(cache, e, x, j)
           \/ /\ Stamps(cache, e, Null, i) /\ Writes(cache, e, i)
              /\ e.last_cas = cache.last_cas + 1 /\ e.cas_id[i] = e.last_cas
              /\ e.data[i] \in Seq(0 .. Base) /\ Len(e.data[i]) = Len(cache.data[i])
    BY <1>1, <1>3, DeltaStamps
  <1> QED
    BY <1>2, <1>4 DEF i

\* The delete timer.
LEMMA QueueStamps ==
    ASSUME IInv, NoneOld, Fit, delete_handler
    PROVE  /\ Stamps(cache, cache', Null, Null) /\ Tidy(cache')
           /\ todelete' \in Seq(Items) /\ Len(todelete') <= Len(todelete)
  <1>1. /\ cache.halted = "no"
        /\ \E r \in do_run_deferred_deletes : cache' = r.c /\ todelete' = r.kept
    BY DEF delete_handler, Cached
  <1>2. Tabled(cache) /\ Tidy(cache) /\ todelete \in Seq(Items)
    BY <1>1 DEF Fit, Listed, IInv
  <1> QED
    BY <1>1, <1>2, TimerStamps

\* A deferred delete changes no data, and no order.
LEMMA DeferStamps ==
    ASSUME IInv, NoneOld, Fit, NEW s \in Conns, NEW delay, defer_delete(s, delay)
    PROVE  Spares(cache, cache') /\ Tidy(cache')
  <1> DEFINE i == conn[s].it
             t == realtime(delay)
             name == "cache_lock"
  <1>1. /\ cache.halted = "no" /\ conn[s].at = "defer"
        /\ \/ cache' = [cache EXCEPT !.exptime[i] = t, !.deleted = @ \cup {i}]
           \/ cache' = [cache EXCEPT !.halted = name]
    BY DEF defer_delete, At, Cached
  <1>2. Tabled(cache) /\ Tidy(cache)
    BY <1>1, FitReady
  <1>3. name \in Stops
    BY DEF Stops
  <1> HIDE DEF i, t, name
  <1>4. /\ cache'.free = cache.free /\ cache'.linked = cache.linked /\ cache'.lru = cache.lru
        /\ cache'.data = cache.data /\ cache'.cas_id = cache.cas_id /\ cache'.time = cache.time
        /\ cache'.last_cas = cache.last_cas /\ cache'.halted \in {cache.halted, name}
    BY <1>1, <1>2 DEF Tabled, Shape, Fields
  <1> DEFINE d == cache'
  <1>5. /\ d.free = cache.free /\ d.linked = cache.linked /\ d.lru = cache.lru
        /\ d.data = cache.data /\ d.cas_id = cache.cas_id /\ d.time = cache.time
        /\ d.last_cas = cache.last_cas /\ (cache.halted \in Stops => d.halted \in Stops)
    BY <1>3, <1>4
  <1> HIDE DEF d
  <1>6. Spares(cache, d) /\ Tidy(d)
    BY <1>2, <1>5, StampsAside, TidyAside
  <1> QED
    BY <1>6 DEF d

\* get: the item moves to the head.
LEMMA MoveStamps ==
    ASSUME IInv, NoneOld, Fit, NEW s \in Conns, item_update(s)
    PROVE  Spares(cache, cache') /\ Tidy(cache')
  <1> DEFINE i == conn[s].it
  <1>1. cache.halted = "no" /\ conn[s].at = "update" /\ cache' = do_item_update(cache, i)
    BY DEF item_update, At, Cached
  <1>2. Tabled(cache) /\ Tidy(cache) /\ i \in Items /\ current_time \in Nat
    BY <1>1, FitReady DEF Holding
  <1> HIDE DEF i
  <1> QED
    BY <1>1, <1>2, UpdateStamps

\* The walk of flush_all.
LEMMA WalkStamps ==
    ASSUME IInv, NoneOld, Fit, oldest_live \in Nat, NEW s \in Conns, item_flush_expired(s)
    PROVE  /\ Stamps(cache, cache', Null, Null) /\ Tidy(cache')
           /\ oldest_live # 0 =>
                 \A i \in cache'.linked : i \in cache.linked /\ cache.time[i] < oldest_live
  <1>1. cache.halted = "no" /\ cache' = do_item_flush_expired(cache)
    BY DEF item_flush_expired, At
  <1>2. Tabled(cache) /\ Tidy(cache)
    BY <1>1, FitReady
  <1> QED
    BY <1>1, <1>2, FlushStamps

\* The times are of the past.
LEMMA LaterListed ==
    ASSUME Tabled(cache), Listed(cache), cache' = cache, current_time \in Nat,
           current_time' \in Nat, current_time' >= current_time
    PROVE  Listed(cache)'
  <1>1. \A i \in cache.linked : cache.time[i] \in Nat
    BY DEF Tabled, Typed
  <1>2. Ordered(cache) => Ordered(cache)'
    BY <1>1 DEF Ordered
  <1> QED
    BY <1>2 DEF Listed, Tidy, Trim, Lists

\* Every step.
LEMMA StaysFit ==
    ASSUME IInv, NoneOld, Fit, oldest_live \in Nat, Exptimes \subseteq Int,
           Delays \subseteq Nat \ {0}, [Next]_vars
    PROVE  Fit'
  <1>0. Tabled(cache)'
    BY StaysTabled DEF Fit
  <1> DEFINE Good == Worded(cache') /\ Listed(cache')
  <1>1. ASSUME NEW x, NEW j, Stamps(cache, cache', x, j), Listed(cache') \/ Tidy(cache')
        PROVE  Good
    BY <1>1, TidyListed DEF Stamps, Fit
  <1> HIDE DEF Good
  <1>2. ASSUME Good, UNCHANGED clock PROVE Fit'
    <2>1. Worded(cache)'
      BY <1>2 DEF Worded, Good
    <2>2. Listed(cache)'
      BY <1>2 DEF Listed, Tidy, Trim, Ordered, Lists, clock, Good
    <2> QED
      BY <1>0, <2>1, <2>2 DEF Fit
  <1>3. CASE \E s \in Conns : item_unlink(s) \/ item_remove(s)
    BY <1>1, <1>2, <1>3, EndStamps DEF item_unlink, item_remove
  <1>4. CASE \E s \in Conns : complete_nread(s)
    BY <1>1, <1>2, <1>4, ReadStamps DEF complete_nread
  <1>5. CASE \E s \in Conns : add_delta(s)
    <2>1. PICK s \in Conns : add_delta(s)
      BY <1>5
    <2>2. /\ UNCHANGED clock /\ conn[s].at = "delta" /\ cache.halted = "no"
          /\ cache' \in do_add_delta(cache, conn[s].it, conn[s].cmd)
      BY <2>1 DEF add_delta, At, Cached
    <2>3. Listed(cache') /\ \E x, j : Stamps(cache, cache', x, j)
      BY <2>2, AddStamps
    <2> QED
      BY <1>1, <1>2, <2>2, <2>3
  <1>6. CASE delete_handler
    BY <1>1, <1>2, <1>6, QueueStamps DEF delete_handler
  <1>7. CASE \E s \in Conns : item_flush_expired(s)
    BY <1>1, <1>2, <1>7, WalkStamps DEF item_flush_expired
  <1>8. CASE \E s \in Conns :
                \/ alloc_failed(s)
                \/ \E k \in Keys :
                      \/ process_get_command(s, k) \/ process_delete_command(s, k)
                      \/ \E cmd \in Arithmetic : process_arithmetic_command(s, cmd, k)
    <2>1. UNCHANGED clock
      BY <1>8 DEF alloc_failed, process_get_command, process_delete_command,
                  process_arithmetic_command
    <2>2. Stamps(cache, cache', Null, Null) /\ Tidy(cache')
      BY <1>8, AskStamps
    <2> QED
      BY <1>1, <1>2, <2>1, <2>2
  <1>9. CASE \E s \in Conns, k \in Keys, cmd \in Storage, v \in Values, e \in Exptimes,
                u \in 0 .. cache.last_cas : process_update_command(s, cmd, k, v, e, u)
    <2>1. PICK s \in Conns, k \in Keys, cmd \in Storage, v \in Values, e \in Exptimes,
               u \in 0 .. cache.last_cas : process_update_command(s, cmd, k, v, e, u)
      BY <1>9
    <2>2. v \in Nat /\ e \in Int
      BY CacheAssumption
    <2>3. Tidy(cache') /\ \E x : Stamps(cache, cache', x, Null)
      BY <2>1, <2>2, SetStamps
    <2>4. UNCHANGED clock
      BY <2>1 DEF process_update_command
    <2> QED
      BY <1>1, <1>2, <2>3, <2>4
  <1>10. CASE \E s \in Conns, d \in Delays : defer_delete(s, d)
    BY <1>1, <1>2, <1>10, DeferStamps DEF defer_delete, Spares
  <1>11. CASE \E s \in Conns : item_update(s)
    BY <1>1, <1>2, <1>11, MoveStamps DEF item_update, Spares
  <1>12. CASE clock_handler \/ \E s \in Conns, d \in FlushDelays : flush_all(s, d)
    <2>1. cache' = cache /\ current_time' \in current_time .. current_time + 1
      <3>1. current_time \in Nat
        BY DEF IInv
      <3>2. CASE clock_handler
        <4>1. cache' = cache /\ current_time' = current_time + 1
          BY <3>2 DEF clock_handler
        <4> QED
          BY <3>1, <4>1
      <3>3. CASE \E s \in Conns, d \in FlushDelays : flush_all(s, d)
        BY <3>3 DEF flush_all
      <3> QED
        BY <1>12, <3>2, <3>3
    <2>2. current_time \in Nat /\ current_time' \in Nat /\ current_time' >= current_time
      BY <2>1 DEF IInv
    <2>3. Listed(cache)' /\ Worded(cache)'
      BY <2>1, <2>2, LaterListed DEF Fit, Worded
    <2> QED
      BY <1>0, <2>3 DEF Fit
  <1>13. CASE Halted \/ UNCHANGED vars
    <2>1. cache' = cache /\ UNCHANGED clock
      BY <1>13 DEF Halted, vars, clock
    <2>2. Good
      BY <2>1 DEF Fit, Good
    <2> QED
      BY <1>2, <2>1, <2>2
  <1>14. Next \/ UNCHANGED vars
    OBVIOUS
  <1> QED
    BY <1>3, <1>4, <1>5, <1>6, <1>7, <1>8, <1>9, <1>10, <1>11, <1>12, <1>13, <1>14 DEF Next

\* It holds at first.
LEMMA FitStarts == Init => Fit
  <1> HAVE Init
  <1>1. cache = InitCache /\ current_time \in Nat
    BY CacheAssumption DEF Init
  <1>2. Tabled(cache)
    BY StoreStarts DEF Timely
  <1> DEFINE zero == 0
             none == <<>>
             no == "no"
             empty == {}
             c == InitCache
  <1>3. c = [free |-> Items, linked |-> empty, deleted |-> empty,
             refcount |-> [i \in Items |-> zero], key |-> [i \in Items |-> Null],
             data |-> [i \in Items |-> none], time |-> [i \in Items |-> zero],
             exptime |-> [i \in Items |-> zero], cas_id |-> [i \in Items |-> zero],
             table |-> [k \in Keys |-> Null], lru |-> none, last_cas |-> zero,
             halted |-> no]
    BY DEF InitCache
  <1>4. /\ none \in Seq(Items) /\ Len(none) = 0 /\ none \in Seq(0 .. Base) /\ zero \in Nat
        /\ no \in Stops
    BY DEF Stops
  <1> HIDE DEF zero, none, no, empty, c
  <1>5. /\ c.free = Items /\ c.linked = empty /\ c.data = [i \in Items |-> none]
        /\ c.cas_id = [i \in Items |-> zero] /\ c.lru = none /\ c.last_cas = zero
        /\ c.halted = no
    BY <1>3
  <1>6. cache = c
    BY <1>1 DEF c
  <1>7. Worded(cache)
    <2>1. zero <= zero
      BY DEF zero
    <2>2. c.data \in [Items -> Seq(0 .. Base)]
      <3> DEFINE S == Seq(0 .. Base)
      <3>1. none \in S
        BY <1>4
      <3> HIDE DEF S
      <3>2. c.data \in [Items -> S]
        BY <1>5, <3>1
      <3> QED
        BY <3>2 DEF S
    <2> QED
      BY <1>4, <1>5, <1>6, <2>1, <2>2 DEF Worded
  <1>8. Tidy(cache)
    <2>1. 1 .. Len(none) = {}
      BY <1>4
    <2>2. Lists(none, empty)
      BY <1>4, <2>1 DEF Lists, empty
    <2>3. Ordered(c)
      BY <1>5, <2>1 DEF Ordered, empty
    <2> QED
      BY <1>5, <1>6, <2>2, <2>3 DEF Tidy, Trim, empty
  <1> QED
    BY <1>2, <1>7, <1>8, TidyListed DEF Fit

----------------------------------------------------------------------------
(* The types of the rest, and the delete queue *)

\* The command of a connection.
Meant(p) == /\ p.cmd \in Commands \cup {"none"} /\ p.key \in Keys \cup {Null} /\ p.arg \in Int

\* The commands the connections are in the middle of, the clock, the ghost, and the
\* delete queue, which is never longer than its room.
Around ==
    /\ \A s \in Conns : Meant(conn[s])
    /\ current_time \in Nat \ {0} /\ oldest_live \in Nat
    /\ gone \subseteq cache.linked
    /\ deltotal \in Nat \ {0} /\ Len(todelete) <= deltotal

\* One connection goes on.
LEMMA MeantStep ==
    ASSUME IInv, \A s \in Conns : Meant(conn[s]), NEW s \in Conns,
           \/ \E at : Step(s, at)
           \/ Done(s)
           \/ \E at, i : \E cmd \in Commands \cup {"none"}, k \in Keys \cup {Null} :
                 Goto(s, at, cmd, k, i)
           \/ \E p : Meant(p) /\ conn' = [conn EXCEPT ![s] = p]
           \/ conn' = conn
    PROVE  \A t \in Conns : Meant(conn'[t])
  <1>1. conn = [t \in Conns |-> conn[t]]
    BY DEF IInv
  <1>2. ASSUME NEW p, Meant(p), conn' = [conn EXCEPT ![s] = p]
        PROVE  \A t \in Conns : Meant(conn'[t])
    BY <1>1, <1>2
  <1>3. CASE \E at : Step(s, at)
    <2>1. PICK at : conn' = [conn EXCEPT ![s].at = at]
      BY <1>3 DEF Step
    <2>2. conn[s] = [at |-> conn[s].at, cmd |-> conn[s].cmd, key |-> conn[s].key,
                     it |-> conn[s].it, arg |-> conn[s].arg]
      BY DEF IInv, ConnOK
    <2>3. conn' = [conn EXCEPT ![s] = [conn[s] EXCEPT !.at = at]]
      BY <1>1, <2>1
    <2> DEFINE p == [conn[s] EXCEPT !.at = at]
    <2>4. p.cmd = conn[s].cmd /\ p.key = conn[s].key /\ p.arg = conn[s].arg
      BY <2>2
    <2> HIDE DEF p
    <2>5. Meant(p)
      BY <2>4 DEF Meant
    <2>6. conn' = [conn EXCEPT ![s] = p]
      BY <2>3 DEF p
    <2> QED
      BY <1>2, <2>5, <2>6
  <1>4. CASE Done(s)
    <2>1. Meant(Idle)
      BY DEF Meant, Idle
    <2> QED
      BY <1>2, <1>4, <2>1 DEF Done
  <1>5. CASE \E at, i : \E cmd \in Commands \cup {"none"}, k \in Keys \cup {Null} :
                Goto(s, at, cmd, k, i)
    <2>0. PICK at, i : \E cmd \in Commands \cup {"none"}, k \in Keys \cup {Null} :
                          Goto(s, at, cmd, k, i)
      BY <1>5
    <2>1. PICK cmd \in Commands \cup {"none"}, k \in Keys \cup {Null} : Goto(s, at, cmd, k, i)
      BY <2>0
    <2> DEFINE p == [at |-> at, cmd |-> cmd, key |-> k, it |-> i, arg |-> 0]
    <2>2. p.cmd = cmd /\ p.key = k /\ p.arg = 0
      OBVIOUS
    <2>3. conn' = [conn EXCEPT ![s] = p]
      BY <2>1 DEF Goto
    <2> HIDE DEF p
    <2>4. Meant(p)
      BY <2>2 DEF Meant
    <2> QED
      BY <1>2, <2>3, <2>4
  <1>6. CASE conn' = conn
    BY <1>6
  <1> QED
    BY <1>2, <1>3, <1>4, <1>5, <1>6

\* The connections keep their types.
LEMMA MeantStays ==
    ASSUME IInv, \A s \in Conns : Meant(conn[s]), FlushDelays \subseteq Nat, [Next]_vars
    PROVE  \A s \in Conns : Meant(conn'[s])
  <1> DEFINE Good == \A s \in Conns : Meant(conn'[s])
  <1>1. ASSUME NEW s \in Conns, \/ item_unlink(s) \/ item_update(s) \/ complete_nread(s)
                                \/ add_delta(s)
        PROVE  \E at : Step(s, at)
    BY <1>1 DEF item_unlink, item_update, complete_nread, add_delta
  <1>2. ASSUME NEW s \in Conns, item_remove(s) \/ item_flush_expired(s)
        PROVE  Done(s)
    BY <1>2 DEF item_remove, item_flush_expired
  <1>3. ASSUME NEW s \in Conns, NEW cmd \in Commands \cup {"none"}, NEW k \in Keys \cup {Null},
               NEW next, Lookup(s, cmd, k, next)
        PROVE  Good
    <2>1. Done(s) \/ \E i : Goto(s, next, cmd, k, i)
      BY <1>3 DEF Lookup
    <2> QED
      BY <2>1, MeantStep
  <1> HIDE DEF Good
  <1>4. CASE \E s \in Conns : alloc_failed(s)
    <2>1. PICK s \in Conns : alloc_failed(s)
      BY <1>4
    <2>2. Meant(conn[s])
      OBVIOUS
    <2> QED
      <3>2. Lookup(s, conn[s].cmd, conn[s].key, "unlink")
        BY <2>1 DEF alloc_failed
      <3>3. conn[s].cmd \in Commands \cup {"none"} /\ conn[s].key \in Keys \cup {Null}
        BY <2>2 DEF Meant
      <3> QED
        BY <1>3, <3>2, <3>3 DEF Good
  <1>5. CASE \E s \in Conns, k \in Keys :
                \/ process_get_command(s, k) \/ process_delete_command(s, k)
                \/ \E cmd \in Arithmetic : process_arithmetic_command(s, cmd, k)
    <2>1. PICK s \in Conns, k \in Keys :
                \/ process_get_command(s, k) \/ process_delete_command(s, k)
                \/ \E cmd \in Arithmetic : process_arithmetic_command(s, cmd, k)
      BY <1>5
    <2>2. PICK next : \E cmd \in Commands : Lookup(s, cmd, k, next)
      BY <2>1 DEF process_get_command, process_delete_command, process_arithmetic_command, Asks
    <2>3. PICK cmd \in Commands : Lookup(s, cmd, k, next)
      BY <2>2
    <2>4. cmd \in Commands \cup {"none"} /\ k \in Keys \cup {Null}
      OBVIOUS
    <2> QED
      BY <1>3, <2>3, <2>4 DEF Good
  <1>6. CASE \E s \in Conns, k \in Keys, cmd \in Storage, v \in Values, e \in Exptimes,
                u \in 0 .. cache.last_cas : process_update_command(s, cmd, k, v, e, u)
    <2>1. PICK s \in Conns, k \in Keys, cmd \in Storage, v \in Values, e \in Exptimes,
               u \in 0 .. cache.last_cas : process_update_command(s, cmd, k, v, e, u)
      BY <1>6
    <2>2. cmd \in Commands
      BY <2>1 DEF process_update_command, Asks
    <2>3. \/ \E at, i : Goto(s, at, cmd, k, i)
          \/ Done(s)
      BY <2>1 DEF process_update_command
    <2> QED
      BY <2>2, <2>3, MeantStep DEF Good
  <1>7. CASE \E s \in Conns, d \in Delays : defer_delete(s, d)
    <2>1. PICK s \in Conns, d \in Delays : defer_delete(s, d)
      BY <1>7
    <2>2. Done(s) \/ conn' = conn
      BY <2>1 DEF defer_delete
    <2> QED
      BY <2>2, MeantStep DEF Good
  <1>8. CASE \E s \in Conns, d \in FlushDelays : flush_all(s, d)
    <2>1. PICK s \in Conns, d \in FlushDelays : flush_all(s, d)
      BY <1>8
    <2> DEFINE p == [Idle EXCEPT !.at = "flush", !.cmd = "flush_all", !.arg = d]
    <2>2. p.cmd = "flush_all" /\ p.key = Null /\ p.arg = d
      BY DEF Idle
    <2>3. conn' = [conn EXCEPT ![s] = p] /\ "flush_all" \in Commands
      BY <2>1 DEF flush_all, Asks
    <2> HIDE DEF p
    <2>4. Meant(p)
      BY <2>2, <2>3 DEF Meant
    <2> QED
      BY <2>3, <2>4, MeantStep DEF Good
  <1>9. CASE delete_handler \/ clock_handler \/ Halted \/ UNCHANGED vars
    <2>1. conn' = conn
      BY <1>9 DEF delete_handler, clock_handler, Halted, vars
    <2> QED
      BY <2>1 DEF Good
  <1>10. CASE \E s \in Conns : \/ item_unlink(s) \/ item_update(s) \/ complete_nread(s)
                               \/ add_delta(s) \/ item_remove(s) \/ item_flush_expired(s)
    BY <1>1, <1>2, <1>10, MeantStep DEF Good
  <1>11. Next \/ UNCHANGED vars
    OBVIOUS
  <1> QED
    BY <1>4, <1>5, <1>6, <1>7, <1>8, <1>9, <1>10, <1>11 DEF Next

\* A flushed item is a linked one.
LEMMA GoneStays ==
    ASSUME gone \subseteq cache.linked, [Next]_vars
    PROVE  gone' \subseteq cache'.linked
  <1>1. ASSUME NEW c, Cached(c) PROVE gone' \subseteq cache'.linked
    BY <1>1 DEF Cached
  <1>2. CASE \E s \in Conns : \/ item_unlink(s) \/ item_update(s) \/ item_remove(s)
                              \/ add_delta(s) \/ alloc_failed(s)
    BY <1>1, <1>2 DEF item_unlink, item_update, item_remove, add_delta, alloc_failed, Lookup
  <1>3. CASE \E s \in Conns : complete_nread(s)
    BY <1>1, <1>3 DEF complete_nread
  <1>4. CASE \E s \in Conns : item_flush_expired(s)
    BY <1>4 DEF item_flush_expired
  <1>5. CASE \E s \in Conns, k \in Keys :
                \/ process_get_command(s, k) \/ process_delete_command(s, k)
                \/ \E cmd \in Arithmetic : process_arithmetic_command(s, cmd, k)
    BY <1>1, <1>5 DEF process_get_command, process_delete_command, process_arithmetic_command,
                      Lookup
  <1>6. CASE \E s \in Conns, k \in Keys, cmd \in Storage, v \in Values, e \in Exptimes,
                u \in 0 .. cache.last_cas : process_update_command(s, cmd, k, v, e, u)
    <2>1. PICK s \in Conns, k \in Keys, cmd \in Storage, v \in Values, e \in Exptimes,
               u \in 0 .. cache.last_cas : process_update_command(s, cmd, k, v, e, u)
      BY <1>6
    <2> DEFINE D(a) == [a.c EXCEPT !.data[a.it] = digits(v), !.cas_id[a.it] = u]
    <2>2. \E a : Cached(D(a)) \/ Cached(a.c)
      BY <2>1 DEF process_update_command
    <2> HIDE DEF D
    <2> QED
      BY <1>1, <2>2
  <1>7. CASE \E s \in Conns, d \in Delays : defer_delete(s, d)
    <2>1. \E c : Cached(c)
      BY <1>7 DEF defer_delete
    <2> QED
      BY <1>1, <2>1
  <1>8. CASE \/ clock_handler \/ Halted \/ UNCHANGED vars
             \/ \E s \in Conns, d \in FlushDelays : flush_all(s, d)
    <2>1. cache' = cache /\ gone' = gone
      BY <1>8 DEF clock_handler, Halted, vars, flush_all
    <2> QED
      BY <2>1
  <1>9. CASE delete_handler
    BY <1>1, <1>9 DEF delete_handler
  <1> QED
    BY <1>2, <1>3, <1>4, <1>5, <1>6, <1>7, <1>8, <1>9 DEF Next

\* The queue stays within its room.
LEMMA RoomStays ==
    ASSUME IInv, NoneOld, Fit, deltotal \in Nat \ {0}, Len(todelete) <= deltotal, [Next]_vars
    PROVE  deltotal' \in Nat \ {0} /\ Len(todelete') <= deltotal'
  <1>0. todelete \in Seq(Items) /\ Len(todelete) \in Nat
    BY DEF IInv
  <1>1. CASE UNCHANGED defer
    BY <1>1 DEF defer
  <1>2. CASE delete_handler
    <2>1. Len(todelete') <= Len(todelete) /\ todelete' \in Seq(Items)
      BY <1>2, QueueStamps
    <2>2. deltotal' = deltotal
      BY <1>2 DEF delete_handler
    <2>3. Len(todelete') \in Nat
      BY <2>1
    <2> QED
      BY <1>0, <2>1, <2>2, <2>3
  <1>3. CASE \E s \in Conns, d \in Delays : defer_delete(s, d)
    <2>1. PICK s \in Conns, d \in Delays : defer_delete(s, d)
      BY <1>3
    <2>2. CASE todelete' = Append(todelete, conn[s].it)
               /\ deltotal' = IF queue_full THEN deltotal * 2 ELSE deltotal
      <3>1. Len(todelete') = Len(todelete) + 1
        BY <1>0, <2>2
      <3>2. deltotal' = deltotal \/ deltotal' = deltotal * 2
        BY <2>2
      <3>3. Len(todelete) >= deltotal => deltotal' = deltotal * 2
        BY <2>2 DEF queue_full
      <3> HIDE <2>2
      <3> QED
        BY <1>0, <3>1, <3>2, <3>3
    <2> QED
      BY <1>1, <2>1, <2>2 DEF defer_delete
  <1>4. CASE clock_handler \/ Halted \/ UNCHANGED vars
    BY <1>1, <1>4 DEF clock_handler, Halted, vars, defer
  <1>5. CASE \E s \in Conns :
                \/ item_unlink(s) \/ item_remove(s) \/ item_update(s)
                \/ alloc_failed(s) \/ complete_nread(s) \/ add_delta(s)
                \/ item_flush_expired(s)
    BY <1>1, <1>5 DEF item_unlink, item_remove, item_update, alloc_failed, complete_nread,
                      add_delta, item_flush_expired
  <1>6. CASE \E s \in Conns, k \in Keys :
                \/ process_get_command(s, k) \/ process_delete_command(s, k)
                \/ \E cmd \in Arithmetic : process_arithmetic_command(s, cmd, k)
    BY <1>1, <1>6 DEF process_get_command, process_delete_command, process_arithmetic_command
  <1>7. CASE \E s \in Conns, k \in Keys, cmd \in Storage, v \in Values, e \in Exptimes,
                u \in 0 .. cache.last_cas : process_update_command(s, cmd, k, v, e, u)
    BY <1>1, <1>7 DEF process_update_command
  <1>8. CASE \E s \in Conns, d \in FlushDelays : flush_all(s, d)
    BY <1>1, <1>8 DEF flush_all
  <1> QED
    BY <1>2, <1>3, <1>4, <1>5, <1>6, <1>7, <1>8 DEF Next

\* The clock goes on, and a flush is for a time that is not negative.
LEMMA ClockStays ==
    ASSUME current_time \in Nat \ {0}, oldest_live \in Nat, FlushDelays \subseteq Nat,
           [Next]_vars
    PROVE  current_time' \in Nat \ {0} /\ oldest_live' \in Nat /\ current_time' >= current_time
  <1>1. CASE UNCHANGED clock
    BY <1>1 DEF clock
  <1>2. CASE delete_handler \/ Halted \/ UNCHANGED vars
    BY <1>1, <1>2 DEF delete_handler, Halted, vars, clock
  <1>3. CASE \E s \in Conns :
                \/ item_unlink(s) \/ item_remove(s) \/ item_update(s)
                \/ alloc_failed(s) \/ complete_nread(s) \/ add_delta(s)
                \/ item_flush_expired(s)
    BY <1>1, <1>3 DEF item_unlink, item_remove, item_update, alloc_failed, complete_nread,
                      add_delta, item_flush_expired
  <1>4. CASE \E s \in Conns, k \in Keys :
                \/ process_get_command(s, k) \/ process_delete_command(s, k)
                \/ \E cmd \in Arithmetic : process_arithmetic_command(s, cmd, k)
    BY <1>1, <1>4 DEF process_get_command, process_delete_command, process_arithmetic_command
  <1>5. CASE \E s \in Conns, k \in Keys, cmd \in Storage, v \in Values, e \in Exptimes,
                u \in 0 .. cache.last_cas : process_update_command(s, cmd, k, v, e, u)
    BY <1>1, <1>5 DEF process_update_command
  <1>6. CASE \E s \in Conns, d \in Delays : defer_delete(s, d)
    BY <1>1, <1>6 DEF defer_delete
  <1>7. CASE \E s \in Conns, d \in FlushDelays : flush_all(s, d)
    <2>1. PICK s \in Conns, d \in FlushDelays : flush_all(s, d)
      BY <1>7
    <2>2. d \in Nat /\ current_time' \in current_time .. current_time + 1
          /\ oldest_live' = current_time' + d - 1
      BY <2>1 DEF flush_all
    <2> DEFINE x == current_time'
               y == oldest_live'
    <2>3. d \in Nat /\ x \in current_time .. current_time + 1 /\ y = x + d - 1
      BY <2>2
    <2> HIDE DEF x, y
    <2>4. x \in Nat \ {0} /\ y \in Nat /\ x >= current_time
      BY <2>3
    <2> QED
      BY <2>4 DEF x, y
  <1>8. CASE clock_handler
    <2>1. current_time' = current_time + 1 /\ oldest_live' = oldest_live
      BY <1>8 DEF clock_handler
    <2> QED
      BY <2>1
  <1> QED
    BY <1>2, <1>3, <1>4, <1>5, <1>6, <1>7, <1>8 DEF Next

\* All that holds.
FInv == IInv /\ Fit /\ Around

\* Every step keeps it.
LEMMA FSteps ==
    ASSUME FInv, NoneOld, Exptimes \subseteq Int, Delays \subseteq Nat \ {0},
           FlushDelays \subseteq Nat, [Next]_vars
    PROVE  FInv'
  <1>1. IInv' /\ Fit'
    BY Steps, StaysFit DEF FInv, Around
  <1>2. \A s \in Conns : Meant(conn[s])
    BY DEF FInv, Around
  <1>3. \A s \in Conns : Meant(conn'[s])
    BY <1>2, MeantStays DEF FInv
  <1>4. gone' \subseteq cache'.linked
    BY GoneStays DEF FInv, Around
  <1>5. deltotal' \in Nat \ {0} /\ Len(todelete') <= deltotal'
    BY RoomStays DEF FInv, Around
  <1>6. current_time' \in Nat \ {0} /\ oldest_live' \in Nat
    BY ClockStays DEF FInv, Around
  <1>7. Around'
    BY <1>3, <1>4, <1>5, <1>6 DEF Around
  <1> QED
    BY <1>1, <1>7 DEF FInv

\* It holds at first.
LEMMA FStarts == Init => FInv
  <1> HAVE Init
  <1>1. IInv /\ Fit
    BY Starts, FitStarts
  <1>2. \A s \in Conns : conn[s] = Idle
    BY DEF Init
  <1>3. \A s \in Conns : /\ conn[s].cmd \in Commands \cup {"none"}
                         /\ conn[s].key \in Keys \cup {Null} /\ conn[s].arg \in Int
    BY <1>2 DEF Idle
  <1>4. current_time \in Nat \ {0} /\ oldest_live \in Nat /\ gone = {}
        /\ deltotal \in Nat \ {0} /\ todelete = <<>>
    BY CacheAssumption DEF Init
  <1>5. Len(todelete) <= deltotal
    BY <1>4
  <1> QED
    BY <1>1, <1>3, <1>4, <1>5 DEF FInv, Around, Meant

\* The types, and the marks.
LEMMA FTypes == FInv => DeletedAreQueued
  <1> HAVE FInv
  <1>1. IInv /\ Fit /\ Around
    BY DEF FInv
  <1>2. Running => cache.deleted \ cache.free = ToSet(todelete)
    BY <1>1 DEF IInv, Running, Counted, Queued
  <1>3. /\ cache.free \subseteq Items
        /\ cache.linked \subseteq Items /\ cache.deleted \subseteq Items
        /\ cache.refcount \in [Items -> Nat]
        /\ cache.key \in [Items -> Keys \cup {Null}]
        /\ cache.time \in [Items -> Nat] /\ cache.exptime \in [Items -> Int]
        /\ cache.table \in [Keys -> Items \cup {Null}] /\ cache.last_cas \in Nat
    BY <1>1 DEF Fit, Tabled, Typed
  <1>4. /\ cache.data \in [Items -> Seq(0 .. Base)]
        /\ cache.cas_id \in [Items -> Nat] /\ cache.lru \in Seq(Items)
        /\ cache.halted \in Stops
    BY <1>1 DEF Fit, Worded, Listed
  <1>5. conn \in [Conns -> [at : Place, key : Keys \cup {Null},
                            it : Items \cup {Null}, arg : Int,
                            cmd : Commands \cup {"none"}]]
    <2>1. ASSUME NEW s \in Conns
          PROVE  conn[s] \in [at : Place, key : Keys \cup {Null},
                              it : Items \cup {Null}, arg : Int,
                              cmd : Commands \cup {"none"}]
      <3> DEFINE p == conn[s]
      <3>1. /\ p = [at |-> p.at, cmd |-> p.cmd, key |-> p.key, it |-> p.it, arg |-> p.arg]
            /\ p.at \in Place /\ p.it \in Items \cup {Null}
        BY <1>1 DEF IInv, ConnOK
      <3>2. p.cmd \in Commands \cup {"none"} /\ p.key \in Keys \cup {Null} /\ p.arg \in Int
        BY <1>1 DEF Around, Meant
      <3> HIDE DEF p
      <3>3. p \in [at : Place, key : Keys \cup {Null},
                   it : Items \cup {Null}, arg : Int, cmd : Commands \cup {"none"}]
        BY <3>1, <3>2
      <3> QED
        BY <3>3 DEF p
    <2>2. conn = [s \in Conns |-> conn[s]]
      BY <1>1 DEF IInv
    <2> QED
      BY <2>1, <2>2
  <1>6. /\ todelete \in Seq(Items) /\ deltotal \in Nat
        /\ Len(todelete) <= deltotal
        /\ gone \subseteq cache.linked
        /\ current_time \in Nat /\ oldest_live \in Nat
    BY <1>1 DEF IInv, Around, Meant
  <1>7. TypeOK
    BY <1>3, <1>4, <1>5, <1>6 DEF TypeOK
  <1> QED
    BY <1>2, <1>7 DEF DeletedAreQueued

\* Everything keeps its type, also when the server has stopped; and while it runs, the
\* items marked ITEM_DELETED, and not free, are those of the delete queue, which is never
\* longer than its room (do_defer_delete, do_run_deferred_deletes).  Conditions: a delete
\* with a time is for a later time, and a flush is not for one before now.
THEOREM AlwaysQueued ==
    ASSUME Exptimes \subseteq Int, Delays \subseteq Nat \ {0}, FlushDelays \subseteq Nat
    PROVE  Spec /\ []NoneOld => []DeletedAreQueued
  <1>1. Init => FInv
    BY FStarts
  <1>2. FInv /\ NoneOld /\ [Next]_vars => FInv'
    BY FSteps
  <1>3. FInv => DeletedAreQueued
    BY FTypes
  <1> QED
    BY <1>1, <1>2, <1>3, PTL DEF Spec

----------------------------------------------------------------------------
(* What flush_all made invisible *)

\* Only flush_all leads to the walk of the list.
LEMMA FlushComes ==
    ASSUME IInv, [Next]_vars
    PROVE  Keeps("flush") \/ \E s \in Conns, d \in FlushDelays : flush_all(s, d)
  <1> DEFINE at == "flush"
  <1>1. at # "idle" /\ at # "remove" /\ at # "unlink" /\ at # "defer" /\ at # "update"
        /\ at # "delta" /\ at # "nread" /\ at # "alloc failed"
    OBVIOUS
  <1> HIDE DEF at
  <1>2. CASE conn' = conn
    BY <1>2 DEF Keeps, at
  <1>3. CASE \E s \in Conns :
                \/ item_unlink(s) \/ item_remove(s) \/ item_update(s)
                \/ complete_nread(s) \/ add_delta(s) \/ item_flush_expired(s)
    <2>1. \E s \in Conns : Step(s, "remove") \/ Done(s)
      BY <1>3 DEF item_unlink, item_remove, item_update, complete_nread, add_delta,
                  item_flush_expired
    <2>2. Keeps(at)
      BY <1>1, <2>1, KeepsOn
    <2> QED
      BY <2>2 DEF at
  <1>4. CASE \E s \in Conns :
                \/ alloc_failed(s)
                \/ \E k \in Keys :
                      \/ process_get_command(s, k) \/ process_delete_command(s, k)
                      \/ \E cmd \in Arithmetic : process_arithmetic_command(s, cmd, k)
    <2>1. \E s \in Conns : \E cmd, k : \/ Lookup(s, cmd, k, "unlink")
                                       \/ Lookup(s, cmd, k, "defer")
                                       \/ Lookup(s, cmd, k, "update")
                                       \/ Lookup(s, cmd, k, "delta")
      BY <1>4 DEF alloc_failed, process_get_command, process_delete_command,
                  process_arithmetic_command
    <2>2. Keeps(at)
      BY <1>1, <2>1, LookupKeeps
    <2> QED
      BY <2>2 DEF at
  <1>5. CASE \E s \in Conns, k \in Keys, cmd \in Storage, v \in Values, e \in Exptimes,
                u \in 0 .. cache.last_cas : process_update_command(s, cmd, k, v, e, u)
    <2>1. PICK s \in Conns, k \in Keys, cmd \in Storage, v \in Values, e \in Exptimes,
               u \in 0 .. cache.last_cas : process_update_command(s, cmd, k, v, e, u)
      BY <1>5
    <2>2. \/ \E i : Goto(s, "nread", cmd, k, i)
          \/ Goto(s, "alloc failed", cmd, k, Null)
          \/ Done(s)
      BY <2>1 DEF process_update_command
    <2>3. Keeps(at)
      BY <1>1, <2>2, KeepsOn
    <2> QED
      BY <2>3 DEF at
  <1>6. CASE \E s \in Conns, d \in Delays : defer_delete(s, d)
    <2>1. PICK s \in Conns, d \in Delays : defer_delete(s, d)
      BY <1>6
    <2>2. Done(s) \/ conn' = conn
      BY <2>1 DEF defer_delete
    <2>3. Keeps(at) \/ conn' = conn
      BY <1>1, <2>2, KeepsOn
    <2> QED
      BY <1>2, <2>3 DEF at
  <1>7. CASE delete_handler \/ clock_handler \/ Halted \/ UNCHANGED vars
    BY <1>2, <1>7 DEF delete_handler, clock_handler, Halted, vars
  <1>8. Next \/ UNCHANGED vars
    OBVIOUS
  <1> QED
    BY <1>3, <1>4, <1>5, <1>6, <1>7, <1>8 DEF Next

\* An item stays one of the flushed while it has its time, or its cas id.
LEMMA GoneWay ==
    ASSUME [Next]_vars
    PROVE  \/ \E s \in Conns : item_flush_expired(s)
           \/ \A i \in gone' : i \in gone /\ \/ cache'.time[i] = cache.time[i]
                                             \/ cache'.cas_id[i] = cache.cas_id[i]
  <1> DEFINE Good == \A i \in gone' : i \in gone /\ \/ cache'.time[i] = cache.time[i]
                                                    \/ cache'.cas_id[i] = cache.cas_id[i]
  <1>1. ASSUME NEW c, Cached(c) PROVE Good
    BY <1>1 DEF Cached
  <1>2. cache' = cache /\ gone' = gone => Good
    OBVIOUS
  <1> HIDE DEF Good
  <1>3. CASE \E s \in Conns : \/ item_unlink(s) \/ item_update(s) \/ item_remove(s)
                              \/ add_delta(s) \/ alloc_failed(s)
    BY <1>1, <1>3 DEF item_unlink, item_update, item_remove, add_delta, alloc_failed, Lookup, Good
  <1>4. CASE \E s \in Conns : complete_nread(s)
    BY <1>1, <1>2, <1>4 DEF complete_nread, Good
  <1>5. CASE \E s \in Conns, k \in Keys :
                \/ process_get_command(s, k) \/ process_delete_command(s, k)
                \/ \E cmd \in Arithmetic : process_arithmetic_command(s, cmd, k)
    BY <1>1, <1>5 DEF process_get_command, process_delete_command, process_arithmetic_command,
                      Lookup, Good
  <1>6. CASE \E s \in Conns, k \in Keys, cmd \in Storage, v \in Values, e \in Exptimes,
                u \in 0 .. cache.last_cas : process_update_command(s, cmd, k, v, e, u)
    <2>1. PICK s \in Conns, k \in Keys, cmd \in Storage, v \in Values, e \in Exptimes,
               u \in 0 .. cache.last_cas : process_update_command(s, cmd, k, v, e, u)
      BY <1>6
    <2> DEFINE D(a) == [a.c EXCEPT !.data[a.it] = digits(v), !.cas_id[a.it] = u]
    <2>2. \E a : Cached(D(a)) \/ Cached(a.c)
      BY <2>1 DEF process_update_command
    <2> HIDE DEF D
    <2> QED
      BY <1>1, <2>2 DEF Good
  <1>7. CASE \E s \in Conns, d \in Delays : defer_delete(s, d)
    <2>1. \E c : Cached(c)
      BY <1>7 DEF defer_delete
    <2> QED
      BY <1>1, <2>1 DEF Good
  <1>8. CASE delete_handler
    BY <1>1, <1>8 DEF delete_handler, Good
  <1>9. CASE \/ clock_handler \/ Halted \/ UNCHANGED vars
             \/ \E s \in Conns, d \in FlushDelays : flush_all(s, d)
    <2>1. cache' = cache /\ gone' = gone
      BY <1>9 DEF clock_handler, Halted, vars, flush_all
    <2> QED
      BY <1>2, <2>1 DEF Good
  <1>10. Next \/ UNCHANGED vars
    OBVIOUS
  <1> QED
    BY <1>3, <1>4, <1>5, <1>6, <1>7, <1>8, <1>9, <1>10 DEF Next

\* What a finished flush_all made invisible is still flushed, and one on its way has set
\* oldest_live.
Gone ==
    /\ current_time >= 2
    /\ "flush_all" \notin Commands => gone = {}
    /\ \A s \in Conns : conn[s].at = "flush" => "flush_all" \in Commands /\ oldest_live # 0
    /\ cache.halted = "no" => \A i \in gone : flushed(cache, i)

\* A step that leaves the item of a key, or gives the key a new one.
LEMMA GoneDoes ==
    ASSUME IInv, IInv', Fit, cache.halted = "no", cache'.halted = "no", UNCHANGED clock,
           gone \subseteq cache.linked, gone' \subseteq cache'.linked,
           \A i \in gone : flushed(cache, i), NEW h, NEW new, Does(cache, cache', h, new),
           NEW i \in gone, i \in gone',
           \/ cache'.time[i] = cache.time[i]
           \/ cache'.cas_id[i] = cache.cas_id[i]
    PROVE  flushed(cache', i)
  <1>1. i \in Items /\ i \in cache'.linked /\ Linked(cache') /\ Typed(cache')
    BY DEF IInv, Typed, Linked
  <1> DEFINE k == cache'.key[i]
  <1>2. k \in Keys /\ cache'.table[k] = i
    <2>1. i \notin cache'.free
      BY <1>1 DEF Linked
    <2> QED
      BY <1>1, <2>1 DEF Linked
  <1>3. i # Null
    BY <1>1, ItemsAssumption
  <1>4. Leaves(cache, cache', k) \/ Fresh(cache, cache', k)
    BY <1>2 DEF Does
  <1>5. CASE Leaves(cache, cache', k)
    BY <1>2, <1>3, <1>5 DEF Leaves
  <1>6. CASE Fresh(cache, cache', k)
    <2>1. cache'.cas_id[i] \in cache.last_cas + 1 .. cache'.last_cas
      BY <1>2, <1>3, <1>6 DEF Fresh
    <2>2. cache.cas_id[i] <= cache.last_cas /\ cache.cas_id[i] \in Nat /\ cache.last_cas \in Nat
      BY <1>1 DEF Fit, Worded, Tabled
    <2>3. cache'.cas_id[i] # cache.cas_id[i]
      <3> DEFINE x == cache'.cas_id[i]
                 y == cache'.last_cas
      <3>1. x \in cache.last_cas + 1 .. y
        BY <2>1
      <3> HIDE DEF x, y
      <3>2. x # cache.cas_id[i]
        BY <2>2, <3>1
      <3> QED
        BY <3>2 DEF x
    <2>4. cache'.time[i] = cache.time[i]
      BY <2>3
    <2> QED
      BY <2>4 DEF flushed
  <1> QED
    BY <1>4, <1>5, <1>6

\* flush_all's walk takes out what was not last used before.
LEMMA GoneWalk ==
    ASSUME IInv, NoneOld, Fit, Timely, Gone, gone' \subseteq cache'.linked,
           IInv', cache'.halted = "no", NEW s \in Conns, item_flush_expired(s)
    PROVE  \A i \in gone' : flushed(cache', i)
  <1>1. cache.halted = "no" /\ oldest_live # 0 /\ UNCHANGED clock
    BY DEF item_flush_expired, At, Gone
  <1>2. oldest_live \in Nat /\ oldest_live < current_time /\ current_time \in Nat
    BY DEF Timely, IInv
  <1>3. \A i \in cache'.linked : i \in cache.linked /\ cache.time[i] < oldest_live
    BY <1>1, <1>2, WalkStamps
  <1>4. Does(cache, cache', Null, Null)
    BY SweepActs DEF Acts, Timely
  <1> SUFFICES ASSUME NEW i \in gone' PROVE flushed(cache', i)
    OBVIOUS
  <1>5. i \in cache'.linked /\ i \in Items /\ Linked(cache')
    BY DEF IInv, Typed
  <1>6. cache.time[i] \in Nat
    BY <1>5 DEF Fit, Tabled, Typed
  <1>7. flushed(cache, i)
    BY <1>1, <1>2, <1>3, <1>5, <1>6 DEF flushed
  <1> DEFINE k == cache'.key[i]
  <1>8. k \in Keys /\ cache'.table[k] = i /\ i # Null
    BY <1>5, ItemsAssumption DEF Linked
  <1>9. Leaves(cache, cache', k)
    <2>1. k # Null
      BY <1>8, ItemsAssumption
    <2> QED
      BY <1>4, <1>8, <2>1 DEF Does
  <1> QED
    BY <1>7, <1>8, <1>9 DEF Leaves

\* Every step keeps what is flushed flushed.
LEMMA GoneSteps ==
    ASSUME FInv, FInv', NoneOld, Timely, Timely', Gone, NoRevival, Exptimes \subseteq Int,
           Delays \subseteq Nat \ {0}, FlushDelays \subseteq Nat, [Next]_vars
    PROVE  Gone'
  <1>1. /\ IInv /\ IInv' /\ Fit /\ Fit' /\ Tabled(cache)
        /\ gone \subseteq cache.linked /\ gone' \subseteq cache'.linked
        /\ current_time \in Nat \ {0} /\ oldest_live \in Nat
    BY DEF FInv, Around, Fit
  <1>2. /\ current_time' \in Nat /\ current_time' >= current_time
        /\ oldest_live' \in Nat /\ oldest_live' >= oldest_live
    <2>1. \/ UNCHANGED clock
          \/ /\ current_time' \in Nat /\ current_time' >= current_time
             /\ oldest_live' >= oldest_live
      BY <1>1, StaysTimely
    <2>2. CASE UNCHANGED clock
      BY <1>1, <2>2 DEF clock
    <2> QED
      BY <1>1, <2>1, <2>2, ClockStays
  <1>3. current_time' >= 2
    BY <1>1, <1>2 DEF Gone
  <1>4. "flush_all" \notin Commands => gone' = {}
    <2>1. ASSUME "flush_all" \notin Commands PROVE ~\E s \in Conns : item_flush_expired(s)
      BY <2>1 DEF Gone, item_flush_expired, At
    <2> QED
      BY <2>1, GoneWay DEF Gone
  <1>5. \A s \in Conns : conn'[s].at = "flush" => "flush_all" \in Commands /\ oldest_live' # 0
    <2>1. CASE Keeps("flush")
      BY <1>1, <1>2, <2>1 DEF Keeps, Gone
    <2>2. CASE \E s \in Conns, d \in FlushDelays : flush_all(s, d)
      <3>1. PICK s \in Conns, d \in FlushDelays : flush_all(s, d)
        BY <2>2
      <3>2. /\ "flush_all" \in Commands /\ d \in Nat
            /\ oldest_live' = current_time' + d - 1
        BY <3>1 DEF flush_all, Asks
      <3>3. oldest_live' # 0
        <4> DEFINE x == current_time'
                   y == oldest_live'
        <4>1. x >= 2 /\ x \in Nat /\ y = x + d - 1
          BY <1>2, <1>3, <3>2
        <4> HIDE DEF x, y
        <4>2. y # 0
          BY <3>2, <4>1
        <4> QED
          BY <4>2 DEF y
      <3> QED
        BY <3>2, <3>3
    <2> QED
      BY <1>1, <2>1, <2>2, FlushComes
  <1>6. ASSUME cache'.halted = "no", NEW i \in gone' PROVE flushed(cache, i)'
    <2>1. cache.halted = "no"
      BY <1>6, Stopped DEF vars
    <2>2. \A j \in gone : flushed(cache, j)
      BY <2>1 DEF Gone
    <2>3. CASE \E s \in Conns : item_flush_expired(s)
      <3>1. flushed(cache', i) /\ UNCHANGED clock
        BY <1>1, <1>6, <2>3, GoneWalk DEF item_flush_expired
      <3> QED
        BY <3>1 DEF flushed, clock
    <2>4. CASE ~\E s \in Conns : item_flush_expired(s)
      <3>1. i \in gone /\ \/ cache'.time[i] = cache.time[i]
                          \/ cache'.cas_id[i] = cache.cas_id[i]
        BY <1>6, <2>4, GoneWay
      <3>2. flushed(cache, i)
        BY <2>2, <3>1
      <3>3. CASE \E h, new : Acts(h, new) /\ Stores(h)
        <4>1. flushed(cache', i) /\ UNCHANGED clock
          BY <1>1, <1>6, <2>1, <2>2, <3>1, <3>3, GoneDoes DEF Acts
        <4> QED
          BY <4>1 DEF flushed, clock
      <3>4. CASE Locks
        <4>1. UNCHANGED clock /\ cache'.time = cache.time
          BY <3>4 DEF Locks, Fields
        <4> QED
          BY <3>2, <4>1 DEF flushed, clock
      <3>5. CASE \E s \in Conns : item_update(s)
        <4>1. "get" \in Commands
          BY <3>5 DEF Timely, item_update, At
        <4>2. gone = {}
          BY <4>1 DEF NoRevival, Gone
        <4> QED
          BY <3>1, <4>2
      <3>6. CASE cache' = cache
        <4>1. oldest_live' < current_time'
          BY DEF Timely
        <4>2. cache.time[i] \in Nat
          BY <1>1, <3>1 DEF Tabled, Typed
        <4>3. cache'.time[i] = cache.time[i]
          BY <3>6
        <4>4. oldest_live # 0 /\ cache.time[i] <= oldest_live
          BY <3>2 DEF flushed
        <4>5. oldest_live' # 0 /\ oldest_live' <= current_time' /\ cache'.time[i] <= oldest_live'
          BY <1>1, <1>2, <4>1, <4>2, <4>3, <4>4
        <4> QED
          BY <4>5 DEF flushed
      <3> QED
        BY <1>1, <3>3, <3>4, <3>5, <3>6, StepActs
    <2> QED
      BY <2>3, <2>4
  <1> QED
    BY <1>3, <1>4, <1>5, <1>6 DEF Gone

\* It holds at first.
LEMMA GoneStarts == Init => Gone
  <1> HAVE Init
  <1>1. /\ gone = {} /\ current_time = StartTime
        /\ \A s \in Conns : conn[s] = Idle
    BY DEF Init
  <1>2. \A s \in Conns : conn[s].at = "idle"
    BY <1>1 DEF Idle
  <1>3. current_time >= 2
    BY <1>1, CacheAssumption
  <1> QED
    BY <1>1, <1>2, <1>3 DEF Gone

\* After flush_all no lookup returns an item that was there when it finished
\* (do_item_flush_expired, do_item_get_notedeleted).  Condition: no get is there to refresh
\* its time, and no flush is for later (NoRevival).
THEOREM AlwaysFlushed ==
    ASSUME NoRevival, Exptimes \subseteq Int, Delays \subseteq Nat \ {0},
           FlushDelays \subseteq Nat
    PROVE  Spec /\ []NoneOld => []FlushedStayGone
  <1>1. Init => FInv /\ Timely /\ Gone
    BY FStarts, StoreStarts, GoneStarts
  <1>2. FInv /\ NoneOld /\ [Next]_vars => FInv'
    BY FSteps
  <1>3. FInv /\ NoneOld /\ Timely /\ [Next]_vars => Timely'
    BY StaysTimely DEF FInv
  <1>4. FInv /\ FInv' /\ NoneOld /\ Timely /\ Timely' /\ Gone /\ [Next]_vars => Gone'
    BY GoneSteps
  <1>5. Gone => FlushedStayGone
    BY DEF Gone, FlushedStayGone, Visible, Running
  <1> QED
    BY <1>1, <1>2, <1>3, <1>4, <1>5, PTL DEF Spec
============================================================================
